-------------------------------- MODULE Node --------------------------------
(***************************************************************************)
(* The memory of one running node and the steps of its two threads that    *)
(* the CPU and the CUDA programs share: the command line (the main thread) *)
(* that mines and sends blocks, and the server thread that runs the HTTP   *)
(* handlers one at a time.  Both work on the same BlockChain and the same  *)
(* list of nodes, and nothing locks either.                                *)
(*                                                                         *)
(* A step is one access to shared memory and the thread-local work up to   *)
(* the next.  Two accesses that overlap are a data race: a read that races *)
(* sees the vector before or after the write, two racing writes either     *)
(* happen in some order or one of them is lost (Collide), and every worse  *)
(* outcome ends the process (NodeRestart).                                 *)
(***************************************************************************)
EXTENDS Chain

CONSTANTS Contents,  \* the documents peers may post or serve
          Ports,     \* the ports peers may announce
          MaxRounds, \* rounds of the command loop: 100000 in the code
          MaxNodes   \* bound: length of listOfNodes

VARIABLES
    chain,  \* bc.blockchain: the blocks, oldest first
    nodes,  \* listOfNodes
    cli,    \* the main thread: where it is, and its locals
    srv,    \* the server thread: the handler it runs, and its locals
    seen    \* history: what the other thread did meanwhile (see below)

nodeVars == <<chain, nodes, cli, srv, seen>>

ASSUME NodeAssumption ==
    /\ \A c \in Contents : WellFormed(c)
    /\ MaxRounds \in Nat /\ MaxNodes \in Nat

\* The two shared reads every header or argument list makes, in no fixed order.
Reads == {"num", "prev"}

CliIdle == [pc |-> "menu", round |-> 0, data |-> Null, todo |-> {}, num |-> 0,
            prev |-> NoHash, hash |-> NoHash, nonce |-> NoNonce, i |-> 0,
            json |-> EmptyJson]
SrvIdle == [pc |-> "idle", content |-> EmptyJson, i |-> 0, json |-> EmptyJson]

\* seen.quiet:  no handler wrote the chain since this command began
\* seen.stable: none wrote it since the search for a nonce ended
\* seen.broken: the command line appended to a chain that a handler was
\*              writing, and the chain was not cut back to genesis since
Calm == [quiet |-> TRUE, stable |-> TRUE, broken |-> FALSE]

\* What a handler's write to the chain does to the history: quiet and stable are
\* about the block being made, and TRUE when there is none.
Disturbed == IF cli.data = Null THEN seen
             ELSE [seen EXCEPT !.quiet = FALSE, !.stable = FALSE]

\* The chain of a new process: the genesis block alone for the first node, and
\* for a node that joins also the blocks of the document it fetched.  A null
\* among them is an exception outside any try: that process never starts.
StartChains ==
    {<<Genesis>>} \cup
    {[k \in 1 .. c.length |-> IF k = 1 THEN Genesis ELSE c.data[k]] :
        c \in {d \in Contents : /\ d.length \in 1 .. Len(d.data)
                                /\ \A k \in 2 .. d.length : d.data[k] # Null}}

\* The nodes a new process knows: those it was told to join, or none if it is
\* the first.
StartNodes(c) ==
    (UNION {[1 .. n -> Ports] : n \in 1 .. MaxNodes})
        \cup {s \in {<<>>} : c = <<Genesis>>}

NodeInit ==
    /\ chain \in StartChains
    /\ nodes \in StartNodes(chain)
    /\ cli = CliIdle
    /\ srv = SrvIdle
    /\ seen = Calm

\* Control-c, the end of the command loop, or a data race gone wrong: all
\* state is in memory, and the next process starts from nothing.
NodeRestart ==
    /\ chain' \in StartChains
    /\ nodes' \in StartNodes(chain')
    /\ cli' = CliIdle
    /\ srv' = SrvIdle
    /\ seen' = Calm

-----------------------------------------------------------------------------
(* The command line: option 2, add a block. *)

\* The locals of the command line before and after a block is made.
Fresh == [CliIdle EXCEPT !.round = cli.round]

\* The user enters a message; getNumOfBlocks() is never 0 here.
CliBegin(d, next) ==
    /\ cli.pc = "menu"
    /\ cli.round < MaxRounds
    /\ cli' = [cli EXCEPT !.pc = next, !.round = @ + 1, !.data = d, !.todo = Reads]
    /\ UNCHANGED <<chain, nodes, srv, seen>>

\* Mutant: the index of the last block, not of the next.
CliReadNumLast ==
    /\ cli.pc \in {"header", "args"} /\ "num" \in cli.todo
    /\ cli' = [cli EXCEPT !.num = Len(chain) - 1, !.todo = @ \ {"num"}]
    /\ UNCHANGED <<chain, nodes, srv, seen>>

\* bc.getNumOfBlocks(), for the header and again for addBlock.
CliReadNum ==
    /\ cli.pc \in {"header", "args"} /\ "num" \in cli.todo
    /\ cli' = [cli EXCEPT !.num = Len(chain), !.todo = @ \ {"num"}]
    /\ UNCHANGED <<chain, nodes, srv, seen>>

\* bc.getLatestBlockHash(), for the header and again for addBlock.
CliReadPrev ==
    /\ cli.pc \in {"header", "args"} /\ "prev" \in cli.todo
    /\ cli' = [cli EXCEPT !.prev = chain[Len(chain)].hash, !.todo = @ \ {"prev"}]
    /\ UNCHANGED <<chain, nodes, srv, seen>>

\* The search returned this hash and nonce; addBlock's arguments come next.
CliMined(hash, nonce) ==
    /\ cli' = [Fresh EXCEPT !.pc = "args", !.data = cli.data, !.todo = Reads,
                              !.hash = hash, !.nonce = nonce]
    /\ seen' = [seen EXCEPT !.stable = TRUE]
    /\ UNCHANGED <<chain, nodes, srv>>

\* The block the arguments of addBlock describe.
Mined == NewBlock(cli.num, cli.prev, cli.hash, cli.nonce, cli.data)

\* addBlock up to its push_back; its result is ignored.
CliCheck(next) ==
    /\ cli.pc = "args" /\ cli.todo = {}
    /\ cli' = IF Acceptable(Mined) /\ cli.num = Len(chain)
              THEN [cli EXCEPT !.pc = "push"]
              ELSE [Fresh EXCEPT !.pc = next]
    /\ seen' = IF Acceptable(Mined) /\ cli.num = Len(chain) THEN seen
               ELSE [Calm EXCEPT !.broken = seen.broken]
    /\ UNCHANGED <<chain, nodes, srv>>

\* A handler is between emptying the chain and filling it again.
Refilling == srv.pc \in {"add", "push"}

CliPush(next) ==
    /\ cli.pc = "push"
    /\ chain' = Append(chain, Mined)
    /\ cli' = [Fresh EXCEPT !.pc = next]
    /\ seen' = [Calm EXCEPT !.broken = seen.broken \/ Refilling \/ ~seen.stable]
    /\ UNCHANGED <<nodes, srv>>

\* toJSON for sendNewChain: the length first, then the blocks one by one.
CliLength ==
    /\ cli.pc = "length"
    /\ cli' = [cli EXCEPT !.pc = "entries", !.i = 0,
                          !.json = [EmptyJson EXCEPT !.length = Len(chain)]]
    /\ UNCHANGED <<chain, nodes, srv, seen>>

\* Mutant: the loop does not advance.
CliEntryStuck ==
    /\ cli.pc = "entries" /\ cli.i < Len(chain)
    /\ cli' = [cli EXCEPT !.json = PutEntry(@, chain[cli.i + 1])]
    /\ UNCHANGED <<chain, nodes, srv, seen>>

CliEntry ==
    /\ cli.pc = "entries" /\ cli.i < Len(chain)
    /\ cli' = [cli EXCEPT !.json = PutEntry(@, chain[cli.i + 1]), !.i = @ + 1]
    /\ UNCHANGED <<chain, nodes, srv, seen>>

CliDump ==
    /\ cli.pc = "entries" /\ cli.i >= Len(chain)
    /\ cli' = [cli EXCEPT !.pc = "send", !.i = 0]
    /\ UNCHANGED <<chain, nodes, srv, seen>>

\* sendNewChain: one POST after the other; a peer that fails is skipped.
CliPost ==
    /\ cli.pc = "send" /\ cli.i < Len(nodes)
    /\ cli' = [cli EXCEPT !.i = @ + 1]
    /\ UNCHANGED <<chain, nodes, srv, seen>>

\* Back to the menu; the locals of the command are gone.
CliMenu ==
    /\ cli' = [Fresh EXCEPT !.pc = "menu"]
    /\ UNCHANGED <<chain, nodes, srv, seen>>

CliSent ==
    /\ cli.pc = "send" /\ cli.i >= Len(nodes)
    /\ CliMenu

CliShared ==
    \/ CliReadNum \/ CliReadPrev \/ CliLength \/ CliEntry \/ CliDump \/ CliPost \/ CliSent

-----------------------------------------------------------------------------
(* The server thread. *)

\* POST /addnode
SrvAddNode(p) ==
    /\ srv.pc = "idle" /\ Len(nodes) < MaxNodes
    /\ nodes' = Append(nodes, p)
    /\ UNCHANGED <<chain, cli, srv, seen>>

\* Mutant: the loop of toJSON starts at 1, as those of replaceChain do.
SrvLatestTail ==
    /\ srv.pc = "idle"
    /\ srv' = [srv EXCEPT !.pc = "entries", !.i = 1,
                          !.json = [EmptyJson EXCEPT !.length = Len(chain)]]
    /\ UNCHANGED <<chain, nodes, cli, seen>>

\* GET /latestchain: toJSON, and the reply.
SrvLatest ==
    /\ srv.pc = "idle"
    /\ srv' = [srv EXCEPT !.pc = "entries", !.i = 0,
                          !.json = [EmptyJson EXCEPT !.length = Len(chain)]]
    /\ UNCHANGED <<chain, nodes, cli, seen>>

SrvEntry ==
    /\ srv.pc = "entries" /\ srv.i < Len(chain)
    /\ srv' = [srv EXCEPT !.json = PutEntry(@, chain[srv.i + 1]), !.i = @ + 1]
    /\ UNCHANGED <<chain, nodes, cli, seen>>

SrvDump ==
    /\ srv.pc = "entries" /\ srv.i >= Len(chain)
    /\ srv' = [srv EXCEPT !.pc = "reply", !.i = 0]
    /\ UNCHANGED <<chain, nodes, cli, seen>>

SrvReply ==
    /\ srv.pc = "reply"
    /\ srv' = SrvIdle
    /\ UNCHANGED <<chain, nodes, cli, seen>>

\* POST /newchain, when the document claims to be longer; otherwise the
\* handler leaves everything as it is.
SrvNewChain ==
    /\ srv.pc = "idle"
    /\ \E c \in Contents :
          /\ c.length > Len(chain)
          /\ srv' = [srv EXCEPT !.pc = "pop", !.content = c]
    /\ UNCHANGED <<chain, nodes, cli, seen>>

\* Mutant: pop_back without regard to the genesis block.
SrvPopAll ==
    /\ srv.pc = "pop" /\ Len(chain) > 0
    /\ chain' = SubSeq(chain, 1, Len(chain) - 1)
    /\ seen' = [Disturbed EXCEPT !.broken = @ /\ Len(chain) > 2]
    /\ UNCHANGED <<nodes, cli, srv>>

\* replaceChain: drop every block but the first ...
SrvPop ==
    /\ srv.pc = "pop" /\ Len(chain) > 1
    /\ chain' = SubSeq(chain, 1, Len(chain) - 1)
    /\ seen' = [Disturbed EXCEPT !.broken = @ /\ Len(chain) > 2]
    /\ UNCHANGED <<nodes, cli, srv>>

\* Mutant: one block too many is left.
SrvPoppedEarly ==
    /\ srv.pc = "pop" /\ Len(chain) <= 2
    /\ srv' = [srv EXCEPT !.pc = "add", !.i = 1]
    /\ UNCHANGED <<chain, nodes, cli, seen>>

SrvPopped ==
    /\ srv.pc = "pop" /\ Len(chain) <= 1
    /\ srv' = [srv EXCEPT !.pc = "add", !.i = 1]
    /\ UNCHANGED <<chain, nodes, cli, seen>>

\* Mutant: a block that is refused is offered again.
SrvOfferAgain ==
    /\ srv.pc = "add" /\ srv.i < srv.content.length
    /\ LET b == Entry(srv.content, srv.i)
       IN  /\ b # Null
           /\ Acceptable(b) /\ b.index = Len(chain)
           /\ srv' = [srv EXCEPT !.pc = "push"]
    /\ UNCHANGED <<chain, nodes, cli, seen>>

\* ... then offer the blocks of the document to addBlock, in order.
SrvOffer ==
    /\ srv.pc = "add" /\ srv.i < srv.content.length
    /\ LET b == Entry(srv.content, srv.i)
       IN  /\ b # Null
           /\ srv' = IF Acceptable(b) /\ b.index = Len(chain)
                     THEN [srv EXCEPT !.pc = "push"]
                     ELSE [srv EXCEPT !.i = @ + 1]
    /\ UNCHANGED <<chain, nodes, cli, seen>>

\* A null entry: block["data"] throws, the handler answers 400, and the chain
\* stays as far as it was filled.
SrvThrow ==
    /\ srv.pc = "add" /\ srv.i < srv.content.length
    /\ Entry(srv.content, srv.i) = Null
    /\ srv' = SrvIdle
    /\ UNCHANGED <<chain, nodes, cli, seen>>

SrvPush ==
    /\ srv.pc = "push"
    /\ chain' = Append(chain, Entry(srv.content, srv.i))
    /\ srv' = [srv EXCEPT !.pc = "add", !.i = @ + 1]
    /\ seen' = Disturbed
    /\ UNCHANGED <<nodes, cli>>

\* Mutant: the loop of replaceChain ends one block early.
SrvFilledShort ==
    /\ srv.pc = "add" /\ srv.i + 1 >= srv.content.length
    /\ srv' = [srv EXCEPT !.pc = "replaced", !.i = 0]
    /\ UNCHANGED <<chain, nodes, cli, seen>>

SrvFilled ==
    /\ srv.pc = "add" /\ srv.i >= srv.content.length
    /\ srv' = [srv EXCEPT !.pc = "replaced", !.i = 0]
    /\ UNCHANGED <<chain, nodes, cli, seen>>

\* "Replaced Chain"
SrvReplaced ==
    /\ srv.pc = "replaced"
    /\ srv' = SrvIdle
    /\ UNCHANGED <<chain, nodes, cli, seen>>

SrvRequest ==
    \/ \E p \in Ports : SrvAddNode(p)
    \/ SrvNewChain
    \/ SrvLatest

SrvShared ==
    \/ SrvEntry \/ SrvDump \/ SrvReply
    \/ SrvPop \/ SrvPopped \/ SrvOffer \/ SrvThrow \/ SrvPush \/ SrvFilled

-----------------------------------------------------------------------------
\* The command line's push_back overlaps a push_back or a pop_back of the
\* server: both start from the same end pointer, and the second to store it
\* undoes the first.
Collide(next) ==
    /\ cli.pc = "push"
    /\ cli' = [Fresh EXCEPT !.pc = next]
    /\ \/ /\ srv.pc = "push"
          /\ \E b \in {Mined, Entry(srv.content, srv.i)} : chain' = Append(chain, b)
          /\ srv' = [srv EXCEPT !.pc = "add", !.i = @ + 1]
          /\ seen' = [Calm EXCEPT !.broken = TRUE]
       \/ /\ srv.pc = "pop" /\ Len(chain) > 1
          /\ chain' = SubSeq(chain, 1, Len(chain) - 1)
          /\ seen' = [Calm EXCEPT !.broken = seen.broken /\ Len(chain) > 2]
          /\ UNCHANGED srv
    /\ UNCHANGED nodes

-----------------------------------------------------------------------------
CliPcs == {"menu", "header", "args", "push", "verify", "length", "entries", "send"}
SrvPcs == {"idle", "pop", "add", "push", "replaced", "entries", "reply"}

\* The places where the command line has no block in the making; "copy" is one
\* of the CUDA node.
NoBlock == {"menu", "verify", "copy", "length", "entries", "send"}

CliLocals(pcs) ==
    [pc : pcs, round : Nat, data : Data \cup {Null}, todo : SUBSET Reads, num : Nat,
     prev : Hash, hash : Hash, nonce : Nonces, i : Nat, json : Json]
SrvLocals ==
    [pc : SrvPcs, content : Contents \cup {EmptyJson}, i : Nat, json : Json]

\* Every variable holds what its C++ counterpart can hold.
NodeTypeOK(pcs) ==
    /\ chain \in Seq(Block) /\ Len(chain) >= 1
    /\ nodes \in Seq(Ports)
    /\ cli \in CliLocals(pcs)
    /\ cli.pc \notin NoBlock => cli.data \in Data
    /\ srv \in SrvLocals
    /\ seen \in [quiet : BOOLEAN, stable : BOOLEAN, broken : BOOLEAN]

-----------------------------------------------------------------------------
\* No block but the first is stored without the hash of its own header, with
\* six zeros, and the right to claim it: addBlock is the only way in, on
\* whichever thread, and what a race does to the vector, it never stores a
\* block that was not mined.
BlocksMined ==
    \A k \in 2 .. Len(chain) :
        LET b == chain[k]
        IN  b.hash = Sha256(b.index, b.previousHash, b.data, b.nonce) /\ MeetsTarget(b.hash)

\* Whatever the threads do to the chain while toJSON walks it, the document
\* that comes out is one the nodes are assumed to receive (NodeAssumption).
EmitsWellFormed == WellFormed(cli.json) /\ WellFormed(srv.json)

\* The arguments of addBlock are read again after the search.  If no handler
\* wrote the chain since the command began, they are what the search was given,
\* whatever the order of the reads, and the block fits on the end of the chain.
QuietAppend ==
    cli.pc = "args" /\ cli.todo = {} /\ seen.quiet /\ cli.hash # NoHash =>
        /\ Acceptable(Mined)
        /\ cli.num = Len(chain)
        /\ cli.prev = chain[Len(chain)].hash

\* When all a node receives are documents of linked chains, whole or torn, the
\* chain it holds is linked at every step, in the middle of a replacement too,
\* unless its own command line appended to it while a handler was writing it.
CorruptionNeedsRace ==
    (\A c \in Contents : LinkedJson(c)) /\ ~seen.broken => Linked(chain)

\* A replacement that runs to its end has installed every block of the document
\* it was sent, unless the command line appended in the middle of it.
InstalledWhole ==
    srv.pc = "replaced" /\ ~seen.broken =>
        /\ Len(chain) >= srv.content.length
        /\ \A k \in 2 .. srv.content.length : chain[k] = srv.content.data[k]

\* GET /latestchain answers with a block for each index below the length it
\* names: the command line can only append meanwhile.
LatestComplete ==
    srv.pc = "reply" /\ ~seen.broken =>
        \A a \in 0 .. srv.json.length - 1 : Entry(srv.json, a) # Null

=============================================================================
