----------------------------- MODULE NodeProofs -----------------------------
(***************************************************************************)
(* The inductive invariant of the steps that both implementations share,   *)
(* and its preservation by each of them.  pcs is the set of places of the  *)
(* command line, which differs between the two.                            *)
(*                                                                         *)
(* In the second part, what holds of a chain that two threads write        *)
(* without a lock: when it is linked, and when a block that was mined fits *)
(* on its end.  Each part is kept by the steps both implementations share. *)
(***************************************************************************)
EXTENDS Node, ChainProofs

-----------------------------------------------------------------------------
(* The invariant: what the variables hold, and what each thread found out about *)
(* the block it is about to store.                                              *)

ChainInv ==
    /\ chain \in Seq(Block) /\ Len(chain) >= 1
    /\ chain[1] = Genesis

CliInv(pcs) ==
    /\ cli \in CliLocals(pcs)
    /\ cli.pc \notin NoBlock => cli.data \in Data
    /\ cli.pc = "push" => cli.todo = {}

SrvInv ==
    /\ srv \in SrvLocals
    /\ srv.pc \in {"pop", "add", "push", "replaced"} => srv.content \in Contents
    /\ Refilling => srv.i >= 1
    /\ srv.pc = "push" => Entry(srv.content, srv.i) # Null

NodeInv(pcs) ==
    /\ ChainInv
    /\ nodes \in Seq(Ports)
    /\ CliInv(pcs)
    /\ SrvInv
    /\ seen \in [quiet : BOOLEAN, stable : BOOLEAN, broken : BOOLEAN]

\* BlocksMined and EmitsWellFormed are not inductive alone: a block is checked in
\* one step and stored in a later one.
MinedInv ==
    /\ BlocksMined
    /\ EmitsWellFormed
    /\ cli.pc = "push" => Acceptable(Mined)

\* Where a command has a message but not yet a hash.
Before(pcs) == pcs \ (NoBlock \cup {"args", "push"})

\* The invariant is at least what the runs check.
LEMMA NodeInvImplies ==
    ASSUME NEW pcs, NodeInv(pcs)
    PROVE  NodeTypeOK(pcs)
BY DEF NodeInv, ChainInv, CliInv, SrvInv, NodeTypeOK

-----------------------------------------------------------------------------
(* The chain. *)

\* The test of addBlock is what BlocksMined says of a stored block.
LEMMA AcceptableMined ==
    ASSUME NEW b
    PROVE  Acceptable(b) <=> /\ b.hash = Sha256(b.index, b.previousHash, b.data, b.nonce)
                             /\ MeetsTarget(b.hash)
BY DEF Acceptable, HeaderMatches

\* What the invariant says of the blocks of the chain, one by one.
LEMMA ChainFacts ==
    ASSUME ChainInv
    PROVE  /\ Len(chain) \in Nat
           /\ \A k \in 1 .. Len(chain) : chain[k] \in Block
           /\ chain[Len(chain)].hash \in Hash
<1>1. Len(chain) \in Nat /\ Len(chain) >= 1
    BY LenProperties DEF ChainInv
<1>2. \A k \in 1 .. Len(chain) : chain[k] \in Block
    BY ElementOfSeq DEF ChainInv
<1>3. chain[Len(chain)] \in Block
    BY <1>1, <1>2
<1> QED
    BY <1>1, <1>2, <1>3 DEF Block

\* push_back.
LEMMA ChainPush ==
    ASSUME ChainInv, NEW b \in Block, chain' = Append(chain, b)
    PROVE  /\ ChainInv'
           /\ Len(chain') = Len(chain) + 1 /\ chain'[Len(chain) + 1] = b
           /\ \A k \in 1 .. Len(chain) : chain'[k] = chain[k]
<1>1. /\ chain' \in Seq(Block) /\ Len(chain') = Len(chain) + 1
      /\ \A k \in 1 .. Len(chain) : chain'[k] = chain[k]
      /\ chain'[Len(chain) + 1] = b
      /\ Len(chain) \in Nat
    BY AppendProperties, LenProperties DEF ChainInv
<1> QED
    BY <1>1 DEF ChainInv

\* pop_back of any block but the first.
LEMMA ChainPop ==
    ASSUME ChainInv, Len(chain) > 1, chain' = SubSeq(chain, 1, Len(chain) - 1)
    PROVE  /\ ChainInv'
           /\ Len(chain') = Len(chain) - 1
           /\ \A k \in 1 .. Len(chain') : chain'[k] = chain[k]
<1>1. /\ chain' \in Seq(Block) /\ Len(chain') = Len(chain) - 1
      /\ \A k \in 1 .. Len(chain') : chain'[k] = chain[k]
      /\ Len(chain) \in Nat
    BY FrontFacts, LenProperties DEF ChainInv
<1> QED
    BY <1>1 DEF ChainInv

\* A process starts with its genesis block, and blocks that were mined.
LEMMA StartFacts ==
    ASSUME NEW c \in StartChains
    PROVE  /\ c \in Seq(Block) /\ Len(c) >= 1 /\ c[1] = Genesis
           /\ \A k \in 2 .. Len(c) : Acceptable(c[k])
           /\ \A k \in 1 .. Len(c) : c[k].index = k - 1
           /\ (\A doc \in Contents : LinkedJson(doc)) => Linked(c)
<1>1. CASE c = <<Genesis>>
    <2>1. c \in Seq(Block) /\ Len(c) = 1 /\ c[1] = Genesis
        BY <1>1, GenesisFacts
    <2> QED
        BY <2>1, GenesisFacts DEF Linked
<1>2. CASE c # <<Genesis>>
    <2>1. PICK d \in Contents :
              /\ d.length \in 1 .. Len(d.data)
              /\ \A k \in 2 .. d.length : d.data[k] # Null
              /\ c = [k \in 1 .. d.length |-> IF k = 1 THEN Genesis ELSE d.data[k]]
        BY <1>2 DEF StartChains
    <2>2. WellFormed(d) /\ d.data \in Seq(Block \cup {Null}) /\ Len(d.data) \in Nat
          /\ d.length \in Nat /\ d.length >= 1
        BY <2>1, NodeAssumption, LenProperties DEF WellFormed, Json
    <2>3. \A k \in 2 .. d.length : k \in 1 .. Len(d.data) /\ d.data[k] \in Block
                                   /\ Acceptable(d.data[k]) /\ d.data[k].index = k - 1
        BY <2>1, <2>2, ElementOfSeq DEF WellFormed
    <2>4. c \in [1 .. d.length -> Block]
        BY <2>1, <2>3, GenesisFacts
    <2>5. c \in Seq(Block) /\ Len(c) = d.length
        BY <2>2, <2>4, FunctionIsSeq
    <2>6. c[1] = Genesis /\ \A k \in 2 .. Len(c) : /\ c[k] = d.data[k] /\ Acceptable(c[k])
                                                  /\ c[k].index = k - 1
        BY <2>1, <2>2, <2>3, <2>5
    <2>7. ASSUME LinkedJson(d), NEW k \in 1 .. Len(c) - 1
          PROVE  c[k + 1].previousHash = c[k].hash
        <3>1. k + 1 \in 2 .. Len(c) /\ k \in 1 .. Len(d.data) - 1
            BY <2>1, <2>2, <2>5
        <3>2. c[k + 1] = d.data[k + 1] /\ c[k + 1] # Null
            BY <2>1, <2>5, <2>6, <3>1
        <3>3. c[k] = d.data[k] /\ c[k] # Null
            <4>1. CASE k = 1
                BY <2>6, <2>7, <4>1, GenesisFacts, ChainAssumption DEF LinkedJson
            <4>2. CASE k # 1
                BY <2>1, <2>2, <2>5, <2>6, <3>1, <4>2
            <4> QED
                BY <4>1, <4>2
        <3> QED
            BY <2>7, <3>1, <3>2, <3>3 DEF LinkedJson
    <2>8. \A k \in 1 .. Len(c) : c[k].index = k - 1
        BY <2>2, <2>5, <2>6, GenesisFacts
    <2> QED
        BY <2>2, <2>5, <2>6, <2>7, <2>8 DEF Linked
<1> QED
    BY <1>1, <1>2

\* A process knows a list of ports.
LEMMA StartNodesFacts ==
    ASSUME NEW c, NEW s \in StartNodes(c)
    PROVE  s \in Seq(Ports)
<1>1. CASE \E n \in 1 .. MaxNodes : s \in [1 .. n -> Ports]
    <2>1. PICK n \in Nat : s \in [1 .. n -> Ports]
        BY <1>1, NodeAssumption
    <2> QED
        BY <2>1, FunctionIsSeq
<1>2. CASE s = <<>>
    BY <1>2, EmptySeq
<1>3. s \in UNION {[1 .. n -> Ports] : n \in 1 .. MaxNodes} \/ s = <<>>
    BY Zenon DEF StartNodes
<1>4. s \in UNION {[1 .. n -> Ports] : n \in 1 .. MaxNodes} =>
          \E n \in 1 .. MaxNodes : s \in [1 .. n -> Ports]
    BY Zenon
<1> QED
    BY <1>1, <1>2, <1>3, <1>4

\* The state a process starts in satisfies the invariant.
LEMMA StartInv ==
    ASSUME NEW pcs, CliPcs \subseteq pcs, NodeInit
    PROVE  NodeInv(pcs)
<1>1. ChainInv
    BY StartFacts DEF NodeInit, ChainInv
<1>2. nodes \in Seq(Ports)
    BY StartNodesFacts DEF NodeInit
<1>3. EmptyJson \in Json
    BY EmptyDocument DEF WellFormed
<1>4. NoHash \in Hash /\ NoNonce \in Nonces
    BY EmptySeq DEF NoHash, Hash, Nonces
<1>5. CliInv(pcs)
    BY <1>3, <1>4 DEF NodeInit, CliInv, CliLocals, CliIdle, NoBlock, CliPcs
<1>6. SrvInv
    BY <1>3 DEF NodeInit, SrvInv, SrvLocals, SrvIdle, SrvPcs, Refilling
<1> QED
    BY <1>1, <1>2, <1>5, <1>6 DEF NodeInv, NodeInit, Calm

\* So does the one a process is restarted in.
LEMMA RestartInv ==
    ASSUME NEW pcs, CliPcs \subseteq pcs, NodeRestart
    PROVE  NodeInv(pcs)'
<1>1. ChainInv'
    BY StartFacts DEF NodeRestart, ChainInv
<1>2. nodes' \in Seq(Ports)
    BY StartNodesFacts DEF NodeRestart
<1>3. EmptyJson \in Json
    BY EmptyDocument DEF WellFormed
<1>4. NoHash \in Hash /\ NoNonce \in Nonces
    BY EmptySeq DEF NoHash, Hash, Nonces
<1>5. CliInv(pcs)'
    BY <1>3, <1>4 DEF NodeRestart, CliInv, CliLocals, CliIdle, NoBlock, CliPcs
<1>6. SrvInv'
    BY <1>3 DEF NodeRestart, SrvInv, SrvLocals, SrvIdle, SrvPcs, Refilling
<1> QED
    BY <1>1, <1>2, <1>5, <1>6 DEF NodeInv, NodeRestart, Calm

-----------------------------------------------------------------------------
(* The command line. *)

\* What a step of one thread leaves alone, it leaves invariant.
LEMMA OtherThread ==
    ASSUME NEW pcs, NodeInv(pcs)
    PROVE  /\ UNCHANGED chain => ChainInv'
           /\ UNCHANGED nodes => nodes' \in Seq(Ports)
           /\ UNCHANGED cli => CliInv(pcs)'
           /\ UNCHANGED srv => SrvInv'
           /\ UNCHANGED seen => seen' \in [quiet : BOOLEAN, stable : BOOLEAN, broken : BOOLEAN]
BY DEF NodeInv, ChainInv, CliInv, SrvInv, Refilling

\* Locals that are gone leave nothing to prove.
LEMMA FreshLocals ==
    ASSUME NEW pcs, NodeInv(pcs), NEW pc \in NoBlock \cap pcs, cli' = [Fresh EXCEPT !.pc = pc]
    PROVE  CliInv(pcs)'
<1>1. EmptyJson \in Json
    BY EmptyDocument DEF WellFormed
<1>2. NoHash \in Hash /\ NoNonce \in Nonces
    BY EmptySeq DEF NoHash, Hash, Nonces
<1>3. cli.round \in Nat
    BY DEF NodeInv, CliInv, CliLocals
<1>4. cli' \in CliLocals(pcs) /\ cli'.pc = pc
    BY <1>1, <1>2, <1>3 DEF CliLocals, Fresh, CliIdle
<1> QED
    BY <1>1, <1>4 DEF CliInv, NoBlock

\* Option 2 is chosen and a message entered.
LEMMA BeginInv ==
    ASSUME NEW pcs, NodeInv(pcs), NEW d \in Data, NEW next \in Before(pcs), CliBegin(d, next)
    PROVE  NodeInv(pcs)'
<1>1. cli' \in CliLocals(pcs) /\ cli'.pc = next /\ cli'.data = d
    <2>1. cli \in CliLocals(pcs) /\ next \in pcs
        BY DEF NodeInv, CliInv, Before
    <2>2. cli.round + 1 \in Nat /\ Reads \in SUBSET Reads
        BY <2>1 DEF CliLocals
    <2> QED
        BY <2>1, <2>2 DEF CliBegin, CliLocals
<1>2. CliInv(pcs)'
    BY <1>1 DEF CliInv, Before, NodeInv
<1> QED
    BY <1>2, OtherThread DEF CliBegin, NodeInv

\* The steps that read the chain for a header or an argument list.
LEMMA ReadsInv ==
    ASSUME NEW pcs, NodeInv(pcs), CliReadNum \/ CliReadPrev
    PROVE  NodeInv(pcs)'
<1>1. Len(chain) \in Nat /\ chain[Len(chain)].hash \in Hash
    BY ChainFacts DEF NodeInv
<1>2. /\ cli' \in CliLocals(pcs)
      /\ cli'.pc = cli.pc /\ cli'.data = cli.data
      /\ cli.pc \in {"header", "args"}
    <2>1. CASE CliReadNum
        BY <1>1, <2>1 DEF CliReadNum, CliLocals, NodeInv, CliInv
    <2>2. CASE CliReadPrev
        BY <1>1, <2>2 DEF CliReadPrev, CliLocals, NodeInv, CliInv
    <2> QED
        BY <2>1, <2>2
<1>3. CliInv(pcs)'
    BY <1>2 DEF CliInv, NodeInv
<1> QED
    BY <1>3, OtherThread DEF CliReadNum, CliReadPrev, NodeInv

\* A search is over.
LEMMA SearchInv ==
    ASSUME NEW pcs, CliPcs \subseteq pcs, NodeInv(pcs), cli.pc \notin NoBlock,
           NEW h \in Hash, NEW n \in Nonces, CliMined(h, n)
    PROVE  NodeInv(pcs)'
<1>1. EmptyJson \in Json
    BY EmptyDocument DEF WellFormed
<1>2. NoHash \in Hash
    BY EmptySeq DEF NoHash, Hash
<1>3. cli.round \in Nat /\ cli.data \in Data
    BY DEF NodeInv, CliInv, CliLocals
<1>4. /\ cli' \in CliLocals(pcs)
      /\ cli'.pc = "args" /\ cli'.data \in Data
    BY <1>1, <1>2, <1>3 DEF CliMined, CliLocals, Fresh, CliIdle, CliPcs
<1>5. CliInv(pcs)'
    BY <1>1, <1>4 DEF CliInv
<1> QED
    BY <1>5, OtherThread DEF CliMined, NodeInv

\* addBlock's test, on the main thread.
LEMMA CheckInv ==
    ASSUME NEW pcs, CliPcs \subseteq pcs, NodeInv(pcs), CliCheck("verify")
    PROVE  NodeInv(pcs)'
<1>1. CliInv(pcs)'
    <2>1. CASE Acceptable(Mined) /\ cli.num = Len(chain)
        <3>1. /\ cli' \in CliLocals(pcs)
              /\ cli'.pc = "push" /\ cli'.data = cli.data
              /\ cli'.todo = {} /\ cli.data \in Data
            BY <2>1 DEF CliCheck, CliLocals, NodeInv, CliInv, CliPcs, NoBlock
        <3> QED
            BY <3>1 DEF CliInv
    <2>2. CASE ~(Acceptable(Mined) /\ cli.num = Len(chain))
        BY <2>2, FreshLocals DEF CliCheck, NoBlock, CliPcs
    <2> QED
        BY <2>1, <2>2
<1>2. seen' \in [quiet : BOOLEAN, stable : BOOLEAN, broken : BOOLEAN]
    BY DEF CliCheck, Calm, NodeInv
<1> QED
    BY <1>1, <1>2, OtherThread DEF CliCheck, NodeInv

\* What the main thread is about to push is a block.
LEMMA MinedFacts ==
    ASSUME NEW pcs, NodeInv(pcs), cli.pc = "push"
    PROVE  Mined \in Block
BY DEF NodeInv, CliInv, CliLocals, Mined, NewBlock, Block, Payload, NoBlock

\* addBlock's push_back, on the main thread.
LEMMA PushInv ==
    ASSUME NEW pcs, CliPcs \subseteq pcs, NodeInv(pcs), CliPush("verify")
    PROVE  NodeInv(pcs)'
<1>1. ChainInv'
    BY MinedFacts, ChainPush DEF CliPush, NodeInv
<1>2. CliInv(pcs)'
    BY FreshLocals DEF CliPush, NoBlock, CliPcs
<1>3. seen' \in [quiet : BOOLEAN, stable : BOOLEAN, broken : BOOLEAN]
    BY DEF CliPush, Calm, NodeInv, Refilling
<1> QED
    BY <1>1, <1>2, <1>3, OtherThread DEF CliPush, NodeInv

\* A block of the chain may be written into a document.
LEMMA EntryInv ==
    ASSUME NEW pcs, NodeInv(pcs), NEW i \in Nat, i < Len(chain), NEW json \in Json
    PROVE  chain[i + 1] \in Block /\ PutEntry(json, chain[i + 1]) \in Json
<1>1. i + 1 \in 1 .. Len(chain)
    BY ChainFacts DEF NodeInv
<1> QED
    BY <1>1, ChainFacts, PutEntryFacts DEF NodeInv

\* toJSON and sendNewChain.
LEMMA SendInv ==
    ASSUME NEW pcs, CliPcs \subseteq pcs, NodeInv(pcs),
           CliLength \/ CliEntry \/ CliDump \/ CliPost
    PROVE  NodeInv(pcs)'
<1>1. cli' \in CliLocals(pcs) /\ cli'.pc \in NoBlock
    <2>1. CASE CliLength
        <3>1. Len(chain) \in Nat
            BY ChainFacts DEF NodeInv
        <3>2. [EmptyJson EXCEPT !.length = Len(chain)] \in Json
            BY <3>1, EmptyDocument DEF WellFormed
        <3> QED
            BY <2>1, <3>2 DEF CliLength, CliLocals, NodeInv, CliInv, NoBlock, CliPcs
    <2>2. CASE CliEntry
        <3>1. cli.i \in Nat /\ cli.json \in Json
            BY DEF NodeInv, CliInv, CliLocals
        <3>2. PutEntry(cli.json, chain[cli.i + 1]) \in Json
            BY <2>2, <3>1, EntryInv DEF CliEntry
        <3>3. cli \in CliLocals(pcs) /\ cli.i + 1 \in Nat
            BY <3>1 DEF NodeInv, CliInv
        <3>4. cli' \in CliLocals(pcs)
            BY <2>2, <3>2, <3>3 DEF CliEntry, CliLocals
        <3>5. cli'.pc = cli.pc
            BY <2>2, <3>3 DEF CliEntry, CliLocals
        <3> QED
            BY <2>2, <3>4, <3>5 DEF CliEntry, NoBlock
    <2>3. CASE CliDump
        <3>1. cli \in CliLocals(pcs) /\ "send" \in pcs
            BY DEF NodeInv, CliInv, CliPcs
        <3> QED
            BY <2>3, <3>1 DEF CliDump, CliLocals, NoBlock
    <2>4. CASE CliPost
        <3>1. cli \in CliLocals(pcs) /\ cli.i \in Nat
            BY DEF NodeInv, CliInv, CliLocals
        <3> QED
            BY <2>4, <3>1 DEF CliPost, CliLocals, NoBlock
    <2> QED
        BY <2>1, <2>2, <2>3, <2>4
<1>2. CliInv(pcs)'
    BY <1>1 DEF CliInv, NoBlock
<1> QED
    BY <1>2, OtherThread DEF CliLength, CliEntry, CliDump, CliPost, NodeInv

\* The command is over.
LEMMA MenuInv ==
    ASSUME NEW pcs, CliPcs \subseteq pcs, NodeInv(pcs), CliMenu
    PROVE  NodeInv(pcs)'
<1>1. CliInv(pcs)'
    BY FreshLocals DEF CliMenu, NoBlock, CliPcs
<1> QED
    BY <1>1, OtherThread DEF CliMenu, NodeInv

-----------------------------------------------------------------------------
(* The server thread. *)

\* Requests that do not write the chain, and /newchain up to its length test.
LEMMA RequestInv ==
    ASSUME NEW pcs, NodeInv(pcs), SrvRequest
    PROVE  NodeInv(pcs)'
<1>1. ASSUME NEW p \in Ports, SrvAddNode(p)
      PROVE  NodeInv(pcs)'
    <2>1. nodes' \in Seq(Ports)
        BY <1>1, AppendProperties DEF SrvAddNode, NodeInv
    <2> QED
        BY <1>1, <2>1, OtherThread DEF SrvAddNode, NodeInv
<1>2. CASE SrvNewChain
    <2>1. srv' \in SrvLocals /\ srv'.pc = "pop" /\ srv'.content \in Contents
        BY <1>2 DEF SrvNewChain, SrvLocals, NodeInv, SrvInv, SrvPcs
    <2>2. SrvInv'
        BY <2>1 DEF SrvInv, Refilling
    <2> QED
        BY <1>2, <2>2, OtherThread DEF SrvNewChain, NodeInv
<1>3. CASE SrvLatest
    <2>1. Len(chain) \in Nat
        BY ChainFacts DEF NodeInv
    <2>2. [EmptyJson EXCEPT !.length = Len(chain)] \in Json
        BY <2>1, EmptyDocument DEF WellFormed
    <2>3. srv' \in SrvLocals /\ srv'.pc = "entries"
        BY <1>3, <2>2 DEF SrvLatest, SrvLocals, NodeInv, SrvInv, SrvPcs
    <2>4. SrvInv'
        BY <2>3 DEF SrvInv, Refilling
    <2> QED
        BY <1>3, <2>4, OtherThread DEF SrvLatest, NodeInv
<1> QED
    BY <1>1, <1>2, <1>3 DEF SrvRequest

\* The rest of GET /latestchain.
LEMMA LatestReply ==
    ASSUME NEW pcs, NodeInv(pcs), SrvEntry \/ SrvDump
    PROVE  NodeInv(pcs)'
<1>1. srv \in SrvLocals /\ srv.json \in Json /\ srv.i \in Nat
    BY DEF NodeInv, SrvInv, SrvLocals
<1>2. srv' \in SrvLocals /\ srv'.pc \in {"entries", "reply"}
    <2>1. CASE SrvEntry
        <3>1. PutEntry(srv.json, chain[srv.i + 1]) \in Json
            BY <1>1, <2>1, EntryInv DEF SrvEntry
        <3>2. srv.i + 1 \in Nat
            BY <1>1
        <3>3. srv' \in SrvLocals
            BY <1>1, <2>1, <3>1, <3>2 DEF SrvEntry, SrvLocals
        <3>4. srv'.pc = srv.pc
            BY <1>1, <2>1 DEF SrvEntry, SrvLocals
        <3> QED
            BY <2>1, <3>3, <3>4 DEF SrvEntry
    <2>2. CASE SrvDump
        BY <1>1, <2>2 DEF SrvDump, SrvLocals, SrvPcs
    <2> QED
        BY <2>1, <2>2
<1>3. SrvInv'
    BY <1>2 DEF SrvInv, Refilling
<1> QED
    BY <1>3, OtherThread DEF SrvEntry, SrvDump, NodeInv

\* A handler returns or throws.
LEMMA AnsweredInv ==
    ASSUME NEW pcs, NodeInv(pcs), SrvReply \/ SrvThrow \/ SrvReplaced
    PROVE  NodeInv(pcs)'
<1>1. EmptyJson \in Json
    BY EmptyDocument DEF WellFormed
<1>2. srv' = SrvIdle
    BY DEF SrvReply, SrvThrow, SrvReplaced
<1>3. SrvInv'
    BY <1>1, <1>2 DEF SrvInv, SrvLocals, SrvIdle, SrvPcs, Refilling
<1> QED
    BY <1>3, OtherThread DEF SrvReply, SrvThrow, SrvReplaced, NodeInv

\* What a handler has found acceptable is a block of the document.
LEMMA OfferFacts ==
    ASSUME NEW pcs, NodeInv(pcs), Refilling, Entry(srv.content, srv.i) # Null
    PROVE  LET b == Entry(srv.content, srv.i)
           IN  /\ b \in Block /\ b.index = srv.i /\ Acceptable(b)
               /\ srv.i < Len(srv.content.data) /\ b = srv.content.data[srv.i + 1]
<1>1. srv.content \in Contents /\ srv.i \in Nat /\ srv.i > 0
    BY DEF NodeInv, SrvInv, SrvLocals, Refilling
<1>2. WellFormed(srv.content)
    BY <1>1, NodeAssumption
<1> QED
    BY <1>1, <1>2, EntryFacts

\* The steps of replaceChain that leave the chain as it is.
LEMMA ReplaceInv ==
    ASSUME NEW pcs, NodeInv(pcs), SrvPopped \/ SrvOffer \/ SrvFilled
    PROVE  NodeInv(pcs)'
<1>1. /\ srv \in SrvLocals /\ srv.i \in Nat
      /\ srv.content \in Contents /\ srv.pc \in {"pop", "add"}
    BY DEF NodeInv, SrvInv, SrvLocals, SrvPopped, SrvOffer, SrvFilled
<1>2. CASE SrvPopped
    <2>1. srv' \in SrvLocals /\ srv' = [srv EXCEPT !.pc = "add", !.i = 1]
        BY <1>1, <1>2 DEF SrvPopped, SrvLocals, SrvPcs
    <2>2. SrvInv'
        BY <1>1, <2>1 DEF SrvInv, SrvLocals, Refilling
    <2> QED
        BY <1>2, <2>2, OtherThread DEF SrvPopped, NodeInv
<1>3. CASE SrvFilled
    <2>1. srv' \in SrvLocals /\ srv' = [srv EXCEPT !.pc = "replaced", !.i = 0]
        BY <1>1, <1>3 DEF SrvFilled, SrvLocals, SrvPcs
    <2>2. SrvInv'
        BY <1>1, <2>1 DEF SrvInv, SrvLocals, Refilling
    <2> QED
        BY <1>3, <2>2, OtherThread DEF SrvFilled, NodeInv
<1>4. CASE SrvOffer
    <2>1. srv.i >= 1 /\ Entry(srv.content, srv.i) # Null
        BY <1>4 DEF SrvOffer, NodeInv, SrvInv, Refilling
    <2>2. CASE srv' = [srv EXCEPT !.pc = "push"]
        <3>1. srv' \in SrvLocals /\ srv'.pc = "push" /\ srv'.i = srv.i
              /\ srv'.content = srv.content
            BY <1>1, <2>2 DEF SrvLocals, SrvPcs
        <3>2. SrvInv'
            BY <1>1, <2>1, <3>1 DEF SrvInv, Refilling, Entry
        <3> QED
            BY <1>4, <3>2, OtherThread DEF SrvOffer, NodeInv
    <2>3. CASE srv' = [srv EXCEPT !.i = @ + 1]
        <3>1. srv' \in SrvLocals /\ srv'.pc = srv.pc /\ srv'.i = srv.i + 1
              /\ srv'.content = srv.content
            BY <1>1, <2>3 DEF SrvLocals
        <3>2. SrvInv'
            BY <1>1, <1>4, <2>1, <3>1 DEF SrvInv, Refilling, SrvOffer
        <3> QED
            BY <1>4, <3>2, OtherThread DEF SrvOffer, NodeInv
    <2> QED
        BY <1>4, <2>2, <2>3 DEF SrvOffer
<1> QED
    BY <1>2, <1>3, <1>4

\* pop_back, on the server thread.
LEMMA PopInv ==
    ASSUME NEW pcs, NodeInv(pcs), SrvPop
    PROVE  NodeInv(pcs)'
<1>1. ChainInv'
    BY ChainPop DEF SrvPop, NodeInv
<1>2. seen' \in [quiet : BOOLEAN, stable : BOOLEAN, broken : BOOLEAN]
    BY DEF SrvPop, Disturbed, NodeInv
<1> QED
    BY <1>1, <1>2, OtherThread DEF SrvPop, NodeInv

\* A block has been dealt with, and the loop of replaceChain goes on.
LEMMA NextOffer ==
    ASSUME NEW pcs, NodeInv(pcs), srv.pc = "push", srv' = [srv EXCEPT !.pc = "add", !.i = @ + 1]
    PROVE  SrvInv'
<1>1. srv \in SrvLocals /\ srv.i \in Nat /\ srv.content \in Contents
    BY DEF NodeInv, SrvInv, SrvLocals
<1>2. /\ srv' \in SrvLocals /\ srv'.pc = "add" /\ srv'.i = srv.i + 1
      /\ srv'.content = srv.content
    <2>1. srv.i + 1 \in Nat /\ "add" \in SrvPcs
        BY <1>1 DEF SrvPcs
    <2> QED
        BY <1>1, <2>1 DEF SrvLocals
<1> QED
    BY <1>1, <1>2 DEF SrvInv, Refilling

\* push_back, on the server thread.
LEMMA SrvPushInv ==
    ASSUME NEW pcs, NodeInv(pcs), SrvPush
    PROVE  NodeInv(pcs)'
<1>1. Entry(srv.content, srv.i) \in Block
    BY OfferFacts DEF SrvPush, Refilling, NodeInv, SrvInv
<1>2. ChainInv'
    BY <1>1, ChainPush DEF SrvPush, NodeInv
<1>3. SrvInv'
    BY NextOffer DEF SrvPush
<1>4. seen' \in [quiet : BOOLEAN, stable : BOOLEAN, broken : BOOLEAN]
    BY DEF SrvPush, Disturbed, NodeInv
<1> QED
    BY <1>2, <1>3, <1>4, OtherThread DEF SrvPush, NodeInv

-----------------------------------------------------------------------------
(* Both threads at once. *)

\* Two writes of which one is lost.
LEMMA CollideInv ==
    ASSUME NEW pcs, CliPcs \subseteq pcs, NodeInv(pcs), Collide("verify")
    PROVE  NodeInv(pcs)'
<1>1. CliInv(pcs)'
    BY FreshLocals DEF Collide, NoBlock, CliPcs
<1>2. Mined \in Block
    BY MinedFacts DEF Collide
<1>3. CASE srv.pc = "push"
    <2>1. Entry(srv.content, srv.i) \in Block
        BY <1>3, OfferFacts DEF Refilling, NodeInv, SrvInv
    <2>2. ChainInv'
        BY <1>2, <1>3, <2>1, ChainPush DEF Collide, NodeInv
    <2>3. SrvInv'
        BY <1>3, NextOffer DEF Collide
    <2>4. seen' \in [quiet : BOOLEAN, stable : BOOLEAN, broken : BOOLEAN]
        BY <1>3 DEF Collide, Calm
    <2> QED
        BY <1>1, <2>2, <2>3, <2>4, OtherThread DEF Collide, NodeInv
<1>4. CASE srv.pc # "push"
    <2>1. ChainInv'
        BY <1>4, ChainPop DEF Collide, NodeInv
    <2>2. seen' \in [quiet : BOOLEAN, stable : BOOLEAN, broken : BOOLEAN]
        BY <1>4 DEF Collide, Calm, NodeInv
    <2> QED
        BY <1>1, <1>4, <2>1, <2>2, OtherThread DEF Collide, NodeInv
<1> QED
    BY <1>3, <1>4

\* Every step that both implementations share.
SharedNext(pcs) ==
    \/ \E d \in Data, next \in Before(pcs) : CliBegin(d, next)
    \/ CliShared \/ CliCheck("verify") \/ CliPush("verify") \/ CliMenu
    \/ SrvRequest \/ SrvShared \/ SrvReplaced
    \/ Collide("verify")
    \/ NodeRestart

\* No step shared by the two implementations breaks the invariant.
LEMMA SharedInv ==
    ASSUME NEW pcs, CliPcs \subseteq pcs, NodeInv(pcs), SharedNext(pcs)
    PROVE  NodeInv(pcs)'
<1>1. CASE \E d \in Data, next \in Before(pcs) : CliBegin(d, next)
    BY <1>1, BeginInv
<1>2. CASE CliShared
    BY <1>2, ReadsInv, SendInv, MenuInv DEF CliShared, CliSent
<1>3. CASE CliCheck("verify") \/ CliPush("verify") \/ CliMenu
    BY <1>3, CheckInv, PushInv, MenuInv
<1>4. CASE SrvRequest \/ SrvReplaced
    BY <1>4, RequestInv, AnsweredInv
<1>5. CASE SrvShared
    BY <1>5, LatestReply, AnsweredInv, PopInv, ReplaceInv, SrvPushInv DEF SrvShared
<1>6. CASE Collide("verify") \/ NodeRestart
    BY <1>6, CollideInv, RestartInv
<1> QED
    BY <1>1, <1>2, <1>3, <1>4, <1>5, <1>6 DEF SharedNext

-----------------------------------------------------------------------------
(* Links. *)

LinkedDocs == \A c \in Contents : LinkedJson(c)

\* The shared reads made so far tell the chain as it is.
ReadsCurrent ==
    /\ "num" \notin cli.todo => cli.num = Len(chain)
    /\ "prev" \notin cli.todo => cli.prev = chain[Len(chain)].hash

\* The arguments of addBlock go stale only if a handler writes the chain.
StableInv == seen.stable /\ cli.pc \in {"args", "push"} => ReadsCurrent

\* A chain that is being filled, by the handler alone, is the beginning of the
\* document, no longer than the index of the block that is offered next: that
\* block fits, or a block before it was refused and none is taken any more.
PrefixInv ==
    Refilling /\ ~seen.broken =>
        /\ Len(chain) <= srv.i
        /\ srv.pc = "push" => Len(chain) = srv.i
        /\ \A k \in 2 .. Len(chain) :
              k <= Len(srv.content.data) /\ chain[k] = srv.content.data[k]

\* Where addBlock always gets its merkle root, no block is refused.
NoneRefused == srv.pc = "add" /\ ~seen.broken => Len(chain) = srv.i

LinkInv ==
    /\ StableInv
    /\ PrefixInv
    /\ LinkedDocs /\ ~seen.broken => Linked(chain)

\* In an undisturbed command the reads made for the header hold until the block
\* is stored, and the hash that was found is that of the block that comes next.
QuietInv(pcs) ==
    seen.quiet =>
        /\ seen.stable
        /\ cli.pc \in Before(pcs) => ReadsCurrent
        /\ cli.pc \in {"args", "push"} /\ cli.hash # NoHash =>
              /\ cli.nonce \in Golden
              /\ cli.hash = Sha256(Len(chain), chain[Len(chain)].hash, cli.data, cli.nonce)

-----------------------------------------------------------------------------
\* Steps that change neither the chain nor what the server is filling it with.
LEMMA LinkUnmoved ==
    ASSUME NEW pcs, NodeInv(pcs), LinkInv, UNCHANGED chain,
           seen'.broken = seen.broken,
           UNCHANGED srv \/ ~Refilling',
           StableInv'
    PROVE  LinkInv'
<1>1. PrefixInv'
    BY DEF LinkInv, PrefixInv, Refilling
<1>2. LinkedDocs /\ ~seen'.broken => Linked(chain)'
    BY DEF LinkInv, Linked
<1> QED
    BY <1>1, <1>2 DEF LinkInv, LinkedDocs

\* Popping keeps the links there are.
LEMMA PopLinked ==
    ASSUME ChainInv, Len(chain) > 1, chain' = SubSeq(chain, 1, Len(chain) - 1),
           Linked(chain) \/ Len(chain) = 2
    PROVE  Linked(chain')
<1>1. /\ Len(chain) \in Nat /\ Len(chain') = Len(chain) - 1
      /\ \A k \in 1 .. Len(chain') : chain'[k] = chain[k]
    BY ChainPop, ChainFacts
<1>2. \A k \in 1 .. Len(chain') - 1 :
          k \in 1 .. Len(chain) - 1 /\ k \in 1 .. Len(chain') /\ k + 1 \in 1 .. Len(chain')
    BY <1>1
<1> QED
    BY <1>1, <1>2 DEF Linked

\* Appending a block that points to the last one does, too.
LEMMA PushLinked ==
    ASSUME ChainInv, NEW b \in Block, chain' = Append(chain, b),
           Linked(chain), b.previousHash = chain[Len(chain)].hash
    PROVE  Linked(chain')
<1>1. /\ Len(chain) \in Nat /\ Len(chain') = Len(chain) + 1
      /\ chain'[Len(chain) + 1] = b
      /\ \A k \in 1 .. Len(chain) : chain'[k] = chain[k]
    BY ChainPush, ChainFacts
<1>2. ASSUME NEW k \in 1 .. Len(chain') - 1
      PROVE  chain'[k + 1].previousHash = chain'[k].hash
    <2>1. CASE k = Len(chain)
        BY <1>1, <2>1
    <2>2. CASE k # Len(chain)
        <3>1. k \in 1 .. Len(chain) - 1 /\ k + 1 \in 1 .. Len(chain)
            BY <1>1, <2>2
        <3> QED
            BY <1>1, <3>1 DEF Linked
    <2> QED
        BY <2>1, <2>2
<1> QED
    BY <1>2 DEF Linked

\* With a block in the making, a handler's write is remembered.
LEMMA DisturbedFacts ==
    ASSUME NEW pcs, NodeInv(pcs)
    PROVE  /\ Disturbed.broken = seen.broken
           /\ cli.pc \notin NoBlock => Disturbed.stable = FALSE /\ Disturbed.quiet = FALSE
           /\ Disturbed.quiet => seen.quiet
           /\ cli.pc \in NoBlock => Disturbed.stable = seen.stable \/ ~Disturbed.quiet
           /\ Disturbed \in [quiet : BOOLEAN, stable : BOOLEAN, broken : BOOLEAN]
<1>1. cli.pc \notin NoBlock => cli.data # Null
    BY ChainAssumption DEF NodeInv, CliInv
<1> QED
    BY <1>1 DEF Disturbed, NodeInv

-----------------------------------------------------------------------------
(* LinkInv *)

\* The command line's steps that leave the chain alone.
LEMMA LinkCli ==
    ASSUME NEW pcs, CliPcs \subseteq pcs, NodeInv(pcs), LinkInv,
           \/ \E d \in Data, next \in Before(pcs) : CliBegin(d, next)
           \/ CliShared \/ CliCheck("verify") \/ CliMenu
           \/ \E h \in Hash, n \in Nonces : CliMined(h, n)
    PROVE  LinkInv'
<1>1. cli \in CliLocals(pcs)
    BY DEF NodeInv, CliInv
<1>2. UNCHANGED <<chain, srv>> /\ seen'.broken = seen.broken
    BY DEF CliBegin, CliShared, CliCheck, CliMenu, CliMined, CliReadNum, CliReadPrev,
           CliLength, CliEntry, CliDump, CliPost, CliSent, Calm, NodeInv
<1>3. StableInv'
    <2>1. CASE \E d \in Data, next \in Before(pcs) : CliBegin(d, next)
        BY <1>1, <2>1 DEF CliBegin, Before, StableInv, CliLocals
    <2>2. CASE CliReadNum
        BY <1>1, <2>2 DEF CliReadNum, StableInv, ReadsCurrent, LinkInv, CliLocals
    <2>3. CASE CliReadPrev
        BY <1>1, <2>3 DEF CliReadPrev, StableInv, ReadsCurrent, LinkInv, CliLocals
    <2>4. CASE CliLength \/ CliEntry \/ CliDump \/ CliPost \/ CliSent \/ CliMenu
        <3>1. cli'.pc \in NoBlock
            BY <1>1, <2>4 DEF CliLength, CliEntry, CliDump, CliPost, CliSent, CliMenu,
                              Fresh, CliIdle, NoBlock, CliLocals
        <3> QED
            BY <3>1 DEF StableInv, NoBlock
    <2>5. CASE CliCheck("verify")
        <3>1. CASE Acceptable(Mined) /\ cli.num = Len(chain)
            BY <1>1, <2>5, <3>1 DEF CliCheck, StableInv, ReadsCurrent, LinkInv, CliLocals
        <3>2. CASE ~(Acceptable(Mined) /\ cli.num = Len(chain))
            BY <2>5, <3>2 DEF CliCheck, StableInv, Fresh, CliIdle
        <3> QED
            BY <3>1, <3>2
    <2>6. CASE \E h \in Hash, n \in Nonces : CliMined(h, n)
        <3>1. cli'.todo = Reads
            BY <2>6 DEF CliMined, Fresh, CliIdle
        <3> QED
            BY <3>1 DEF StableInv, ReadsCurrent, Reads
    <2> QED
        BY <2>1, <2>2, <2>3, <2>4, <2>5, <2>6 DEF CliShared
<1> QED
    BY <1>2, <1>3, LinkUnmoved

\* The command line's append: either nobody wrote the chain since its
\* arguments were read, or it is remembered.
LEMMA LinkPush ==
    ASSUME NEW pcs, CliPcs \subseteq pcs, NodeInv(pcs), LinkInv, CliPush("verify")
    PROVE  LinkInv'
<1>1. StableInv'
    BY DEF CliPush, StableInv, Fresh, CliIdle
<1>2. PrefixInv'
    BY DEF CliPush, PrefixInv, Refilling, Calm
<1>3. ASSUME LinkedDocs, ~seen'.broken
      PROVE  Linked(chain)'
    <2>1. ~seen.broken /\ seen.stable
        BY <1>3 DEF CliPush, Calm
    <2>2. Linked(chain) /\ cli.prev = chain[Len(chain)].hash
        BY <1>3, <2>1 DEF LinkInv, StableInv, ReadsCurrent, CliPush, NodeInv, CliInv
    <2>3. Mined.previousHash = chain[Len(chain)].hash
        BY <2>2 DEF Mined, NewBlock
    <2> QED
        BY <2>2, <2>3, MinedFacts, PushLinked DEF CliPush, NodeInv
<1> QED
    BY <1>1, <1>2, <1>3 DEF LinkInv, LinkedDocs

\* The server's steps that leave the chain alone.
LEMMA LinkServer ==
    ASSUME NEW pcs, NodeInv(pcs), LinkInv,
           \/ SrvRequest \/ SrvEntry \/ SrvDump \/ SrvReply \/ SrvThrow
           \/ SrvFilled \/ SrvReplaced \/ SrvPopped \/ SrvOffer
    PROVE  LinkInv'
<1>1. UNCHANGED <<chain, cli, seen>>
    BY DEF SrvRequest, SrvAddNode, SrvNewChain, SrvLatest, SrvEntry, SrvDump, SrvReply,
           SrvThrow, SrvFilled, SrvReplaced, SrvPopped, SrvOffer
<1>2. StableInv'
    BY <1>1 DEF LinkInv, StableInv, ReadsCurrent
<1>3. srv \in SrvLocals /\ srv.i \in Nat /\ Len(chain) \in Nat /\ Len(chain) >= 1
    BY ChainFacts DEF NodeInv, SrvInv, SrvLocals, ChainInv
<1>4. CASE SrvRequest \/ SrvEntry \/ SrvDump \/ SrvReply \/ SrvThrow \/ SrvFilled \/ SrvReplaced
    <2>1. UNCHANGED srv \/ ~Refilling'
        <3>1. CASE SrvRequest
            BY <1>3, <3>1 DEF SrvRequest, SrvAddNode, SrvNewChain, SrvLatest, Refilling, SrvLocals
        <3>2. CASE SrvEntry \/ SrvDump \/ SrvFilled
            <4>1. srv'.pc \in {"entries", "reply", "replaced"}
                BY <1>3, <3>2 DEF SrvEntry, SrvDump, SrvFilled, SrvLocals
            <4> QED
                BY <4>1 DEF Refilling
        <3>3. CASE SrvReply \/ SrvThrow \/ SrvReplaced
            BY <3>3 DEF SrvReply, SrvThrow, SrvReplaced, SrvIdle, Refilling
        <3> QED
            BY <1>4, <3>1, <3>2, <3>3
    <2> QED
        BY <1>1, <1>2, <2>1, LinkUnmoved
<1>5. CASE SrvPopped
    <2>1. srv'.i = 1 /\ srv'.pc = "add" /\ Len(chain) = 1
        BY <1>3, <1>5 DEF SrvPopped, SrvLocals
    <2>2. PrefixInv'
        BY <1>1, <2>1 DEF PrefixInv
    <2> QED
        BY <1>1, <1>2, <2>2 DEF LinkInv, LinkedDocs, Linked
<1>6. CASE SrvOffer
    <2>1. srv.content \in Contents /\ Refilling /\ Entry(srv.content, srv.i) # Null
        BY <1>6 DEF SrvOffer, NodeInv, SrvInv, Refilling
    <2>2. /\ Entry(srv.content, srv.i).index = srv.i /\ srv'.content = srv.content
          /\ \/ srv'.pc = "push" /\ srv'.i = srv.i /\ srv.i = Len(chain)
             \/ srv'.pc = "add" /\ srv'.i = srv.i + 1
        BY <1>3, <1>6, <2>1, OfferFacts DEF SrvOffer, SrvLocals
    <2>3. PrefixInv'
        <3> SUFFICES ASSUME ~seen.broken
                     PROVE  PrefixInv'
            BY <1>1 DEF PrefixInv
        <3>1. Len(chain) <= srv.i
              /\ \A k \in 2 .. Len(chain) : k <= Len(srv.content.data)
                                           /\ chain[k] = srv.content.data[k]
            BY <2>1 DEF LinkInv, PrefixInv
        <3>2. Len(chain) <= srv'.i /\ (srv'.pc = "push" => Len(chain) = srv'.i)
            BY <1>3, <2>2, <3>1
        <3> QED
            BY <1>1, <2>2, <3>1, <3>2 DEF PrefixInv
    <2> QED
        BY <1>1, <1>2, <2>3 DEF LinkInv, LinkedDocs, Linked
<1> QED
    BY <1>4, <1>5, <1>6

\* Arithmetic of the few lengths that matter.
LEMMA Lengths ==
    ASSUME NEW n \in Nat
    PROVE  (n > 1 /\ n <= 2 => n = 2) /\ (n > 2 \/ n <= 2)
OBVIOUS

\* A block is dropped; a chain cut back to genesis is whole again.
LEMMA LinkPop ==
    ASSUME NEW pcs, NodeInv(pcs), LinkInv, Len(chain) > 1,
           chain' = SubSeq(chain, 1, Len(chain) - 1),
           srv.pc = "pop", UNCHANGED srv,
           ~seen'.broken => ~seen.broken \/ Len(chain) <= 2,
           seen'.stable => cli'.pc \in NoBlock
    PROVE  LinkInv'
<1>1. StableInv' /\ PrefixInv'
    BY DEF StableInv, PrefixInv, Refilling, NoBlock
<1>2. ASSUME LinkedDocs, ~seen'.broken
      PROVE  Linked(chain)'
    <2>1. Len(chain) \in Nat
        BY ChainFacts DEF NodeInv
    <2>2. ~seen.broken \/ Len(chain) <= 2
        BY <1>2, Zenon
    <2>3. Len(chain) <= 2 => Len(chain) = 2
        BY <2>1, Lengths, Zenon
    <2>4. ~seen.broken => Linked(chain)
        BY <1>2 DEF LinkInv
    <2> QED
        BY <2>2, <2>3, <2>4, PopLinked DEF NodeInv
<1> QED
    BY <1>1, <1>2 DEF LinkInv, LinkedDocs

\* The handler's append, when nobody else has written the chain.
LEMMA LinkSrvPush ==
    ASSUME NEW pcs, NodeInv(pcs), LinkInv, SrvPush
    PROVE  LinkInv'
<1> DEFINE b    == Entry(srv.content, srv.i)
           data == srv.content.data
<1>1. /\ Refilling /\ b # Null /\ srv.content \in Contents
      /\ srv \in SrvLocals /\ srv.i \in Nat /\ srv.i >= 1
    BY DEF SrvPush, Refilling, NodeInv, SrvInv, SrvLocals
<1>2. b \in Block /\ Acceptable(b) /\ srv.i < Len(data) /\ b = data[srv.i + 1]
    BY <1>1, OfferFacts
<1>3. /\ Len(chain) \in Nat /\ Len(chain') = Len(chain) + 1
      /\ chain'[Len(chain) + 1] = b
      /\ \A k \in 1 .. Len(chain) : chain'[k] = chain[k] /\ chain[k] \in Block
    BY <1>2, ChainPush, ChainFacts DEF SrvPush, NodeInv
<1>4. seen' = Disturbed /\ seen'.broken = seen.broken /\ UNCHANGED cli
    BY DisturbedFacts DEF SrvPush
<1>5. StableInv'
    BY <1>4, DisturbedFacts DEF StableInv, NoBlock
<1>6. srv'.pc = "add" /\ srv'.i = srv.i + 1 /\ srv'.content = srv.content
    BY <1>1 DEF SrvPush, SrvLocals
<1>7. PrefixInv'
    <2> SUFFICES ASSUME ~seen.broken
                 PROVE  /\ Len(chain') <= srv'.i
                        /\ \A k \in 2 .. Len(chain') :
                              k <= Len(data) /\ chain'[k] = data[k]
        BY <1>4, <1>6 DEF PrefixInv
    <2>1. Len(chain) = srv.i /\ \A k \in 2 .. Len(chain) : k <= Len(data) /\ chain[k] = data[k]
        BY <1>1 DEF LinkInv, PrefixInv, SrvPush
    <2>2. ASSUME NEW k \in 2 .. Len(chain')
          PROVE  k <= Len(data) /\ chain'[k] = data[k]
        <3>1. CASE k = Len(chain) + 1
            <4>1. Len(data) \in Nat
                BY <1>1, NodeAssumption, LenProperties DEF WellFormed, Json
            <4> QED
                BY <1>1, <1>2, <1>3, <2>1, <3>1, <4>1
        <3>2. CASE k # Len(chain) + 1
            BY <1>3, <2>1, <3>2
        <3> QED
            BY <3>1, <3>2
    <2> QED
        BY <1>1, <1>3, <1>6, <2>1, <2>2
<1>8. ASSUME LinkedDocs, ~seen'.broken
      PROVE  Linked(chain)'
    <2>1. Linked(chain) /\ Len(chain) = srv.i
          /\ \A k \in 2 .. Len(chain) : chain[k] = data[k]
        BY <1>1, <1>4, <1>8 DEF LinkInv, PrefixInv, SrvPush
    <2>2. chain[srv.i] = data[srv.i] /\ data[srv.i] # Null
        <3>1. chain[srv.i] \in Block
            BY <1>1, <1>3, <2>1
        <3>2. CASE srv.i = 1
            <4>1. data[1] = Genesis /\ chain[1] = Genesis
                BY <1>1, <1>8 DEF LinkedDocs, LinkedJson, NodeInv, ChainInv
            <4> QED
                BY <3>1, <3>2, <4>1, ChainAssumption
        <3>3. CASE srv.i # 1
            BY <1>1, <1>3, <2>1, <3>1, <3>3, ChainAssumption
        <3> QED
            BY <3>2, <3>3
    <2>3. srv.i \in 1 .. Len(data) - 1 /\ data[srv.i + 1] # Null
        <3>1. Len(data) \in Nat
            BY <1>1, NodeAssumption, LenProperties DEF WellFormed, Json
        <3> QED
            BY <1>1, <1>2, <3>1
    <2>4. b.previousHash = chain[Len(chain)].hash
        BY <1>1, <1>2, <1>8, <2>1, <2>2, <2>3 DEF LinkedDocs, LinkedJson
    <2> QED
        BY <1>2, <2>1, <2>4, PushLinked DEF SrvPush, NodeInv
<1> QED
    BY <1>5, <1>7, <1>8 DEF LinkInv, LinkedDocs

\* No shared step breaks what is known of the links.
LEMMA SharedLink ==
    ASSUME NEW pcs, CliPcs \subseteq pcs, NodeInv(pcs), LinkInv, SharedNext(pcs)
    PROVE  LinkInv'
<1>1. CASE \/ \E d \in Data, next \in Before(pcs) : CliBegin(d, next)
           \/ CliShared \/ CliCheck("verify") \/ CliMenu
    BY <1>1, LinkCli
<1>2. CASE CliPush("verify")
    BY <1>2, LinkPush
<1>3. CASE SrvRequest \/ SrvReplaced
    BY <1>3, LinkServer
<1>4. CASE SrvShared
    <2>1. CASE SrvPop
        <3>1. seen'.broken = (seen.broken /\ Len(chain) > 2)
            BY <2>1, DisturbedFacts DEF SrvPop
        <3>2. seen'.stable = Disturbed.stable /\ UNCHANGED cli
            BY <2>1, DisturbedFacts DEF SrvPop
        <3>3. Len(chain) \in Nat
            BY ChainFacts DEF NodeInv
        <3>4. ~seen'.broken => ~seen.broken \/ Len(chain) <= 2
            BY <3>1, <3>3, Lengths, Zenon
        <3>5. seen'.stable => cli'.pc \in NoBlock
            BY <3>2, DisturbedFacts
        <3>6. /\ Len(chain) > 1 /\ chain' = SubSeq(chain, 1, Len(chain) - 1)
              /\ srv.pc = "pop" /\ UNCHANGED srv
            BY <2>1 DEF SrvPop
        <3> QED
            BY <3>4, <3>5, <3>6, LinkPop, Zenon
    <2> QED
        BY <1>4, <2>1, LinkServer, LinkSrvPush DEF SrvShared
<1>5. CASE Collide("verify")
    <2>1. cli'.pc \in NoBlock
        BY <1>5 DEF Collide, Fresh, CliIdle, NoBlock
    <2>2. CASE srv.pc = "push"
        BY <1>5, <2>1, <2>2 DEF Collide, Calm, LinkInv, StableInv, PrefixInv, NoBlock
    <2>3. CASE srv.pc # "push"
        <3>1. seen'.broken = (seen.broken /\ Len(chain) > 2)
            BY <1>5, <2>3 DEF Collide, Calm
        <3>2. Len(chain) \in Nat
            BY ChainFacts DEF NodeInv
        <3>3. ~seen'.broken => ~seen.broken \/ Len(chain) <= 2
            BY <3>1, <3>2, Lengths, Zenon
        <3>4. /\ Len(chain) > 1 /\ chain' = SubSeq(chain, 1, Len(chain) - 1)
              /\ srv.pc = "pop" /\ UNCHANGED srv
            BY <1>5, <2>3 DEF Collide
        <3> QED
            BY <2>1, <3>3, <3>4, LinkPop, Zenon
    <2> QED
        BY <2>2, <2>3
<1>6. CASE NodeRestart
    BY <1>6, StartFacts DEF NodeRestart, LinkInv, LinkedDocs, StableInv, PrefixInv,
                           Refilling, CliIdle, SrvIdle, Calm
<1> QED
    BY <1>1, <1>2, <1>3, <1>4, <1>5, <1>6 DEF SharedNext

\* A process starts with a linked chain and nothing under way.
LEMMA StartLink ==
    ASSUME NEW pcs, NodeInit
    PROVE  LinkInv /\ QuietInv(pcs) /\ NoneRefused /\ InstalledWhole
<1>1. LinkInv
    BY StartFacts DEF NodeInit, LinkInv, LinkedDocs, StableInv, PrefixInv, Refilling,
                      CliIdle, SrvIdle, Calm
<1>2. QuietInv(pcs) /\ NoneRefused /\ InstalledWhole
    BY DEF NodeInit, QuietInv, NoneRefused, InstalledWhole, Before, NoBlock, CliIdle, SrvIdle, Calm
<1> QED
    BY <1>1, <1>2

-----------------------------------------------------------------------------
(* QuietInv *)

\* What an undisturbed command found out stays true while nothing it rests on
\* changes.
LEMMA QuietUnmoved ==
    ASSUME NEW pcs, NodeInv(pcs), QuietInv(pcs), UNCHANGED <<chain, cli>>,
           seen'.quiet => seen.quiet, seen'.quiet => seen'.stable
    PROVE  QuietInv(pcs)'
BY DEF QuietInv, ReadsCurrent, Before

\* A command that has stored its block or given up rests on nothing.
LEMMA QuietOver ==
    ASSUME NEW pcs, cli'.pc \in NoBlock, seen'.quiet => seen'.stable
    PROVE  QuietInv(pcs)'
BY DEF QuietInv, Before, NoBlock

\* The steps of the command line other than the search.
LEMMA QuietCli ==
    ASSUME NEW pcs, CliPcs \subseteq pcs, NodeInv(pcs), QuietInv(pcs),
           \/ \E d \in Data, next \in Before(pcs) : CliBegin(d, next)
           \/ CliShared \/ CliMenu \/ CliCheck("verify") \/ CliPush("verify")
           \/ Collide("verify")
    PROVE  QuietInv(pcs)'
<1>1. cli \in CliLocals(pcs) /\ (seen.quiet => seen.stable)
    BY DEF NodeInv, CliInv, QuietInv
<1>2. CASE \E d \in Data, next \in Before(pcs) : CliBegin(d, next)
    <2>1. cli'.pc \in Before(pcs) /\ cli'.todo = Reads /\ UNCHANGED <<chain, seen>>
        BY <1>1, <1>2 DEF CliBegin, CliLocals
    <2>2. cli'.pc \notin {"args", "push"} /\ "num" \in Reads /\ "prev" \in Reads
        BY <2>1 DEF Before, Reads
    <2> QED
        BY <1>1, <2>1, <2>2 DEF QuietInv, ReadsCurrent
<1>3. CASE CliReadNum \/ CliReadPrev
    <2>1. /\ UNCHANGED <<chain, seen>> /\ cli'.pc = cli.pc
          /\ cli'.hash = cli.hash /\ cli'.nonce = cli.nonce /\ cli'.data = cli.data
        BY <1>1, <1>3 DEF CliReadNum, CliReadPrev, CliLocals
    <2>2. ReadsCurrent => ReadsCurrent'
        <3>1. CASE CliReadNum
            BY <1>1, <3>1 DEF CliReadNum, ReadsCurrent, CliLocals
        <3>2. CASE CliReadPrev
            BY <1>1, <3>2 DEF CliReadPrev, ReadsCurrent, CliLocals
        <3> QED
            BY <1>3, <3>1, <3>2
    <2> QED
        BY <2>1, <2>2 DEF QuietInv, Before
<1>4. CASE CliLength \/ CliEntry \/ CliDump \/ CliPost \/ CliSent \/ CliMenu
    <2>1. cli'.pc \in NoBlock
        BY <1>1, <1>4 DEF CliLength, CliEntry, CliDump, CliPost, CliSent, CliMenu,
                          Fresh, CliIdle, NoBlock, CliLocals
    <2>2. UNCHANGED seen
        BY <1>4 DEF CliLength, CliEntry, CliDump, CliPost, CliSent, CliMenu
    <2> QED
        BY <1>1, <2>1, <2>2, QuietOver
<1>5. CASE CliCheck("verify")
    <2>1. CASE Acceptable(Mined) /\ cli.num = Len(chain)
        BY <1>1, <1>5, <2>1 DEF CliCheck, CliLocals, QuietInv, Before
    <2>2. CASE ~(Acceptable(Mined) /\ cli.num = Len(chain))
        <3>1. cli'.pc = "verify" /\ seen'.stable
            BY <1>5, <2>2 DEF CliCheck, Fresh, CliIdle, Calm
        <3> QED
            BY <3>1, QuietOver DEF NoBlock
    <2> QED
        BY <2>1, <2>2
<1>6. CASE CliPush("verify") \/ Collide("verify")
    <2>1. cli'.pc = "verify" /\ seen'.stable
        BY <1>6 DEF CliPush, Collide, Fresh, CliIdle, Calm
    <2> QED
        BY <2>1, QuietOver DEF NoBlock
<1> QED
    BY <1>2, <1>3, <1>4, <1>5, <1>6 DEF CliShared

\* No shared step makes an undisturbed command's knowledge stale.
LEMMA SharedQuiet ==
    ASSUME NEW pcs, CliPcs \subseteq pcs, NodeInv(pcs), QuietInv(pcs), SharedNext(pcs)
    PROVE  QuietInv(pcs)'
<1>1. seen.quiet => seen.stable
    BY DEF QuietInv
<1>2. CASE SrvRequest \/ SrvReplaced \/ SrvEntry \/ SrvDump \/ SrvReply
           \/ SrvPopped \/ SrvOffer \/ SrvThrow \/ SrvFilled
    <2>1. UNCHANGED <<chain, cli, seen>>
        BY <1>2 DEF SrvRequest, SrvAddNode, SrvNewChain, SrvLatest, SrvReplaced, SrvEntry,
                    SrvDump, SrvReply, SrvPopped, SrvOffer, SrvThrow, SrvFilled
    <2> QED
        BY <1>1, <2>1, QuietUnmoved
<1>3. CASE SrvPop \/ SrvPush
    <2>1. UNCHANGED cli /\ seen'.quiet = Disturbed.quiet /\ seen'.stable = Disturbed.stable
        BY <1>3, DisturbedFacts DEF SrvPop, SrvPush
    <2>2. CASE cli.pc \in NoBlock
        BY <1>1, <2>1, <2>2, DisturbedFacts, QuietOver
    <2>3. CASE cli.pc \notin NoBlock
        BY <2>1, <2>3, DisturbedFacts DEF QuietInv
    <2> QED
        BY <2>2, <2>3
<1>4. CASE NodeRestart
    BY <1>4, QuietOver DEF NodeRestart, CliIdle, NoBlock, Calm
<1> QED
    BY <1>2, <1>3, <1>4, QuietCli DEF SharedNext, SrvShared

\* An undisturbed command offers a block that fits on the end of the chain.
LEMMA QuietFits ==
    ASSUME NEW pcs, NodeInv(pcs), LinkInv, QuietInv(pcs)
    PROVE  QuietAppend
<1> SUFFICES ASSUME cli.pc = "args", cli.todo = {}, seen.quiet, cli.hash # NoHash
             PROVE  /\ Acceptable(Mined)
                    /\ cli.num = Len(chain)
                    /\ cli.prev = chain[Len(chain)].hash
    BY DEF QuietAppend
<1>1. cli.num = Len(chain) /\ cli.prev = chain[Len(chain)].hash
    BY DEF QuietInv, LinkInv, StableInv, ReadsCurrent
<1>2. cli.nonce \in Golden /\ cli.hash = Sha256(cli.num, cli.prev, cli.data, cli.nonce)
    BY <1>1 DEF QuietInv
<1>3. cli.num \in Nat /\ cli.prev \in Hash /\ cli.nonce \in Nonces /\ cli.data \in Payload
    BY DEF NodeInv, CliInv, CliLocals, NoBlock, Payload
<1>4. MeetsTarget(cli.hash)
    BY <1>2, <1>3, Sha256Facts
<1> QED
    BY <1>1, <1>2, <1>4 DEF Acceptable, HeaderMatches, Mined, NewBlock

-----------------------------------------------------------------------------
(* NoneRefused and InstalledWhole *)

\* Each block the document offers fits on the end of the chain, which holds the
\* blocks before it and no other.
LEMMA SharedRefused ==
    ASSUME NEW pcs, CliPcs \subseteq pcs, NodeInv(pcs), LinkInv, NoneRefused, SharedNext(pcs)
    PROVE  NoneRefused'
<1>1. srv \in SrvLocals /\ srv.i \in Nat /\ Len(chain) \in Nat /\ Len(chain) >= 1
    BY ChainFacts DEF NodeInv, SrvInv, SrvLocals, ChainInv
<1>2. CASE SrvPopped
    <2>1. srv'.i = 1 /\ srv'.pc = "add" /\ Len(chain) = 1
        BY <1>1, <1>2 DEF SrvPopped, SrvLocals
    <2> QED
        BY <1>2, <2>1 DEF SrvPopped, NoneRefused
<1>3. CASE SrvOffer
    <2>1. /\ Refilling /\ srv.pc = "add" /\ Entry(srv.content, srv.i) # Null
          /\ UNCHANGED <<chain, seen>>
        BY <1>3 DEF SrvOffer, Refilling
    <2>2. /\ Acceptable(Entry(srv.content, srv.i)) /\ Entry(srv.content, srv.i).index = srv.i
        BY <2>1, OfferFacts
    <2>3. Len(chain) = srv.i => srv'.pc = "push"
        BY <1>1, <1>3, <2>2 DEF SrvOffer, SrvLocals
    <2> QED
        BY <2>1, <2>3 DEF NoneRefused
<1>4. CASE SrvPush
    <2>1. Len(chain') = Len(chain) + 1 /\ seen'.broken = seen.broken
        <3>1. Entry(srv.content, srv.i) \in Block
            BY <1>4, OfferFacts DEF SrvPush, Refilling, NodeInv, SrvInv
        <3> QED
            BY <1>4, <3>1, ChainPush, DisturbedFacts DEF SrvPush, NodeInv
    <2>2. srv'.i = srv.i + 1 /\ (~seen.broken => Len(chain) = srv.i)
        BY <1>1, <1>4 DEF SrvPush, SrvLocals, LinkInv, PrefixInv, Refilling
    <2> QED
        BY <2>1, <2>2 DEF NoneRefused
<1>5. CASE \/ \E d \in Data, next \in Before(pcs) : CliBegin(d, next)
           \/ CliShared \/ CliCheck("verify") \/ CliMenu
    <2>1. UNCHANGED <<chain, srv>> /\ seen'.broken = seen.broken
        BY <1>5 DEF CliBegin, CliShared, CliCheck, CliMenu, CliReadNum, CliReadPrev,
                    CliLength, CliEntry, CliDump, CliPost, CliSent, Calm, NodeInv
    <2> QED
        BY <2>1 DEF NoneRefused
<1>6. CASE CliPush("verify")
    <2>1. UNCHANGED srv /\ (srv.pc = "add" => seen'.broken)
        BY <1>6 DEF CliPush, Refilling, Calm
    <2> QED
        BY <2>1 DEF NoneRefused
<1>7. CASE SrvRequest \/ SrvReplaced \/ SrvEntry \/ SrvDump \/ SrvReply \/ SrvThrow \/ SrvFilled
    <2>1. srv'.pc # "add" \/ UNCHANGED <<chain, srv, seen>>
        <3>1. CASE SrvRequest
            BY <1>1, <3>1 DEF SrvRequest, SrvAddNode, SrvNewChain, SrvLatest, SrvLocals
        <3>2. CASE SrvReplaced \/ SrvReply \/ SrvThrow
            BY <3>2 DEF SrvReplaced, SrvReply, SrvThrow, SrvIdle
        <3>3. CASE SrvEntry \/ SrvDump \/ SrvFilled
            BY <1>1, <3>3 DEF SrvEntry, SrvDump, SrvFilled, SrvLocals
        <3> QED
            BY <1>7, <3>1, <3>2, <3>3
    <2> QED
        BY <2>1 DEF NoneRefused
<1>8. CASE SrvPop \/ NodeRestart
    <2>1. srv'.pc # "add"
        BY <1>8 DEF SrvPop, NodeRestart, SrvIdle
    <2> QED
        BY <2>1 DEF NoneRefused
<1>9. CASE Collide("verify")
    <2>1. seen'.broken \/ srv'.pc # "add"
        BY <1>9 DEF Collide, Calm
    <2> QED
        BY <2>1 DEF NoneRefused
<1> QED
    BY <1>2, <1>3, <1>4, <1>5, <1>6, <1>7, <1>8, <1>9 DEF SharedNext, SrvShared

\* What a finished replacement installed stays: the command line only appends.
LEMMA SharedInstalled ==
    ASSUME NEW pcs, CliPcs \subseteq pcs, NodeInv(pcs), LinkInv, NoneRefused, InstalledWhole,
           SharedNext(pcs)
    PROVE  InstalledWhole'
<1>1. CASE SrvFilled
    <2>1. Refilling /\ srv.content \in Contents /\ srv \in SrvLocals
          /\ srv.i \in Nat /\ srv.i >= srv.content.length
        BY <1>1 DEF SrvFilled, Refilling, NodeInv, SrvInv, SrvLocals
    <2>2. srv.content.length \in Nat /\ srv'.content = srv.content /\ UNCHANGED <<chain, seen>>
        BY <1>1, <2>1, NodeAssumption DEF SrvFilled, SrvLocals, WellFormed, Json
    <2>3. ASSUME ~seen.broken
          PROVE  /\ Len(chain) = srv.i
                 /\ \A k \in 2 .. Len(chain) : chain[k] = srv.content.data[k]
        BY <1>1, <2>1, <2>3 DEF LinkInv, PrefixInv, NoneRefused, SrvFilled
    <2>4. ASSUME ~seen.broken
          PROVE  /\ Len(chain) >= srv.content.length
                 /\ \A k \in 2 .. srv.content.length : chain[k] = srv.content.data[k]
        BY <2>1, <2>2, <2>3, <2>4
    <2> QED
        BY <2>2, <2>4 DEF InstalledWhole
<1>2. CASE CliPush("verify")
    <2>1. UNCHANGED srv /\ (~seen'.broken => ~seen.broken)
        BY <1>2 DEF CliPush, Calm
    <2>2. /\ Len(chain) \in Nat /\ Len(chain') = Len(chain) + 1
          /\ \A k \in 1 .. Len(chain) : chain'[k] = chain[k]
        BY <1>2, MinedFacts, ChainPush, ChainFacts DEF CliPush, NodeInv
    <2>3. srv.pc = "replaced" => srv.content.length \in Nat
        BY NodeAssumption DEF NodeInv, SrvInv, WellFormed, Json
    <2> SUFFICES ASSUME srv.pc = "replaced", ~seen.broken
                 PROVE  /\ Len(chain') >= srv.content.length
                        /\ \A k \in 2 .. srv.content.length : chain'[k] = srv.content.data[k]
        BY <2>1 DEF InstalledWhole
    <2>4. /\ Len(chain) >= srv.content.length
          /\ \A k \in 2 .. srv.content.length : chain[k] = srv.content.data[k]
        BY DEF InstalledWhole
    <2> QED
        BY <2>2, <2>3, <2>4
<1>3. CASE \/ \E d \in Data, next \in Before(pcs) : CliBegin(d, next)
           \/ CliShared \/ CliMenu \/ CliCheck("verify")
    <2>1. UNCHANGED <<chain, srv>> /\ seen'.broken = seen.broken
        BY <1>3 DEF CliBegin, CliShared, CliCheck, CliMenu, CliReadNum, CliReadPrev,
                    CliLength, CliEntry, CliDump, CliPost, CliSent, Calm, NodeInv
    <2> QED
        BY <2>1 DEF InstalledWhole
<1>4. CASE SrvRequest
    <2>1. CASE \E p \in Ports : SrvAddNode(p)
        BY <2>1 DEF SrvAddNode, InstalledWhole
    <2>2. CASE SrvLatest \/ SrvNewChain
        <3>1. srv'.pc # "replaced"
            BY <2>2 DEF SrvLatest, SrvNewChain, NodeInv, SrvInv, SrvLocals
        <3> QED
            BY <3>1 DEF InstalledWhole
    <2> QED
        BY <1>4, <2>1, <2>2 DEF SrvRequest
<1>5. CASE SrvReplaced \/ SrvEntry \/ SrvDump \/ SrvReply \/ SrvPop \/ SrvPopped
           \/ SrvOffer \/ SrvThrow \/ SrvPush \/ Collide("verify") \/ NodeRestart
    <2>1. srv \in SrvLocals
        BY DEF NodeInv, SrvInv
    <2>2. CASE SrvReplaced \/ SrvReply \/ SrvThrow \/ NodeRestart
        BY <2>2 DEF SrvReplaced, SrvReply, SrvThrow, NodeRestart, SrvIdle, InstalledWhole
    <2>3. CASE SrvEntry \/ SrvDump
        <3>1. srv'.pc \in {"entries", "reply"}
            BY <2>1, <2>3 DEF SrvEntry, SrvDump, SrvLocals
        <3> QED
            BY <3>1 DEF InstalledWhole
    <2>4. CASE SrvPop \/ SrvPopped \/ SrvPush \/ Collide("verify")
        <3>1. srv'.pc \in {"pop", "add"}
            BY <2>1, <2>4 DEF SrvPop, SrvPopped, SrvPush, Collide, SrvLocals
        <3> QED
            BY <3>1 DEF InstalledWhole
    <2>5. CASE SrvOffer
        <3>1. srv'.pc \in {"add", "push"}
            BY <2>1, <2>5 DEF SrvOffer, SrvLocals
        <3> QED
            BY <3>1 DEF InstalledWhole
    <2> QED
        BY <1>5, <2>2, <2>3, <2>4, <2>5
<1> QED
    BY <1>1, <1>2, <1>3, <1>4, <1>5 DEF SharedNext, SrvShared

-----------------------------------------------------------------------------
(* MinedInv *)

\* Steps that store no block, and put none into a document.
LEMMA MinedUnmoved ==
    ASSUME MinedInv, UNCHANGED chain, WellFormed(cli'.json), WellFormed(srv'.json),
           cli'.pc # "push" \/ UNCHANGED cli
    PROVE  MinedInv'
BY DEF MinedInv, BlocksMined, EmitsWellFormed, Mined

\* push_back of a mined block, and pop_back of any.
LEMMA MinedChain ==
    ASSUME ChainInv, BlocksMined,
           \/ \E b \in Block : Acceptable(b) /\ chain' = Append(chain, b)
           \/ Len(chain) > 1 /\ chain' = SubSeq(chain, 1, Len(chain) - 1)
    PROVE  BlocksMined'
<1>1. Len(chain) \in Nat
    BY ChainFacts
<1>2. ASSUME NEW b \in Block, Acceptable(b), chain' = Append(chain, b)
      PROVE  BlocksMined'
    <2>1. /\ Len(chain') = Len(chain) + 1 /\ chain'[Len(chain) + 1] = b
          /\ \A k \in 1 .. Len(chain) : chain'[k] = chain[k]
        BY <1>2, ChainPush
    <2>2. \A k \in 2 .. Len(chain') : k = Len(chain) + 1 \/ k \in 2 .. Len(chain)
        BY <1>1, <2>1
    <2>3. b.hash = Sha256(b.index, b.previousHash, b.data, b.nonce) /\ MeetsTarget(b.hash)
        BY <1>2, AcceptableMined
    <2> QED
        BY <1>1, <2>1, <2>2, <2>3 DEF BlocksMined
<1>3. CASE Len(chain) > 1 /\ chain' = SubSeq(chain, 1, Len(chain) - 1)
    <2>1. Len(chain') = Len(chain) - 1 /\ \A k \in 1 .. Len(chain') : chain'[k] = chain[k]
        BY <1>3, ChainPop
    <2>2. \A k \in 2 .. Len(chain') : k \in 2 .. Len(chain) /\ chain'[k] = chain[k]
        BY <1>1, <2>1
    <2> QED
        BY <2>2 DEF BlocksMined
<1> QED
    BY <1>2, <1>3

\* toJSON of a chain of mined blocks.
LEMMA MinedEntry ==
    ASSUME NEW pcs, NodeInv(pcs), MinedInv, NEW i \in Nat, i < Len(chain),
           NEW json, WellFormed(json)
    PROVE  WellFormed(PutEntry(json, chain[i + 1]))
<1>1. i + 1 \in 1 .. Len(chain) /\ chain[i + 1] \in Block
    BY ChainFacts DEF NodeInv
<1>2. chain[i + 1].index > 0 => Acceptable(chain[i + 1])
    <2>1. CASE i = 0
        BY <2>1, GenesisFacts DEF NodeInv, ChainInv
    <2>2. CASE i # 0
        BY <1>1, <2>2, AcceptableMined DEF MinedInv, BlocksMined
    <2> QED
        BY <2>1, <2>2
<1> QED
    BY <1>1, <1>2, PutEntryWellFormed

\* A process starts with mined blocks and no document.
LEMMA StartMined ==
    /\ NodeInit => MinedInv
    /\ NodeRestart => MinedInv'
<1>1. WellFormed(EmptyJson)
    BY EmptyDocument
<1>2. CliIdle.json = EmptyJson /\ CliIdle.pc # "push" /\ SrvIdle.json = EmptyJson
    BY DEF CliIdle, SrvIdle
<1>3. \A c \in StartChains : \A k \in 2 .. Len(c) :
          LET b == c[k] IN b.hash = Sha256(b.index, b.previousHash, b.data, b.nonce)
                           /\ MeetsTarget(b.hash)
    BY StartFacts, AcceptableMined
<1> QED
    BY <1>1, <1>2, <1>3 DEF NodeInit, NodeRestart, MinedInv, BlocksMined, EmitsWellFormed

\* No shared step stores a block that was not mined, or sends one.
LEMMA SharedMined ==
    ASSUME NEW pcs, CliPcs \subseteq pcs, NodeInv(pcs), MinedInv, SharedNext(pcs)
    PROVE  MinedInv'
<1>1. /\ cli \in CliLocals(pcs) /\ srv \in SrvLocals /\ Len(chain) \in Nat
      /\ WellFormed(cli.json) /\ WellFormed(srv.json) /\ WellFormed(EmptyJson)
      /\ WellFormed([EmptyJson EXCEPT !.length = Len(chain)])
    BY ChainFacts, EmptyDocument DEF NodeInv, CliInv, SrvInv, MinedInv, EmitsWellFormed
<1>2. CASE \/ \E d \in Data, next \in Before(pcs) : CliBegin(d, next)
           \/ CliReadNum \/ CliReadPrev \/ CliDump \/ CliPost
    <2>1. UNCHANGED <<chain, srv>> /\ cli'.json = cli.json /\ cli'.pc # "push"
        <3>1. CASE \E d \in Data, next \in Before(pcs) : CliBegin(d, next)
            BY <1>1, <3>1 DEF CliBegin, CliLocals, Before
        <3>2. CASE CliReadNum \/ CliReadPrev
            BY <1>1, <3>2 DEF CliReadNum, CliReadPrev, CliLocals
        <3>3. CASE CliDump \/ CliPost
            BY <1>1, <3>3 DEF CliDump, CliPost, CliLocals
        <3> QED
            BY <1>2, <3>1, <3>2, <3>3
    <2> QED
        BY <1>1, <2>1, MinedUnmoved
<1>3. CASE CliSent \/ CliMenu
    <2>1. UNCHANGED <<chain, srv>> /\ cli'.json = EmptyJson /\ cli'.pc # "push"
        BY <1>3 DEF CliSent, CliMenu, Fresh, CliIdle
    <2> QED
        BY <1>1, <2>1, MinedUnmoved
<1>4. CASE CliLength
    <2>1. /\ UNCHANGED <<chain, srv>> /\ cli'.pc # "push"
          /\ cli'.json = [EmptyJson EXCEPT !.length = Len(chain)]
        BY <1>1, <1>4 DEF CliLength, CliLocals
    <2> QED
        BY <1>1, <2>1, MinedUnmoved
<1>5. CASE CliEntry
    <2>1. /\ UNCHANGED <<chain, srv>> /\ cli'.pc # "push"
          /\ cli'.json = PutEntry(cli.json, chain[cli.i + 1])
          /\ cli.i \in Nat /\ cli.i < Len(chain)
        BY <1>1, <1>5 DEF CliEntry, CliLocals
    <2> QED
        BY <1>1, <2>1, MinedEntry, MinedUnmoved
<1>6. CASE CliCheck("verify")
    <2>1. CASE Acceptable(Mined) /\ cli.num = Len(chain)
        <3>1. /\ UNCHANGED <<chain, srv>> /\ cli'.json = cli.json /\ Mined' = Mined
            BY <1>1, <1>6, <2>1 DEF CliCheck, CliLocals, Mined
        <3>2. BlocksMined' /\ EmitsWellFormed'
            BY <3>1 DEF MinedInv, BlocksMined, EmitsWellFormed
        <3>3. Acceptable(Mined')
            BY <2>1, <3>1
        <3> QED
            BY <3>2, <3>3 DEF MinedInv, Acceptable, HeaderMatches
    <2>2. CASE ~(Acceptable(Mined) /\ cli.num = Len(chain))
        <3>1. UNCHANGED <<chain, srv>> /\ cli'.json = EmptyJson /\ cli'.pc # "push"
            BY <1>6, <2>2 DEF CliCheck, Fresh, CliIdle
        <3> QED
            BY <1>1, <3>1, MinedUnmoved
    <2> QED
        BY <2>1, <2>2
<1>7. CASE CliPush("verify") \/ Collide("verify")
    <2>1. cli'.json = EmptyJson /\ cli'.pc # "push" /\ srv'.json = srv.json
        <3>1. CASE CliPush("verify")
            BY <3>1 DEF CliPush, Fresh, CliIdle
        <3>2. CASE Collide("verify")
            BY <1>1, <3>2 DEF Collide, Fresh, CliIdle, SrvLocals
        <3> QED
            BY <1>7, <3>1, <3>2
    <2>2. Mined \in Block /\ Acceptable(Mined)
        BY <1>7, MinedFacts DEF CliPush, Collide, MinedInv
    <2>3. srv.pc = "push" => /\ Entry(srv.content, srv.i) \in Block
                             /\ Acceptable(Entry(srv.content, srv.i))
        BY OfferFacts DEF Refilling, NodeInv, SrvInv
    <2>4. BlocksMined'
        BY <1>7, <2>2, <2>3, MinedChain DEF CliPush, Collide, NodeInv, MinedInv
    <2> QED
        BY <1>1, <2>1, <2>4 DEF MinedInv, EmitsWellFormed
<1>8. CASE SrvPop \/ SrvPush
    <2>1. UNCHANGED cli /\ srv'.json = srv.json
        BY <1>1, <1>8 DEF SrvPop, SrvPush, SrvLocals
    <2>2. srv.pc = "push" => /\ Entry(srv.content, srv.i) \in Block
                             /\ Acceptable(Entry(srv.content, srv.i))
        BY OfferFacts DEF Refilling, NodeInv, SrvInv
    <2>3. BlocksMined'
        BY <1>8, <2>2, MinedChain DEF SrvPop, SrvPush, NodeInv, MinedInv
    <2> QED
        BY <2>1, <2>3 DEF MinedInv, EmitsWellFormed, Mined
<1>9. CASE SrvRequest \/ SrvReplaced \/ SrvReply \/ SrvThrow
    <2>1. UNCHANGED <<chain, cli>>
        BY <1>9 DEF SrvRequest, SrvAddNode, SrvNewChain, SrvLatest, SrvReplaced, SrvReply, SrvThrow
    <2>2. WellFormed(srv'.json)
        <3>1. CASE SrvRequest
            BY <1>1, <3>1 DEF SrvRequest, SrvAddNode, SrvNewChain, SrvLatest, SrvLocals
        <3>2. CASE SrvReplaced \/ SrvReply \/ SrvThrow
            BY <1>1, <3>2 DEF SrvReplaced, SrvReply, SrvThrow, SrvIdle
        <3> QED
            BY <1>9, <3>1, <3>2
    <2> QED
        BY <1>1, <2>1, <2>2, MinedUnmoved
<1>10. CASE SrvEntry \/ SrvDump \/ SrvPopped \/ SrvOffer \/ SrvFilled
    <2>1. UNCHANGED <<chain, cli>>
        BY <1>10 DEF SrvEntry, SrvDump, SrvPopped, SrvOffer, SrvFilled
    <2>2. WellFormed(srv'.json)
        <3>1. CASE SrvEntry
            <4>1. /\ srv'.json = PutEntry(srv.json, chain[srv.i + 1])
                  /\ srv.i \in Nat /\ srv.i < Len(chain)
                BY <1>1, <3>1 DEF SrvEntry, SrvLocals
            <4> QED
                BY <1>1, <4>1, MinedEntry
        <3>2. CASE SrvDump \/ SrvPopped \/ SrvOffer \/ SrvFilled
            BY <1>1, <3>2 DEF SrvDump, SrvPopped, SrvOffer, SrvFilled, SrvLocals
        <3> QED
            BY <1>10, <3>1, <3>2
    <2> QED
        BY <1>1, <2>1, <2>2, MinedUnmoved
<1>11. CASE NodeRestart
    BY <1>11, StartMined
<1> QED
    BY <1>2, <1>3, <1>4, <1>5, <1>6, <1>7, <1>8, <1>9, <1>10, <1>11
       DEF SharedNext, CliShared, SrvShared

-----------------------------------------------------------------------------
(* LatestComplete: the document has a block in each of its slots because each *)
(* block of the chain has the index of its place, and no block is taken off   *)
(* while the handler runs.                                                    *)

\* Each block is where its index says, unless the two threads appended at once.
IndexInv == ~seen.broken => \A k \in 1 .. Len(chain) : chain[k].index = k - 1

\* The slots toJSON has been through are full, and it has a block for the others.
ServeInv ==
    srv.pc = "entries" /\ ~seen.broken =>
        /\ srv.json.length <= Len(chain)
        /\ \A a \in 0 .. srv.i - 1 : Entry(srv.json, a) # Null

LatestInv == IndexInv /\ ServeInv /\ LatestComplete

\* A block is dropped; a chain cut back to genesis is in order again.
LEMMA IndexPop ==
    ASSUME NEW pcs, NodeInv(pcs), IndexInv, Len(chain) > 1,
           chain' = SubSeq(chain, 1, Len(chain) - 1),
           seen'.broken = (seen.broken /\ Len(chain) > 2)
    PROVE  IndexInv'
<1> SUFFICES ASSUME ~seen'.broken, NEW k \in 1 .. Len(chain')
             PROVE  chain'[k].index = k - 1
    BY DEF IndexInv
<1>1. /\ Len(chain) \in Nat /\ Len(chain') = Len(chain) - 1 /\ chain'[k] = chain[k]
      /\ chain[1] = Genesis
    BY ChainPop, ChainFacts DEF NodeInv, ChainInv
<1>2. ~seen.broken \/ ~(Len(chain) > 2)
    BY Zenon
<1>3. CASE ~seen.broken
    <2>1. k \in 1 .. Len(chain)
        BY <1>1
    <2> QED
        BY <1>1, <1>3, <2>1 DEF IndexInv
<1>4. CASE ~(Len(chain) > 2)
    BY <1>1, <1>4, GenesisFacts
<1> QED
    BY <1>2, <1>3, <1>4

\* A block is appended where it belongs.
LEMMA IndexPush ==
    ASSUME NEW pcs, NodeInv(pcs), IndexInv, NEW b \in Block, chain' = Append(chain, b),
           ~seen'.broken => ~seen.broken /\ b.index = Len(chain)
    PROVE  IndexInv'
<1>1. /\ Len(chain) \in Nat /\ Len(chain') = Len(chain) + 1 /\ chain'[Len(chain) + 1] = b
      /\ \A k \in 1 .. Len(chain) : chain'[k] = chain[k]
    BY ChainPush, ChainFacts DEF NodeInv
<1>2. \A k \in 1 .. Len(chain') : k = Len(chain) + 1 \/ k \in 1 .. Len(chain)
    BY <1>1
<1> QED
    BY <1>1, <1>2 DEF IndexInv

\* Each block stays where its index says.
LEMMA SharedIndex ==
    ASSUME NEW pcs, CliPcs \subseteq pcs, NodeInv(pcs), LinkInv, IndexInv, SharedNext(pcs)
    PROVE  IndexInv'
<1>1. CASE UNCHANGED chain /\ seen'.broken = seen.broken
    BY <1>1 DEF IndexInv
<1>2. CASE SrvPop
    BY <1>2, IndexPop, DisturbedFacts DEF SrvPop
<1>3. CASE SrvPush
    <2>1. Refilling /\ Entry(srv.content, srv.i) # Null
        BY <1>3 DEF SrvPush, Refilling, NodeInv, SrvInv
    <2>2. Entry(srv.content, srv.i) \in Block /\ Entry(srv.content, srv.i).index = srv.i
        BY <2>1, OfferFacts
    <2>3. ~seen.broken => srv.i = Len(chain)
        BY <1>3, <2>1 DEF SrvPush, LinkInv, PrefixInv
    <2>4. seen'.broken = seen.broken /\ chain' = Append(chain, Entry(srv.content, srv.i))
        BY <1>3, DisturbedFacts DEF SrvPush
    <2> QED
        BY <2>2, <2>3, <2>4, IndexPush
<1>4. CASE CliPush("verify")
    <2>1. Mined \in Block /\ Mined.index = cli.num /\ cli.todo = {}
        BY <1>4, MinedFacts DEF CliPush, Mined, NewBlock, NodeInv, CliInv
    <2>2. ~seen'.broken => ~seen.broken /\ seen.stable
        BY <1>4 DEF CliPush, Calm
    <2>3. seen.stable => cli.num = Len(chain)
        BY <1>4, <2>1 DEF CliPush, LinkInv, StableInv, ReadsCurrent
    <2> QED
        BY <1>4, <2>1, <2>2, <2>3, IndexPush DEF CliPush
<1>5. CASE Collide("verify")
    <2>1. CASE srv.pc = "push"
        BY <1>5, <2>1 DEF Collide, Calm, IndexInv
    <2>2. CASE srv.pc # "push"
        BY <1>5, <2>2, IndexPop DEF Collide, Calm
    <2> QED
        BY <2>1, <2>2
<1>6. CASE NodeRestart
    BY <1>6, StartFacts DEF NodeRestart, IndexInv
<1>7. CASE \/ \E d \in Data, next \in Before(pcs) : CliBegin(d, next)
           \/ CliShared \/ CliMenu \/ CliCheck("verify")
    BY <1>1, <1>7 DEF CliBegin, CliShared, CliCheck, CliMenu, CliReadNum, CliReadPrev,
                      CliLength, CliEntry, CliDump, CliPost, CliSent, Calm, NodeInv
<1>8. CASE \/ SrvRequest \/ SrvReplaced \/ SrvEntry \/ SrvDump \/ SrvReply
           \/ SrvPopped \/ SrvOffer \/ SrvThrow \/ SrvFilled
    BY <1>1, <1>8 DEF SrvRequest, SrvAddNode, SrvNewChain, SrvLatest, SrvReplaced, SrvEntry,
                      SrvDump, SrvReply, SrvPopped, SrvOffer, SrvThrow, SrvFilled
<1> QED
    BY <1>2, <1>3, <1>4, <1>5, <1>6, <1>7, <1>8 DEF SharedNext, SrvShared

\* The handler that serves the chain finds a block for each slot.
LEMMA SharedServe ==
    ASSUME NEW pcs, CliPcs \subseteq pcs, NodeInv(pcs), IndexInv, ServeInv, LatestComplete,
           SharedNext(pcs)
    PROVE  ServeInv' /\ LatestComplete'
<1>1. /\ srv \in SrvLocals /\ srv.i \in Nat /\ srv.json \in Json /\ srv.json.length \in Nat
      /\ Len(chain) \in Nat
    BY ChainFacts DEF NodeInv, SrvInv, SrvLocals, Json
<1>2. CASE srv'.pc \notin {"entries", "reply"}
    BY <1>2 DEF ServeInv, LatestComplete
<1>3. CASE UNCHANGED <<chain, srv>> /\ seen'.broken = seen.broken
    BY <1>3 DEF ServeInv, LatestComplete
<1>4. CASE SrvLatest
    <2>1. srv'.pc = "entries" /\ srv'.i = 0 /\ srv'.json = [EmptyJson EXCEPT !.length = Len(chain)]
        BY <1>1, <1>4 DEF SrvLatest, SrvLocals
    <2>2. srv'.json.length = Len(chain) /\ UNCHANGED chain
        BY <1>4, <2>1 DEF EmptyJson, SrvLatest
    <2> QED
        BY <1>1, <2>1, <2>2 DEF ServeInv, LatestComplete
<1>5. CASE SrvEntry
    <2>1. /\ srv.pc = "entries" /\ srv'.pc = "entries" /\ srv'.i = srv.i + 1 /\ srv.i < Len(chain)
          /\ srv'.json = PutEntry(srv.json, chain[srv.i + 1]) /\ UNCHANGED <<chain, seen>>
        BY <1>1, <1>5 DEF SrvEntry, SrvLocals
    <2>2. /\ srv.i + 1 \in 1 .. Len(chain) /\ chain[srv.i + 1] \in Block
          /\ ~seen.broken => chain[srv.i + 1].index = srv.i
        BY <1>1, <2>1, ChainFacts DEF NodeInv, IndexInv
    <2>3. srv'.json.length = srv.json.length
        BY <1>1, <2>1, <2>2, PutEntryFacts
    <2>4. ASSUME ~seen.broken, NEW a \in 0 .. srv.i
          PROVE  Entry(srv'.json, a) # Null
        <3>1. a \in Nat /\ (a = srv.i \/ a \in 0 .. srv.i - 1)
            BY <1>1
        <3>2. a = chain[srv.i + 1].index \/ Entry(srv.json, a) # Null
            BY <2>1, <2>2, <2>4, <3>1 DEF ServeInv
        <3>3. Entry(PutEntry(srv.json, chain[srv.i + 1]), a) # Null
            BY <1>1, <2>2, <3>1, <3>2, PutEntryFills
        <3> QED
            BY <2>1, <3>3
    <2>5. srv'.i - 1 = srv.i
        BY <1>1, <2>1
    <2> QED
        BY <2>1, <2>3, <2>4, <2>5 DEF ServeInv, LatestComplete
<1>6. CASE SrvDump
    <2>1. /\ srv.pc = "entries" /\ srv'.pc = "reply" /\ srv.i >= Len(chain)
          /\ srv'.json = srv.json /\ UNCHANGED <<chain, seen>>
        BY <1>1, <1>6 DEF SrvDump, SrvLocals
    <2>2. ASSUME ~seen.broken, NEW a \in 0 .. srv.json.length - 1
          PROVE  Entry(srv.json, a) # Null
        <3>1. a \in 0 .. srv.i - 1
            BY <1>1, <2>1, <2>2 DEF ServeInv
        <3> QED
            BY <2>1, <2>2, <3>1 DEF ServeInv
    <2> QED
        BY <2>1, <2>2 DEF ServeInv, LatestComplete
<1>7. CASE CliPush("verify")
    <2>1. UNCHANGED srv /\ (~seen'.broken => ~seen.broken)
        BY <1>7 DEF CliPush, Calm
    <2>2. Len(chain') = Len(chain) + 1
        BY <1>7, MinedFacts, ChainPush DEF CliPush, NodeInv
    <2>3. srv.json.length <= Len(chain) => srv.json.length <= Len(chain')
        BY <1>1, <2>2
    <2> QED
        BY <2>1, <2>3 DEF ServeInv, LatestComplete
<1>8. CASE SrvPop \/ SrvPush \/ SrvPopped \/ SrvOffer \/ SrvFilled \/ SrvNewChain
           \/ Collide("verify")
    <2>1. CASE SrvPop \/ SrvPush \/ Collide("verify")
        BY <1>1, <1>2, <2>1 DEF SrvPop, SrvPush, Collide, SrvLocals
    <2>2. CASE SrvPopped \/ SrvOffer
        BY <1>1, <1>2, <2>2 DEF SrvPopped, SrvOffer, SrvLocals
    <2>3. CASE SrvFilled \/ SrvNewChain
        BY <1>1, <1>2, <2>3 DEF SrvFilled, SrvNewChain, SrvLocals
    <2> QED
        BY <1>8, <2>1, <2>2, <2>3
<1>9. CASE SrvReplaced \/ SrvReply \/ SrvThrow \/ NodeRestart
    BY <1>2, <1>9 DEF SrvReplaced, SrvReply, SrvThrow, NodeRestart, SrvIdle
<1>10. CASE \/ \E d \in Data, next \in Before(pcs) : CliBegin(d, next)
            \/ CliShared \/ CliMenu \/ CliCheck("verify")
            \/ \E p \in Ports : SrvAddNode(p)
    BY <1>3, <1>10 DEF CliBegin, CliShared, CliCheck, CliMenu, CliReadNum, CliReadPrev,
                       CliLength, CliEntry, CliDump, CliPost, CliSent, Calm, SrvAddNode, NodeInv
<1> QED
    BY <1>4, <1>5, <1>6, <1>7, <1>8, <1>9, <1>10 DEF SharedNext, SrvShared, SrvRequest

\* A process starts with each block in its place and nothing served.
LEMMA StartLatest ==
    ASSUME NodeInit
    PROVE  LatestInv
<1>1. srv.pc = "idle"
    BY DEF NodeInit, SrvIdle
<1> QED
    BY <1>1, StartFacts DEF NodeInit, LatestInv, IndexInv, ServeInv, LatestComplete

=============================================================================
