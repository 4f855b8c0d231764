--------------------------- MODULE CpuNodeProofs ---------------------------
(***************************************************************************)
(* Safety of the CPU node, for any messages, documents, ports and bounds.  *)
(***************************************************************************)
EXTENDS CpuLedger, NodeProofs, FiniteSetTheorems

Inv == NodeInv(CliPcs) /\ MinedInv

\* What holds besides of a chain that both threads write.
RaceInv == LinkInv /\ QuietInv(CliPcs) /\ NoneRefused /\ InstalledWhole /\ LatestInv

\* The search of findHash, and the rounds of isChainValid.
LEMMA CpuSteps ==
    ASSUME Inv, CliFindHash \/ CliVerify \/ CliValid
    PROVE  Inv'
<1>1. CASE CliFindHash
    <2>1. PICK n \in Golden : CliMined(Sha256(cli.num, cli.prev, cli.data, n), n)
        BY <1>1 DEF CliFindHash
    <2>2. /\ cli.num \in Nat /\ cli.prev \in Hash /\ n \in Nonces
          /\ cli.data \in Payload /\ cli.pc \notin NoBlock
        BY <1>1 DEF Inv, NodeInv, CliInv, CliLocals, NoBlock, Payload, Nonces, CliFindHash
    <2>3. NodeInv(CliPcs)'
        BY <2>1, <2>2, Sha256Facts, SearchInv DEF Inv
    <2>4. UNCHANGED <<chain, srv>> /\ cli'.pc = "args" /\ cli'.json = EmptyJson
        BY <2>1 DEF CliMined, Fresh, CliIdle
    <2>5. WellFormed(EmptyJson)
        BY EmptyDocument
    <2> QED
        BY <2>3, <2>4, <2>5, MinedUnmoved DEF Inv, MinedInv, EmitsWellFormed
<1>2. CASE CliVerify \/ CliValid
    <2>1. cli \in CliLocals(CliPcs) /\ cli.i + 1 \in Nat /\ "length" \in CliPcs
        BY DEF Inv, NodeInv, CliInv, CliLocals, CliPcs
    <2>2. cli' \in CliLocals(CliPcs) /\ cli'.pc \in NoBlock /\ cli'.json = cli.json
        <3>1. CASE CliVerify
            BY <2>1, <3>1 DEF CliVerify, CliLocals, NoBlock
        <3>2. CASE CliValid
            BY <2>1, <3>2 DEF CliValid, CliLocals, NoBlock
        <3> QED
            BY <1>2, <3>1, <3>2
    <2>3. CliInv(CliPcs)'
        BY <2>1, <2>2 DEF CliInv, NoBlock
    <2>4. UNCHANGED <<chain, srv>> /\ cli'.pc # "push"
        BY <1>2, <2>2 DEF CliVerify, CliValid, NoBlock
    <2>5. MinedInv'
        BY <2>2, <2>4, MinedUnmoved DEF Inv, MinedInv, EmitsWellFormed
    <2> QED
        BY <1>2, <2>3, <2>5, OtherThread DEF CliVerify, CliValid, Inv, NodeInv
<1> QED
    BY <1>1, <1>2

\* A step of the CPU node is a shared step or one of the three above.
LEMMA CpuNext ==
    ASSUME Next
    PROVE  SharedNext(CliPcs) \/ CliFindHash \/ CliVerify \/ CliValid
<1>1. "header" \in Before(CliPcs)
    BY DEF Before, CliPcs, NoBlock
<1> QED
    BY <1>1 DEF Next, Work, CliNext, SrvNext, SharedNext, CliInvalid

\* The steps of the CPU node alone keep what is known of races: the search works
\* on the header it was given, and isChainValid writes nothing.
LEMMA CpuRace ==
    ASSUME Inv, RaceInv, CliFindHash \/ CliVerify \/ CliValid
    PROVE  RaceInv'
<1>1. CASE CliFindHash
    <2>1. PICK n \in Golden : CliMined(Sha256(cli.num, cli.prev, cli.data, n), n)
        BY <1>1 DEF CliFindHash
    <2>2. /\ cli.num \in Nat /\ cli.prev \in Hash /\ n \in Nonces
          /\ cli.data \in Payload /\ cli.pc \in Before(CliPcs) /\ cli.todo = {}
        BY <1>1 DEF Inv, NodeInv, CliInv, CliLocals, NoBlock, Payload, Nonces, CliFindHash,
                    Before, CliPcs
    <2>3. LinkInv'
        BY <2>1, <2>2, Sha256Facts, LinkCli DEF Inv, RaceInv
    <2>4. UNCHANGED <<chain, srv>> /\ seen'.quiet = seen.quiet /\ seen'.broken = seen.broken
          /\ seen'.stable
        BY <2>1 DEF CliMined, Inv, NodeInv
    <2>5. /\ cli'.pc = "args" /\ cli'.data = cli.data /\ cli'.nonce = n
          /\ cli'.hash = Sha256(cli.num, cli.prev, cli.data, n)
        BY <2>1 DEF CliMined, Fresh, CliIdle
    <2>6. QuietInv(CliPcs)'
        <3>1. seen.quiet => cli.num = Len(chain) /\ cli.prev = chain[Len(chain)].hash
            BY <2>2 DEF RaceInv, QuietInv, ReadsCurrent
        <3> QED
            BY <2>4, <2>5, <3>1 DEF QuietInv, Before
    <2>7. InstalledWhole'
        BY <2>4 DEF RaceInv, InstalledWhole
    <2>8. NoneRefused' /\ LatestInv'
        BY <2>4 DEF RaceInv, NoneRefused, LatestInv, IndexInv, ServeInv, LatestComplete
    <2> QED
        BY <2>3, <2>6, <2>7, <2>8 DEF RaceInv
<1>2. CASE CliVerify \/ CliValid
    <2>1. UNCHANGED <<chain, srv, seen>> /\ cli'.pc \in NoBlock
        BY <1>2 DEF CliVerify, CliValid, NoBlock, Inv, NodeInv, CliInv, CliLocals
    <2>2. LinkInv'
        <3>1. StableInv'
            BY <2>1 DEF StableInv, NoBlock
        <3> QED
            BY <2>1, <3>1, LinkUnmoved DEF Inv, RaceInv
    <2>3. QuietInv(CliPcs)'
        BY <2>1, QuietOver DEF RaceInv, QuietInv
    <2> QED
        BY <2>1, <2>2, <2>3 DEF RaceInv, NoneRefused, InstalledWhole, LatestInv, IndexInv, ServeInv,
                                LatestComplete
<1> QED
    BY <1>1, <1>2

\* Every step keeps the invariant.
LEMMA InvStep ==
    ASSUME Inv, [Next]_nodeVars
    PROVE  Inv'
<1>1. CASE Next
    BY <1>1, CpuNext, CpuSteps, SharedInv, SharedMined DEF Inv
<1>2. CASE UNCHANGED nodeVars
    <2>1. MinedInv'
        BY <1>2, MinedUnmoved DEF nodeVars, Inv, MinedInv, EmitsWellFormed
    <2> QED
        BY <1>2, <2>1, OtherThread DEF nodeVars, Inv, NodeInv
<1> QED
    BY <1>1, <1>2

\* ... and what is known of races with it.
LEMMA RaceStep ==
    ASSUME Inv, RaceInv, [Next]_nodeVars
    PROVE  RaceInv'
<1>1. CASE Next
    <2>1. CASE SharedNext(CliPcs)
        <3>1. LinkInv' /\ QuietInv(CliPcs)' /\ NoneRefused' /\ InstalledWhole'
            BY <2>1, SharedLink, SharedQuiet, SharedRefused, SharedInstalled DEF Inv, RaceInv
        <3>2. LatestInv'
            BY <2>1, SharedIndex, SharedServe DEF Inv, RaceInv, LatestInv
        <3> QED
            BY <3>1, <3>2 DEF RaceInv
    <2> QED
        BY <1>1, <2>1, CpuNext, CpuRace
<1>2. CASE UNCHANGED nodeVars
    BY <1>2 DEF nodeVars, RaceInv, LinkInv, StableInv, ReadsCurrent, PrefixInv, Refilling,
                LinkedDocs, Linked, QuietInv, Before, NoneRefused, InstalledWhole,
                LatestInv, IndexInv, ServeInv, LatestComplete
<1> QED
    BY <1>1, <1>2

\* The inductive invariant holds in every state of every run.
THEOREM Invariance == Spec => []Inv
<1>1. Init => Inv
    BY StartInv, StartMined DEF Init, Inv
<1>2. Inv /\ [Next]_nodeVars => Inv'
    BY InvStep
<1> QED
    BY <1>1, <1>2, PTL DEF Spec

\* So does what is known of races.
THEOREM RaceInvariance == Spec => []RaceInv
<1>1. Init => RaceInv
    BY StartLink, StartLatest DEF Init, RaceInv
<1>2. Inv /\ RaceInv /\ [Next]_nodeVars => RaceInv'
    BY RaceStep
<1> QED
    BY <1>1, <1>2, Invariance, PTL DEF Spec

\* Every variable always holds what its C++ counterpart can hold; in particular
\* the chain is never empty, which getLatestBlockHash relies on.
THEOREM TypeCorrect == Spec => []TypeOK
<1>1. Inv => TypeOK
    BY NodeInvImplies DEF Inv, TypeOK
<1> QED
    BY <1>1, Invariance, PTL

\* addBlock is the only way in: whichever thread stores a block, and whatever
\* the other does between the test and the push_back, it is a mined block.
THEOREM OnlyMinedBlocks == Spec => []BlocksMined
<1>1. Inv => BlocksMined
    BY DEF Inv, MinedInv
<1> QED
    BY <1>1, Invariance, PTL

\* The documents a node sends are of the kind it is assumed to receive, so the
\* assumption on Contents holds of a network of these nodes.
THEOREM Closed == Spec => []EmitsWellFormed
<1>1. Inv => EmitsWellFormed
    BY DEF Inv, MinedInv
<1> QED
    BY <1>1, Invariance, PTL

\* A node that is sent nothing but linked documents holds a linked chain at every
\* step, unless its own command line appends while a handler replaces the chain.
THEOREM LinkedUnlessRaced == Spec => []CorruptionNeedsRace
<1>1. LinkInv => CorruptionNeedsRace
    BY DEF LinkInv, LinkedDocs, CorruptionNeedsRace
<1>2. RaceInv => LinkInv
    BY DEF RaceInv
<1> QED
    BY <1>1, <1>2, RaceInvariance, PTL

\* Reading addBlock's arguments again after the search, in any order, is harmless
\* as long as no handler writes the chain during the command.
THEOREM QuietCommandsAppend == Spec => []QuietAppend
<1>1. Inv /\ RaceInv => QuietAppend
    BY QuietFits DEF Inv, RaceInv
<1> QED
    BY <1>1, Invariance, RaceInvariance, PTL

\* replaceChain, if it ends without an exception and without a race, has stored
\* every block of the document, however long.
THEOREM ReplacementsInstall == Spec => []InstalledWhole
<1>1. RaceInv => InstalledWhole
    BY DEF RaceInv
<1> QED
    BY <1>1, RaceInvariance, PTL

\* A node that is asked for its chain answers with a block for each index below the
\* length it names, however often its command line appends meanwhile.
THEOREM LatestIsComplete == Spec => []LatestComplete
<1>1. RaceInv => LatestComplete
    BY DEF RaceInv, LatestInv
<1> QED
    BY <1>1, RaceInvariance, PTL

-----------------------------------------------------------------------------
(* Ledger: the handler stays within the document it replaces the chain by. *)

WithinInv ==
    /\ srv.pc = "pop" => srv.content.length >= 2
    /\ srv.pc = "add" => srv.i <= srv.content.length
    /\ srv.pc = "push" => srv.i < srv.content.length

\* Every step keeps the handler within the document.
LEMMA WithinStep ==
    ASSUME Inv, WithinInv, [Work]_nodeVars
    PROVE  WithinInv'
<1>1. /\ srv \in SrvLocals /\ srv.i \in Nat /\ Len(chain) \in Nat /\ Len(chain) >= 1
      /\ srv.pc \in {"pop", "add", "push", "replaced"} => srv.content.length \in Nat
    BY ChainFacts, NodeAssumption DEF Inv, NodeInv, SrvInv, SrvLocals, ChainInv, WellFormed, Json
<1>2. CASE UNCHANGED srv
    BY <1>2 DEF WithinInv
<1>3. CASE SrvLatest \/ SrvEntry \/ SrvDump \/ SrvFilled
    <2>1. srv'.pc \in {"entries", "reply", "replaced"}
        BY <1>1, <1>3 DEF SrvLatest, SrvEntry, SrvDump, SrvFilled, SrvLocals
    <2> QED
        BY <2>1 DEF WithinInv
<1>4. CASE SrvReply \/ SrvThrow \/ SrvReplaced
    BY <1>4 DEF SrvReply, SrvThrow, SrvReplaced, SrvIdle, WithinInv
<1>5. CASE SrvNewChain
    <2>1. PICK c \in Contents : /\ c.length > Len(chain)
                               /\ srv' = [srv EXCEPT !.pc = "pop", !.content = c]
        BY <1>5 DEF SrvNewChain
    <2>2. c.length \in Nat
        BY NodeAssumption DEF WellFormed, Json
    <2>3. srv'.pc = "pop" /\ srv'.content = c
        BY <1>1, <2>1 DEF SrvLocals
    <2> QED
        BY <1>1, <2>1, <2>2, <2>3 DEF WithinInv
<1>6. CASE SrvPopped
    <2>1. srv'.pc = "add" /\ srv'.i = 1 /\ srv'.content = srv.content /\ srv.pc = "pop"
        BY <1>1, <1>6 DEF SrvPopped, SrvLocals
    <2> QED
        BY <1>1, <2>1 DEF WithinInv
<1>7. CASE SrvOffer
    <2>1. /\ srv.pc = "add" /\ srv.i < srv.content.length /\ srv'.content = srv.content
          /\ \/ srv'.pc = "push" /\ srv'.i = srv.i
             \/ srv'.pc = "add" /\ srv'.i = srv.i + 1
        BY <1>1, <1>7 DEF SrvOffer, SrvLocals
    <2> QED
        BY <1>1, <2>1 DEF WithinInv
<1>8. CASE srv.pc = "push" /\ srv' = [srv EXCEPT !.pc = "add", !.i = @ + 1]
    <2>1. srv'.pc = "add" /\ srv'.i = srv.i + 1 /\ srv'.content = srv.content
        BY <1>1, <1>8 DEF SrvLocals
    <2> QED
        BY <1>1, <1>8, <2>1 DEF WithinInv
<1>9. CASE CliNext \/ \E d \in Data : CliBegin(d, "header")
    BY <1>2, <1>9 DEF CliBegin, CliNext, CliShared, CliReadNum, CliReadPrev, CliLength, CliEntry,
        CliDump, CliPost, CliSent, CliMenu, CliFindHash, CliMined, CliCheck, CliPush,
        CliVerify, CliInvalid, CliValid
<1>10. CASE SrvNext \/ SrvRequest
    BY <1>2, <1>3, <1>4, <1>5, <1>6, <1>7, <1>8, <1>10
       DEF SrvNext, SrvShared, SrvRequest, SrvAddNode, SrvPop, SrvPush
<1>11. CASE Collide("verify")
    BY <1>2, <1>8, <1>11 DEF Collide
<1> QED
    BY <1>2, <1>9, <1>10, <1>11 DEF Work, nodeVars

\* The slots a replacement has been through, when it gets no further.
LEMMA LeadingFacts ==
    ASSUME NEW c \in Contents, NEW n \in Nat, n >= 1, n <= c.length,
           \A j \in 2 .. n : Entry(c, j - 1) # Null,
           n < c.length => Entry(c, n) = Null
    PROVE  Cardinality(Leading(c)) = n
<1>1. c.length \in Nat
    BY NodeAssumption DEF WellFormed, Json
<1>2. Leading(c) = 1 .. n
    <2>1. ASSUME NEW k \in 1 .. n
          PROVE  k \in Leading(c)
        <3>1. k \in 1 .. c.length /\ \A j \in 2 .. k : j \in 2 .. n
            BY <1>1
        <3> QED
            BY <3>1 DEF Leading
    <2>2. ASSUME NEW k \in Leading(c), k \notin 1 .. n
          PROVE  FALSE
        <3>1. k \in 1 .. c.length /\ \A j \in 2 .. k : Entry(c, j - 1) # Null
            BY DEF Leading
        <3>2. n + 1 \in 2 .. k /\ n < c.length /\ (n + 1) - 1 = n
            BY <1>1, <2>2, <3>1
        <3> QED
            BY <3>1, <3>2
    <2> QED
        BY <2>1, <2>2
<1> QED
    BY <1>2, FS_Interval

\* A replacement that gets no further has made of the chain what it makes of its
\* document.
LEMMA ArrivedFacts ==
    ASSUME Inv, LinkInv, NoneRefused, WithinInv, ~seen.broken, srv.pc = "add",
           srv.i < srv.content.length => Entry(srv.content, srv.i) = Null
    PROVE  Installed(srv.content) = chain
<1> DEFINE c == srv.content
           n == Len(chain)
<1>1. /\ c \in Contents /\ c.length \in Nat /\ srv.i <= c.length /\ WellFormed(c)
      /\ n \in Nat /\ n >= 1 /\ chain \in Seq(Block) /\ chain[1] = Genesis
      /\ \A k \in 1 .. n : chain[k] \in Block
    BY ChainFacts, NodeAssumption
       DEF Inv, NodeInv, SrvInv, ChainInv, WellFormed, Json, WithinInv
<1>2. n = srv.i /\ \A k \in 2 .. n : k <= Len(c.data) /\ chain[k] = c.data[k]
    BY DEF LinkInv, PrefixInv, Refilling, NoneRefused
<1>3. \A j \in 2 .. n : Entry(c, j - 1) # Null
    <2> SUFFICES ASSUME NEW j \in 2 .. n
                 PROVE  Entry(c, j - 1) # Null
        OBVIOUS
    <2>1. Len(c.data) \in Nat
        BY <1>1, LenProperties DEF WellFormed, Json
    <2>2. j - 1 < Len(c.data) /\ (j - 1) + 1 = j /\ chain[j] \in Block
        BY <1>1, <1>2, <2>1
    <2>3. Entry(c, j - 1) = chain[j]
        BY <1>2, <2>2 DEF Entry
    <2> QED
        BY <2>2, <2>3, ChainAssumption
<1>4. Cardinality(Leading(c)) = n
    BY <1>1, <1>2, <1>3, LeadingFacts
<1>5. chain = [k \in 1 .. n |-> chain[k]]
    BY <1>1, LenProperties
<1>6. Installed(c) = [k \in 1 .. n |-> IF k = 1 THEN Genesis ELSE c.data[k]]
    BY <1>4 DEF Installed
<1>7. \A k \in 1 .. n : (IF k = 1 THEN Genesis ELSE c.data[k]) = chain[k]
    BY <1>1, <1>2
<1> QED
    BY <1>5, <1>6, <1>7

\* The ledger uses the operators of Chain as the node does.
LEMMA SameOperators ==
    /\ \A c : Atomic!Installed(c) = Installed(c)
    /\ \A b : Atomic!Acceptable(b) <=> Acceptable(b)
<1>1. Atomic!Genesis = Genesis
    BY DEF Atomic!Genesis, Genesis, Atomic!NewBlock, NewBlock, Atomic!Sha256, Sha256,
           Atomic!NoHash, NoHash
<1>2. \A c : Atomic!Installed(c) = Installed(c)
    <2> TAKE c
    <2>1. \A a : Atomic!Entry(c, a) = Entry(c, a)
        BY DEF Atomic!Entry, Entry
    <2>2. Atomic!Leading(c) = Leading(c)
        BY <2>1 DEF Atomic!Leading, Leading
    <2> QED
        BY <1>1, <2>2 DEF Atomic!Installed, Installed, Atomic!Cardinality, Cardinality
<1>3. \A b : Atomic!Acceptable(b) <=> Acceptable(b)
    BY DEF Atomic!Acceptable, Acceptable, Atomic!HeaderMatches, HeaderMatches,
           Atomic!MeetsTarget, MeetsTarget, Atomic!Sha256, Sha256, Atomic!NoHash, NoHash
<1> QED
    BY <1>2, <1>3

\* Steps of the command line but its append change nothing about the ledger.
LEMMA SettledCli ==
    ASSUME Inv,
           \/ \E d \in Data : CliBegin(d, "header")
           \/ CliShared \/ CliFindHash \/ CliCheck("verify")
           \/ CliVerify \/ CliInvalid \/ CliValid
    PROVE  UNCHANGED <<Settled, seen.broken>>
<1>1. UNCHANGED <<chain, srv>> /\ seen'.broken = seen.broken
    BY DEF CliBegin, CliShared, CliCheck, CliMenu, CliMined, CliReadNum, CliReadPrev,
           CliLength, CliEntry, CliDump, CliPost, CliSent, CliFindHash, CliVerify,
           CliInvalid, CliValid, Calm, Inv, NodeInv
<1> QED
    BY <1>1 DEF Settled, Replacing, Installed, Leading, Entry

\* The command line's append is an append to the ledger, or lost on a chain that is
\* about to go, or a race.
LEMMA SettledPush ==
    ASSUME Inv, LinkInv, CliPush("verify")
    PROVE  [Atomic!LedgerNext]_<<Settled, seen.broken>>
<1>1. /\ UNCHANGED srv /\ chain' = Append(chain, Mined) /\ cli.pc = "push"
      /\ seen'.broken = (seen.broken \/ Refilling \/ ~seen.stable)
      /\ seen.broken \in BOOLEAN
    BY DEF CliPush, Calm, Inv, NodeInv
<1>2. CASE seen.broken \/ Refilling \/ ~seen.stable
    BY <1>1, <1>2 DEF Atomic!LedgerNext, Atomic!Race
<1>3. CASE ~(seen.broken \/ Refilling \/ ~seen.stable)
    <2>1. ~seen.broken /\ seen'.broken = seen.broken
        BY <1>1, <1>3
    <2>2. CASE Replacing
        BY <1>1, <2>1, <2>2 DEF Settled, Replacing, Installed, Leading, Entry
    <2>3. CASE ~Replacing
        <3>1. Settled = chain /\ Settled' = chain'
            BY <1>1, <2>3 DEF Settled, Replacing
        <3>2. /\ Mined \in Block /\ Acceptable(Mined)
              /\ cli.num = Len(chain) /\ cli.prev = chain[Len(chain)].hash
            BY <1>1, <1>3, MinedFacts
               DEF LinkInv, StableInv, ReadsCurrent, Inv, MinedInv, NodeInv, CliInv
        <3>3. Mined.index = Len(chain) /\ Mined.previousHash = chain[Len(chain)].hash
            BY <3>2 DEF Mined, NewBlock
        <3>4. chain'[Len(chain')] = Mined
            BY <1>1, <3>2, ChainPush DEF Inv, NodeInv
        <3>5. Atomic!Store(Settled'[Len(Settled')])
            BY <1>1, <2>1, <3>1, <3>2, <3>3, <3>4, SameOperators DEF Atomic!Store
        <3> QED
            BY <3>5 DEF Atomic!LedgerNext
    <2> QED
        BY <2>2, <2>3
<1> QED
    BY <1>2, <1>3

\* A block is dropped: part of a replacement, unless the chain is beyond telling;
\* then it is repaired when no other block is left.
LEMMA SettledPop ==
    ASSUME Inv, srv.pc = "pop", UNCHANGED srv,
           seen'.broken = (seen.broken /\ Len(chain) > 2)
    PROVE  [Atomic!LedgerNext]_<<Settled, seen.broken>>
<1>1. /\ srv.content \in Contents /\ seen.broken \in BOOLEAN /\ seen'.broken \in BOOLEAN
    BY DEF Inv, NodeInv, SrvInv
<1>2. CASE seen'.broken
    BY <1>1, <1>2 DEF Atomic!LedgerNext, Atomic!Race
<1>3. CASE ~seen'.broken
    <2>1. Settled' = Installed(srv.content)
        BY <1>3 DEF Settled, Replacing, Installed, Leading, Entry
    <2>2. CASE seen.broken
        <3>1. Atomic!Repair(srv.content)
            BY <1>1, <1>3, <2>1, <2>2, SameOperators DEF Atomic!Repair
        <3> QED
            BY <1>1, <3>1 DEF Atomic!LedgerNext
    <2>3. CASE ~seen.broken
        <3>1. Settled = Installed(srv.content)
            BY <2>3 DEF Settled, Replacing
        <3> QED
            BY <1>1, <1>3, <2>1, <2>3, <3>1
    <2> QED
        BY <2>2, <2>3
<1> QED
    BY <1>2, <1>3

\* The handlers' steps: a replacement takes effect at once, and what follows fills
\* in what has been decided.
LEMMA SettledServer ==
    ASSUME Inv, LinkInv, NoneRefused, WithinInv, SrvRequest \/ SrvNext
    PROVE  [Atomic!LedgerNext]_<<Settled, seen.broken>>
<1>1. srv \in SrvLocals /\ seen \in [quiet : BOOLEAN, stable : BOOLEAN, broken : BOOLEAN]
    BY DEF Inv, NodeInv, SrvInv
<1>2. CASE \/ \E p \in Ports : SrvAddNode(p)
           \/ SrvLatest \/ SrvEntry \/ SrvDump \/ SrvReply \/ SrvReplaced
    <2>1. UNCHANGED <<chain, seen>> /\ ~Replacing
        BY <1>2 DEF SrvAddNode, SrvLatest, SrvEntry, SrvDump, SrvReply, SrvReplaced, Replacing
    <2>2. srv'.pc \in {"idle", "entries", "reply"}
        <3>1. CASE SrvReply \/ SrvReplaced \/ \E p \in Ports : SrvAddNode(p)
            BY <3>1 DEF SrvReply, SrvReplaced, SrvAddNode, SrvIdle
        <3>2. CASE SrvLatest \/ SrvEntry \/ SrvDump
            BY <1>1, <3>2 DEF SrvLatest, SrvEntry, SrvDump, SrvLocals
        <3> QED
            BY <1>2, <3>1, <3>2
    <2>3. ~Replacing'
        BY <2>2 DEF Replacing
    <2> QED
        BY <2>1, <2>3 DEF Settled
<1>3. CASE SrvNewChain
    <2>1. PICK c \in Contents : /\ c.length > Len(chain)
                               /\ srv' = [srv EXCEPT !.pc = "pop", !.content = c]
        BY <1>3 DEF SrvNewChain
    <2>2. srv'.pc = "pop" /\ srv'.content = c /\ ~Replacing /\ UNCHANGED <<chain, seen>>
        BY <1>1, <1>3, <2>1 DEF SrvNewChain, SrvLocals, Replacing
    <2>3. CASE seen.broken
        BY <2>2, <2>3 DEF Settled
    <2>4. CASE ~seen.broken
        <3>1. Settled = chain /\ Settled' = Installed(c)
            BY <2>2, <2>4 DEF Settled, Replacing, Installed, Leading, Entry
        <3>2. Atomic!Replace(c)
            BY <2>1, <2>2, <2>4, <3>1, SameOperators DEF Atomic!Replace
        <3> QED
            BY <3>2 DEF Atomic!LedgerNext
    <2> QED
        BY <2>3, <2>4
<1>4. CASE SrvPop
    <2>1. seen'.broken = (seen.broken /\ Len(chain) > 2) /\ srv.pc = "pop" /\ UNCHANGED srv
        BY <1>4, DisturbedFacts DEF SrvPop, Inv
    <2> QED
        BY <2>1, SettledPop
<1>5. CASE SrvPopped \/ SrvOffer \/ SrvPush
    <2>1. /\ Replacing /\ Replacing' /\ srv'.content = srv.content
          /\ seen'.broken = seen.broken
        BY <1>1, <1>5, DisturbedFacts DEF SrvPopped, SrvOffer, SrvPush, Replacing, SrvLocals, Inv
    <2>2. CASE seen.broken
        BY <1>1, <2>1, <2>2 DEF Atomic!LedgerNext, Atomic!Race
    <2>3. CASE ~seen.broken
        BY <2>1, <2>3 DEF Settled, Installed, Leading, Entry
    <2> QED
        BY <2>2, <2>3
<1>6. CASE SrvThrow \/ SrvFilled
    <2>1. /\ srv.pc = "add" /\ ~Replacing' /\ UNCHANGED <<chain, seen>>
          /\ srv.i < srv.content.length => Entry(srv.content, srv.i) = Null
        <3>1. CASE SrvThrow
            BY <3>1 DEF SrvThrow, Replacing, SrvIdle
        <3>2. CASE SrvFilled
            <4>1. srv.i \in Nat /\ srv.content.length \in Nat
                BY <3>2, NodeAssumption
                   DEF SrvFilled, Inv, NodeInv, SrvInv, SrvLocals, WellFormed, Json
            <4> QED
                BY <1>1, <3>2, <4>1 DEF SrvFilled, Replacing, SrvLocals
        <3> QED
            BY <1>6, <3>1, <3>2
    <2>2. Settled' = chain
        BY <2>1 DEF Settled
    <2>3. Settled = chain
        BY <2>1, ArrivedFacts DEF Settled
    <2> QED
        BY <2>1, <2>2, <2>3
<1> QED
    BY <1>2, <1>3, <1>4, <1>5, <1>6 DEF SrvRequest, SrvNext, SrvShared

\* Every step of a node is a step of the ledger or none.
LEMMA LedgerStep ==
    ASSUME Inv, LinkInv, NoneRefused, WithinInv, [Work]_nodeVars
    PROVE  [Atomic!LedgerNext]_<<Settled, seen.broken>>
<1>1. CASE UNCHANGED nodeVars
    BY <1>1 DEF nodeVars, Settled, Replacing, Installed, Leading, Entry
<1>2. CASE \/ \E d \in Data : CliBegin(d, "header")
           \/ CliNext
    BY <1>2, SettledCli, SettledPush DEF CliNext
<1>3. CASE SrvRequest \/ SrvNext
    BY <1>3, SettledServer
<1>4. CASE Collide("verify")
    <2>1. CASE srv.pc = "push"
        BY <1>4, <2>1 DEF Collide, Calm, Atomic!LedgerNext, Atomic!Race
    <2>2. CASE srv.pc # "push"
        <3>1. seen'.broken = (seen.broken /\ Len(chain) > 2) /\ srv.pc = "pop" /\ UNCHANGED srv
            BY <1>4, <2>2 DEF Collide, Calm
        <3> QED
            BY <3>1, SettledPop
    <2> QED
        BY <2>1, <2>2
<1> QED
    BY <1>1, <1>2, <1>3, <1>4 DEF Work

\* A node's chain changes in one piece, though the program takes many steps for it
\* and two threads take turns: a longer document replaces it as a whole, a block
\* that fits is added, and only the race that seen.broken tells of breaks the rule.
THEOREM ChangesAtOnce == Spec => ChangesInOnePiece
<1>1. Init => Inv /\ RaceInv /\ WithinInv
    BY StartInv, StartMined, StartLink, StartLatest
       DEF Init, Inv, RaceInv, WithinInv, NodeInit, SrvIdle
<1>2. Init => Atomic!New
    BY DEF Init, NodeInit, Calm, SrvIdle, Settled, Replacing, Atomic!New
<1>3. Inv /\ RaceInv /\ WithinInv /\ [Next]_nodeVars => (Inv /\ RaceInv /\ WithinInv)'
    <2>1. NodeRestart => WithinInv'
        BY DEF NodeRestart, WithinInv, SrvIdle
    <2>2. [Next]_nodeVars => [Work]_nodeVars \/ NodeRestart
        BY DEF Next
    <2> QED
        BY <2>1, <2>2, InvStep, RaceStep, WithinStep
<1>4. Inv /\ RaceInv /\ WithinInv /\ [Next]_nodeVars
          => [Atomic!LedgerNext \/ NodeRestart]_<<Settled, seen.broken>>
    <2>1. [Next]_nodeVars => [Work]_nodeVars \/ NodeRestart
        BY DEF Next
    <2> QED
        BY <2>1, LedgerStep DEF RaceInv
<1> QED
    BY <1>1, <1>2, <1>3, <1>4, PTL DEF Spec, ChangesInOnePiece

=============================================================================
