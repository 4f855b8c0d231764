---------------------------- MODULE NetworkProofs ----------------------------
(***************************************************************************)
(* Safety of any number of nodes that join, mine, send, crash and lose     *)
(* requests, whatever genesis blocks they found.                           *)
(***************************************************************************)
EXTENDS Network, ChainProofs, FiniteSetTheorems

Geneses == {GenesisOf(g) : g \in GenesisNonces}

\* What nodes hold and send: a genesis block, and mined blocks on it that link,
\* but for the first link, which may point to another genesis block.
GoodChain(c) ==
    /\ c \in Seq(Block) /\ Len(c) >= 1
    /\ c[1] \in Geneses
    /\ \A k \in 2 .. Len(c) : Acceptable(c[k]) /\ c[k].index = k - 1
    /\ \A k \in 2 .. Len(c) - 1 : c[k + 1].previousHash = c[k].hash
    /\ Cardinality(GenesisNonces) = 1 => Linked(c)

Pcs == {"down", "announce", "fetch", "menu", "mining", "sending"}

MainRecord ==
    [pc : Pcs, num : Nat, prev : Hash, data : Data \cup {Null}, doc : Seq(Block),
     i : Nat, again : BOOLEAN, got : SUBSET Nodes]

Shape ==
    /\ chain \in [Nodes -> Seq(Block)]
    /\ nodes \in [Nodes -> Seq(Nodes)]
    /\ main \in [Nodes -> MainRecord]
    /\ crashes \in 0 .. MaxCrashes /\ losses \in 0 .. MaxLosses

ChainInv(n) == IF main[n].pc = "down" THEN chain[n] = <<>> ELSE GoodChain(chain[n])

NotSelf(n) == \A k \in 1 .. Len(nodes[n]) : nodes[n][k] # n

ListInv(n) == main[n].i <= Len(nodes[n]) /\ NotSelf(n)

\* What a main thread has in hand.
DocOK(m) ==
    /\ m.doc # <<>> => GoodChain(m.doc)
    /\ m.pc = "sending" => m.doc # <<>> /\ Linked(m.doc)
    /\ m.pc = "mining" => m.data \in Data

\* Nodes that took the document m sends.
Took(m) ==
    m.pc = "sending" => \A p \in m.got : Listening(p) /\ Len(chain[p]) >= Len(m.doc)

Inv ==
    /\ Shape
    /\ \A n \in Nodes : ChainInv(n) /\ ListInv(n) /\ DocOK(main[n]) /\ Took(main[n])

\* No chain is given up for one that is not longer, and no server stops.
Grows ==
    \A p \in Nodes : Listening(p) =>
        /\ Listening(p)'
        /\ chain'[p] = chain[p] \/ Len(chain'[p]) > Len(chain[p])

-----------------------------------------------------------------------------
\* A genesis block is a block of index 0.
LEMMA GenesesFacts ==
    ASSUME NEW b \in Geneses
    PROVE  b \in Block /\ b.index = 0
<1>1. PICK g \in GenesisNonces : b = GenesisOf(g)
    BY DEF Geneses
<1>2. 0 \in Nat /\ NoHash \in Hash /\ GenesisData \in Payload /\ g \in Nonces
    BY NetworkAssumption, EmptySeq DEF NoHash, Hash, Payload, Nonces
<1>3. Sha256(0, NoHash, GenesisData, g) \in Hash
    BY <1>2, Sha256Facts
<1> QED
    BY <1>1, <1>2, <1>3 DEF GenesisOf, NewBlock, Block

\* A genesis block alone is a chain.
LEMMA StartChain ==
    ASSUME NEW g \in GenesisNonces
    PROVE  GoodChain(<<GenesisOf(g)>>)
<1> DEFINE b == GenesisOf(g)
<1>1. b \in Geneses /\ b \in Block
    BY GenesesFacts DEF Geneses
<1>2. <<b>> \in Seq(Block) /\ Len(<<b>>) = 1 /\ <<b>>[1] = b
    BY <1>1
<1> HIDE DEF b
<1> DEFINE c == <<b>>
<1>3. c \in Seq(Block) /\ Len(c) = 1 /\ c[1] = b
    BY <1>2
<1> HIDE DEF c
<1>4. /\ \A k \in 2 .. Len(c) : FALSE
      /\ \A k \in 1 .. Len(c) - 1 : FALSE
      /\ \A k \in 2 .. Len(c) - 1 : FALSE
    BY <1>3
<1>5. GoodChain(c)
    BY <1>1, <1>3, <1>4 DEF GoodChain, Linked
<1> QED
    BY <1>5 DEF b, c

\* What GoodChain says of a chain's length, blocks and last hash.
LEMMA GoodFacts ==
    ASSUME NEW c, GoodChain(c)
    PROVE  /\ Len(c) \in Nat /\ c # <<>>
           /\ \A k \in 1 .. Len(c) : c[k] \in Block /\ c[k].index = k - 1
           /\ c[Len(c)].hash \in Hash
<1>1. Len(c) \in Nat /\ Len(c) >= 1 /\ c # <<>>
    BY LenProperties, EmptySeq DEF GoodChain
<1>2. ASSUME NEW k \in 1 .. Len(c)
      PROVE  c[k] \in Block /\ c[k].index = k - 1
    <2>1. c[k] \in Block
        BY ElementOfSeq DEF GoodChain
    <2>2. CASE k = 1
        BY <2>1, <2>2, GenesesFacts DEF GoodChain
    <2>3. CASE k # 1
        BY <2>1, <2>3, <1>1 DEF GoodChain
    <2> QED
        BY <2>2, <2>3
<1>3. c[Len(c)] \in Block
    BY <1>1, <1>2
<1> QED
    BY <1>1, <1>2, <1>3 DEF Block

\* A chain replayed on a genesis block is a chain of the same length: addBlock
\* refuses none of its blocks.
LEMMA RefillFacts ==
    ASSUME NEW first \in Geneses, NEW doc, GoodChain(doc)
    PROVE  GoodChain(Refill(first, doc)) /\ Len(Refill(first, doc)) = Len(doc)
<1> DEFINE taken == {k \in 1 .. Len(doc) :
                        \A j \in 2 .. k : Acceptable(doc[j]) /\ doc[j].index = j - 1}
           c     == [k \in 1 .. Len(doc) |-> IF k = 1 THEN first ELSE doc[k]]
<1>1. Len(doc) \in Nat /\ Len(doc) >= 1 /\ \A k \in 1 .. Len(doc) : doc[k] \in Block
    BY GoodFacts DEF GoodChain
<1>2. taken = 1 .. Len(doc)
    BY <1>1 DEF GoodChain
<1>3. Cardinality(taken) = Len(doc)
    <2>1. Cardinality(1 .. Len(doc)) = IF 1 > Len(doc) THEN 0 ELSE Len(doc) - 1 + 1
        BY <1>1, FS_Interval
    <2> HIDE DEF taken
    <2> QED
        BY <1>1, <1>2, <2>1
<1>4. Refill(first, doc) = c
    BY <1>3, Zenon DEF Refill
<1>5. first \in Block
    BY GenesesFacts
<1>6. c \in [1 .. Len(doc) -> Block]
    BY <1>1, <1>5
<1>7. c \in Seq(Block) /\ Len(c) = Len(doc)
    BY <1>1, <1>6, FunctionIsSeq
<1>8. c[1] = first /\ \A k \in 2 .. Len(doc) : c[k] = doc[k]
    BY <1>1
<1>9. ASSUME Cardinality(GenesisNonces) = 1
      PROVE  Linked(c)
    <2>1. PICK g : GenesisNonces = {g}
        BY <1>9, FS_Singleton, NetworkAssumption
    <2>2. first = doc[1]
        BY <2>1 DEF Geneses, GoodChain
    <2>3. \A k \in 1 .. Len(doc) : c[k] = doc[k]
        BY <1>1, <1>8, <2>2
    <2>4. Linked(doc)
        BY <1>9 DEF GoodChain
    <2> HIDE DEF c
    <2> QED
        BY <1>1, <1>7, <2>3, <2>4 DEF Linked
<1> HIDE DEF c
<1>10. GoodChain(c)
    BY <1>1, <1>7, <1>8, <1>9 DEF GoodChain
<1> QED
    BY <1>4, <1>7, <1>10

\* A mined block put on a chain makes a longer chain.
LEMMA AppendFacts ==
    ASSUME NEW c, GoodChain(c), NEW b \in Block, Acceptable(b),
           b.index = Len(c), b.previousHash = c[Len(c)].hash
    PROVE  GoodChain(Append(c, b)) /\ Len(Append(c, b)) = Len(c) + 1
<1> DEFINE d == Append(c, b)
<1>1. Len(c) \in Nat /\ Len(c) >= 1
    BY GoodFacts DEF GoodChain
<1>2. /\ d \in Seq(Block) /\ Len(d) = Len(c) + 1
      /\ \A k \in 1 .. Len(c) : d[k] = c[k]
      /\ d[Len(c) + 1] = b
    BY AppendProperties DEF GoodChain
<1> HIDE DEF d
<1>3. d[1] \in Geneses
    BY <1>1, <1>2 DEF GoodChain
<1>4. \A k \in 2 .. Len(d) : Acceptable(d[k]) /\ d[k].index = k - 1
    <2> TAKE k \in 2 .. Len(d)
    <2>1. CASE k = Len(c) + 1
        BY <1>1, <1>2, <2>1
    <2>2. CASE k # Len(c) + 1
        BY <1>1, <1>2, <2>2 DEF GoodChain
    <2> QED
        BY <2>1, <2>2
<1>5. \A k \in 1 .. Len(d) - 1 :
          k < Len(c) => d[k + 1] = c[k + 1] /\ d[k] = c[k]
    BY <1>1, <1>2
<1>6. d[Len(c) + 1].previousHash = d[Len(c)].hash
    BY <1>1, <1>2
<1>7. \A k \in 2 .. Len(d) - 1 : d[k + 1].previousHash = d[k].hash
    <2> TAKE k \in 2 .. Len(d) - 1
    <2>1. CASE k = Len(c)
        BY <1>6, <2>1
    <2>2. CASE k # Len(c)
        BY <1>1, <1>2, <1>5, <2>2 DEF GoodChain
    <2> QED
        BY <2>1, <2>2
<1>8. ASSUME Cardinality(GenesisNonces) = 1
      PROVE  Linked(d)
    <2> SUFFICES ASSUME NEW k \in 1 .. Len(d) - 1
                 PROVE  d[k + 1].previousHash = d[k].hash
        BY DEF Linked
    <2>1. CASE k = Len(c)
        BY <1>6, <2>1
    <2>2. CASE k # Len(c)
        BY <1>1, <1>2, <1>5, <1>8, <2>2 DEF GoodChain, Linked
    <2> QED
        BY <2>1, <2>2
<1>9. Len(d) >= 1
    BY <1>1, <1>2
<1>10. GoodChain(d)
    BY <1>2, <1>3, <1>4, <1>7, <1>8, <1>9 DEF GoodChain
<1> QED
    BY <1>2, <1>10 DEF d

-----------------------------------------------------------------------------
(* What a step of the main thread of n has to show: m is what becomes of it. *)

\* Everything but n's own part carries over to the next state if nobody's chain
\* gets shorter.
LEMMA StepInv ==
    ASSUME Inv, Shape', Grows, NEW n \in Nodes, NEW m, SetMain(n, m),
           \A p \in Nodes : ChainInv(p)' /\ NotSelf(p)',
           \A p \in Nodes \ {n} : Len(nodes'[p]) >= Len(nodes[p]),
           m.i <= Len(nodes'[n]), DocOK(m), Took(m)'
    PROVE  Inv'
<1>1. main'[n] = m /\ \A p \in Nodes \ {n} : main'[p] = main[p]
    BY DEF SetMain, Inv, Shape
<1>2. ASSUME NEW p \in Nodes
      PROVE  ListInv(p)' /\ DocOK(main[p])' /\ Took(main[p])'
    <2>1. CASE p = n
        BY <1>1, <2>1 DEF ListInv, DocOK, Took
    <2>2. CASE p # n
        <3>1. /\ main'[p] = main[p] /\ Len(nodes'[p]) >= Len(nodes[p])
              /\ main[p].i \in Nat
              /\ Len(nodes[p]) \in Nat /\ Len(nodes'[p]) \in Nat
            BY <1>1, <2>2, LenProperties DEF Inv, Shape, MainRecord
        <3>2. ListInv(p)'
            BY <3>1 DEF Inv, ListInv
        <3>3. DocOK(main[p])'
            BY <3>1 DEF Inv, DocOK
        <3>4. ASSUME main[p].pc = "sending", NEW q \in main[p].got
              PROVE  Listening(q)' /\ Len(chain'[q]) >= Len(main[p].doc)
            <4>1. q \in Nodes /\ Listening(q) /\ Len(chain[q]) >= Len(main[p].doc)
                BY <3>4 DEF Inv, Took, Shape, MainRecord
            <4>2. /\ Len(chain[q]) \in Nat /\ Len(chain'[q]) \in Nat
                  /\ Len(main[p].doc) \in Nat
                BY <4>1, LenProperties DEF Inv, Shape, MainRecord
            <4> QED
                BY <4>1, <4>2 DEF Grows
        <3>5. Took(main[p])'
            BY <3>1, <3>4 DEF Took
        <3> QED
            BY <3>2, <3>3, <3>5
    <2> QED
        BY <2>1, <2>2
<1> QED
    BY <1>2 DEF Inv

Serving == {"menu", "mining", "sending"}

\* Steps that move n's main thread on and change no chain and no list.
LEMMA MoveInv ==
    ASSUME Inv, NEW n \in Nodes, NEW m \in MainRecord, SetMain(n, m),
           UNCHANGED <<chain, nodes>>,
           crashes' \in 0 .. MaxCrashes, losses' \in 0 .. MaxLosses,
           main[n].pc # "down", m.pc # "down", main[n].pc \in Serving => m.pc \in Serving,
           m.i <= Len(nodes[n]), DocOK(m), Took(m)
    PROVE  Inv' /\ Grows
<1>1. main'[n] = m /\ \A p \in Nodes \ {n} : main'[p] = main[p]
    BY DEF SetMain, Inv, Shape
<1>2. \A p \in Nodes : Listening(p) => Listening(p)'
    BY <1>1 DEF Listening, Serving
<1>3. Grows
    BY <1>2 DEF Grows
<1>4. Shape'
    BY DEF Inv, Shape, SetMain
<1>5. \A p \in Nodes : ChainInv(p)' /\ NotSelf(p)'
    BY <1>1 DEF Inv, ChainInv, ListInv, NotSelf
<1>6. Took(m)'
    <2>1. ASSUME m.pc = "sending", NEW q \in m.got
          PROVE  Listening(q)' /\ Len(chain'[q]) >= Len(m.doc)
        BY <1>2, <2>1 DEF Took, MainRecord
    <2> QED
        BY <2>1 DEF Took
<1>7. \A p \in Nodes \ {n} : Len(nodes'[p]) >= Len(nodes[p])
    BY LenProperties DEF Inv, Shape
<1> QED
    BY <1>3, <1>4, <1>5, <1>6, <1>7, StepInv

\* Steps in which the chain of one node p that serves gets longer, or stays.
LEMMA LongerInv ==
    ASSUME Inv, NEW n \in Nodes, NEW m \in MainRecord, SetMain(n, m),
           NEW p \in Nodes, NEW c, chain' = [chain EXCEPT ![p] = c],
           c = chain[p] \/ Len(c) > Len(chain[p]), GoodChain(c), Listening(p),
           UNCHANGED nodes,
           crashes' \in 0 .. MaxCrashes, losses' \in 0 .. MaxLosses,
           Listening(n), m.pc \in Serving,
           m.i <= Len(nodes[n]), DocOK(m), Took(m)'
    PROVE  Inv' /\ Grows
<1>1. main'[n] = m /\ \A q \in Nodes \ {n} : main'[q] = main[q]
    BY DEF SetMain, Inv, Shape
<1>2. chain'[p] = c /\ \A q \in Nodes \ {p} : chain'[q] = chain[q]
    BY DEF Inv, Shape
<1>3. Grows
    BY <1>1, <1>2 DEF Grows, Listening, Serving
<1>4. Shape'
    BY DEF Inv, Shape, SetMain, GoodChain
<1>5. main'[p].pc # "down"
    BY <1>1 DEF Listening, Serving
<1>6. \A q \in Nodes : ChainInv(q)' /\ NotSelf(q)'
    <2>1. \A q \in Nodes : NotSelf(q)'
        BY DEF Inv, ListInv, NotSelf
    <2>2. ChainInv(p)'
        BY <1>2, <1>5 DEF ChainInv
    <2>3. ASSUME NEW q \in Nodes, q # p
          PROVE  ChainInv(q)'
        <3>1. CASE q = n
            BY <1>1, <1>2, <2>3, <3>1 DEF Inv, ChainInv, Listening, Serving
        <3>2. CASE q # n
            BY <1>1, <1>2, <2>3, <3>2 DEF Inv, ChainInv
        <3> QED
            BY <3>1, <3>2
    <2> QED
        BY <2>1, <2>2, <2>3
<1>7. \A q \in Nodes \ {n} : Len(nodes'[q]) >= Len(nodes[q])
    BY LenProperties DEF Inv, Shape
<1> QED
    BY <1>3, <1>4, <1>6, <1>7, StepInv

-----------------------------------------------------------------------------
(* The actions. *)

\* The peer that is asked is another node, and the count goes no further than
\* the list.
LEMMA AskedFacts ==
    ASSUME Inv, NEW n \in Nodes, HasNext(n)
    PROVE  /\ Asked(n) \in Nodes /\ Asked(n) # n
           /\ main[n].i \in Nat /\ main[n].i + 1 <= Len(nodes[n])
<1>1. /\ nodes[n] \in Seq(Nodes) /\ Len(nodes[n]) \in Nat
      /\ main[n].i \in Nat /\ main[n].i < Len(nodes[n])
    BY LenProperties DEF Inv, Shape, MainRecord, HasNext
<1>2. main[n].i + 1 \in 1 .. Len(nodes[n])
    BY <1>1
<1>3. Asked(n) \in Nodes
    BY <1>1, <1>2, ElementOfSeq DEF Asked
<1> QED
    BY <1>1, <1>2, <1>3 DEF Inv, ListInv, NotSelf, Asked

\* The client goes on to the next peer with what it has.
LEMMA NextPeerFacts ==
    ASSUME NEW m \in MainRecord
    PROVE  /\ NextPeer(m) \in MainRecord
           /\ NextPeer(m).pc = m.pc /\ NextPeer(m).doc = m.doc
           /\ NextPeer(m).got = m.got /\ NextPeer(m).data = m.data
           /\ NextPeer(m).i = m.i + 1
<1>1. m.i + 1 \in Nat /\ FALSE \in BOOLEAN
    BY DEF MainRecord
<1>2. NextPeer(m) = [[m EXCEPT !.i = m.i + 1] EXCEPT !.again = FALSE]
    BY DEF NextPeer, MainRecord
<1>3. [m EXCEPT !.i = m.i + 1] \in MainRecord
    BY <1>1 DEF MainRecord
<1> QED
    BY <1>1, <1>2, <1>3 DEF MainRecord

\* Both outcomes of a request that was handled move n on with what m has in hand.
LEMMA AnsweredFacts ==
    ASSUME Inv, NEW n \in Nodes, HasNext(n), NEW m \in MainRecord, m.i = main[n].i,
           Answered(n, m)
    PROVE  \E r \in MainRecord :
              /\ SetMain(n, r) /\ losses' \in 0 .. MaxLosses
              /\ r.pc = m.pc /\ r.doc = m.doc /\ r.got = m.got /\ r.data = m.data
              /\ r.i <= Len(nodes[n])
<1>1. m.i \in Nat /\ m.i + 1 <= Len(nodes[n])
    BY AskedFacts
<1>2. losses \in 0 .. MaxLosses /\ MaxLosses \in Nat /\ Len(nodes[n]) \in Nat
    BY NetworkAssumption, LenProperties DEF Inv, Shape
<1>3. CASE SetMain(n, NextPeer(m)) /\ UNCHANGED losses
    <2> DEFINE r == NextPeer(m)
    <2>1. /\ r \in MainRecord /\ r.pc = m.pc /\ r.doc = m.doc /\ r.got = m.got
          /\ r.data = m.data /\ r.i = m.i + 1
        BY <1>1, NextPeerFacts
    <2> HIDE DEF r
    <2> QED
        BY <1>1, <1>2, <1>3, <2>1 DEF r
<1>4. CASE /\ ~m.again /\ losses < MaxLosses
           /\ losses' = losses + 1
           /\ SetMain(n, [m EXCEPT !.again = TRUE])
    <2> DEFINE r == [m EXCEPT !.again = TRUE]
    <2>1. /\ r \in MainRecord /\ r.pc = m.pc /\ r.doc = m.doc /\ r.got = m.got
          /\ r.data = m.data /\ r.i = m.i
        BY DEF MainRecord
    <2>2. SetMain(n, r)
        BY <1>4
    <2> HIDE DEF r
    <2>3. losses' \in 0 .. MaxLosses /\ r.i <= Len(nodes[n])
        BY <1>1, <1>2, <1>4, <2>1
    <2> QED
        BY <2>1, <2>2, <2>3
<1> QED
    BY <1>3, <1>4 DEF Answered

\* The menu, wherever a main thread gets to from there, has nothing in hand.
LEMMA MenuFacts ==
    /\ \A pc \in Pcs : [Menu EXCEPT !.pc = pc] \in MainRecord
    /\ Menu \in MainRecord /\ Down \in MainRecord /\ Down = [Menu EXCEPT !.pc = "down"]
    /\ Menu.pc = "menu" /\ Menu.doc = <<>> /\ Menu.i = 0 /\ Menu.got = {}
<1>1. NoHash \in Hash /\ <<>> \in Seq(Block)
    BY EmptySeq DEF NoHash, Hash
<1> QED
    BY <1>1 DEF Menu, Down, MainRecord, Pcs

\* A request that is not answered.
LEMMA UnansweredInv ==
    ASSUME Inv, NEW n \in Nodes, NEW pc \in Pcs \ {"down"}, Unanswered(n, pc)
    PROVE  Inv' /\ Grows
<1> DEFINE m == NextPeer(main[n])
<1>1. main[n] \in MainRecord /\ HasNext(n) /\ SetMain(n, m) /\ UNCHANGED <<chain, nodes, crashes>>
    BY DEF Inv, Shape, Unanswered
<1>2. main[n].i \in Nat /\ main[n].i + 1 <= Len(nodes[n])
    BY <1>1, AskedFacts
<1>3. /\ m \in MainRecord /\ m.pc = main[n].pc /\ m.doc = main[n].doc /\ m.got = main[n].got
      /\ m.data = main[n].data /\ m.i = main[n].i + 1
    BY <1>1, <1>2, NextPeerFacts
<1>4. crashes' \in 0 .. MaxCrashes /\ losses' \in 0 .. MaxLosses
    BY <1>1, NetworkAssumption DEF Unanswered, Inv, Shape
<1>5. main[n].pc # "down"
    BY DEF Unanswered
<1> HIDE DEF m
<1>6. DocOK(m) /\ Took(m)
    BY <1>3 DEF Inv, DocOK, Took
<1> QED
    BY <1>1, <1>2, <1>3, <1>4, <1>5, <1>6, MoveInv

\* A node that changes nothing but its place.
LEMMA PlaceInv ==
    ASSUME Inv, NEW n \in Nodes, main[n].pc # "down", NEW m \in MainRecord, SetMain(n, m),
           m.pc \in {"fetch", "menu", "mining"}, main[n].pc \in Serving => m.pc \in Serving,
           m.doc = <<>>, m.i = 0, m.pc = "mining" => m.data \in Data,
           UNCHANGED <<chain, nodes, crashes, losses>>
    PROVE  Inv' /\ Grows
<1>1. DocOK(m) /\ Took(m)
    BY DEF DocOK, Took
<1>2. Len(nodes[n]) \in Nat
    BY LenProperties DEF Inv, Shape
<1>3. crashes' \in 0 .. MaxCrashes /\ losses' \in 0 .. MaxLosses
    BY DEF Inv, Shape
<1> QED
    BY <1>1, <1>2, <1>3, MoveInv

LEMMA PlacesInv ==
    ASSUME Inv, NEW n \in Nodes, Announced(n) \/ Mine(n) \/ CalledOff(n) \/ Sent(n)
    PROVE  Inv' /\ Grows
<1>1. CASE Announced(n)
    <2>1. [Menu EXCEPT !.pc = "fetch"] = [Menu EXCEPT !.pc = "fetch"]
          /\ "fetch" \in Pcs
        BY DEF Pcs
    <2>2. /\ [Menu EXCEPT !.pc = "fetch"].pc = "fetch"
          /\ [Menu EXCEPT !.pc = "fetch"].doc = <<>> /\ [Menu EXCEPT !.pc = "fetch"].i = 0
        BY DEF Menu
    <2> QED
        BY <1>1, <2>1, <2>2, MenuFacts, PlaceInv DEF Announced, Serving
<1>2. CASE CalledOff(n) \/ Sent(n)
    BY <1>2, MenuFacts, PlaceInv DEF CalledOff, Sent, Serving
<1>3. CASE Mine(n)
    <2>1. PICK d \in Data :
             SetMain(n, [Menu EXCEPT !.pc = "mining", !.num = Len(chain[n]),
                                     !.prev = LastHash(n), !.data = d])
        BY <1>3 DEF Mine
    <2> DEFINE m == [Menu EXCEPT !.pc = "mining", !.num = Len(chain[n]),
                                 !.prev = LastHash(n), !.data = d]
    <2>2. Len(chain[n]) \in Nat /\ LastHash(n) \in Hash
        BY <1>3, GoodFacts DEF Mine, Inv, ChainInv, LastHash
    <2>3. m \in MainRecord
        BY <2>2, MenuFacts DEF MainRecord, Pcs
    <2>4. m.pc = "mining" /\ m.doc = <<>> /\ m.i = 0 /\ m.data = d
        BY DEF Menu
    <2> HIDE DEF m
    <2> QED
        BY <1>3, <2>1, <2>3, <2>4, PlaceInv DEF Mine, Serving, m
<1> QED
    BY <1>1, <1>2, <1>3

\* An announcement: the peer's list gets longer, by another node.
LEMMA AnnounceInv ==
    ASSUME Inv, NEW n \in Nodes, Announce(n)
    PROVE  Inv' /\ Grows
<1> DEFINE a == Asked(n)
<1>1. HasNext(n) /\ a \in Nodes /\ a # n /\ main[n].pc = "announce"
    BY AskedFacts DEF Announce
<1>2. PICK m \in MainRecord :
         /\ SetMain(n, m) /\ losses' \in 0 .. MaxLosses
         /\ m.pc = main[n].pc /\ m.doc = main[n].doc /\ m.got = main[n].got
         /\ m.data = main[n].data
         /\ m.i <= Len(nodes[n])
    <2>1. main[n] \in MainRecord /\ Answered(n, main[n])
        BY DEF Announce, Inv, Shape
    <2> QED
        BY <1>1, <2>1, AnsweredFacts
<1> HIDE DEF a
<1>3. nodes' = [nodes EXCEPT ![a] = Append(nodes[a], n)] /\ UNCHANGED <<chain, crashes>>
    BY DEF Announce, a
<1>4. /\ nodes[a] \in Seq(Nodes) /\ Append(nodes[a], n) \in Seq(Nodes)
      /\ Len(nodes[a]) \in Nat /\ Len(Append(nodes[a], n)) = Len(nodes[a]) + 1
      /\ \A k \in 1 .. Len(nodes[a]) : Append(nodes[a], n)[k] = nodes[a][k]
      /\ Append(nodes[a], n)[Len(nodes[a]) + 1] = n
    BY <1>1, AppendProperties, LenProperties DEF Inv, Shape
<1>5. Shape'
    BY <1>2, <1>3, <1>4 DEF Inv, Shape, SetMain
<1>6. main'[n] = m /\ \A p \in Nodes \ {n} : main'[p] = main[p]
    BY <1>2 DEF SetMain, Inv, Shape
<1>7. Grows
    BY <1>1, <1>2, <1>3, <1>6 DEF Grows, Listening
<1>8. nodes'[a] = Append(nodes[a], n) /\ \A p \in Nodes \ {a} : nodes'[p] = nodes[p]
    BY <1>1, <1>3 DEF Inv, Shape
<1>9. ASSUME NEW p \in Nodes
      PROVE  ChainInv(p)' /\ NotSelf(p)' /\ (p # n => Len(nodes'[p]) >= Len(nodes[p]))
    <2>1. ChainInv(p)'
        BY <1>1, <1>2, <1>3, <1>6 DEF Inv, ChainInv
    <2>2. CASE p = a
        <3>1. \A k \in 1 .. Len(nodes'[a]) : nodes'[a][k] # a
            <4> TAKE k \in 1 .. Len(nodes'[a])
            <4>1. CASE k = Len(nodes[a]) + 1
                BY <1>1, <1>4, <1>8, <4>1
            <4>2. CASE k # Len(nodes[a]) + 1
                <5>1. k \in 1 .. Len(nodes[a])
                    BY <1>4, <1>8, <4>2
                <5> QED
                    BY <1>1, <1>4, <1>8, <5>1 DEF Inv, ListInv, NotSelf
            <4> QED
                BY <4>1, <4>2
        <3> QED
            BY <1>4, <1>8, <2>1, <2>2, <3>1 DEF NotSelf
    <2>3. CASE p # a
        BY <1>8, <2>1, <2>3, LenProperties DEF Inv, ListInv, NotSelf, Shape
    <2> QED
        BY <2>2, <2>3
<1>10. DocOK(m) /\ Took(m)'
    BY <1>1, <1>2 DEF Inv, DocOK, Took
<1>11. m.i <= Len(nodes'[n])
    BY <1>1, <1>2, <1>8
<1> QED
    BY <1>2, <1>5, <1>7, <1>9, <1>10, <1>11, StepInv

\* The first of the longest answers is a chain some node had.
LEMMA FetchInv ==
    ASSUME Inv, NEW n \in Nodes, Fetch(n)
    PROVE  Inv' /\ Grows
<1> DEFINE a == Asked(n)
           c == chain[a]
           d == IF Len(c) > Len(main[n].doc) THEN c ELSE main[n].doc
           f == [main[n] EXCEPT !.doc = d, !.got = main[n].got \cup {a}]
<1>1. HasNext(n) /\ a \in Nodes /\ main[n].pc = "fetch" /\ Listening(a)
    BY AskedFacts DEF Fetch
<1>2. GoodChain(c)
    BY <1>1 DEF Inv, ChainInv, Listening
<1>3. main[n] \in MainRecord /\ c \in Seq(Block)
    BY <1>1 DEF Inv, Shape
<1>4. f \in MainRecord /\ f.pc = "fetch" /\ f.doc = d /\ f.i = main[n].i
    BY <1>1, <1>3 DEF MainRecord
<1>5. d # <<>> => GoodChain(d)
    BY <1>2 DEF Inv, DocOK
<1>6. Answered(n, f) /\ UNCHANGED <<chain, nodes, crashes>>
    BY DEF Fetch
<1> HIDE DEF f, d, c, a
<1>7. PICK m \in MainRecord :
         /\ SetMain(n, m) /\ losses' \in 0 .. MaxLosses
         /\ m.pc = f.pc /\ m.doc = f.doc
         /\ m.i <= Len(nodes[n])
    BY <1>1, <1>4, <1>6, AnsweredFacts
<1>8. DocOK(m) /\ Took(m)
    BY <1>4, <1>5, <1>7 DEF DocOK, Took
<1>9. crashes' \in 0 .. MaxCrashes
    BY <1>6 DEF Inv, Shape
<1> QED
    BY <1>1, <1>4, <1>6, <1>7, <1>8, <1>9, MoveInv DEF Serving

\* A chain that is sent is taken in whole where it is longer.
LEMMA PostInv ==
    ASSUME Inv, NEW n \in Nodes, Post(n)
    PROVE  Inv' /\ Grows
<1> DEFINE a   == Asked(n)
           doc == main[n].doc
           c   == IF Len(doc) > Len(chain[a]) THEN Refill(chain[a][1], doc) ELSE chain[a]
           f   == [main[n] EXCEPT !.got = main[n].got \cup {a}]
<1>1. HasNext(n) /\ a \in Nodes /\ main[n].pc = "sending" /\ Listening(a)
    BY AskedFacts DEF Post
<1>2. GoodChain(chain[a]) /\ GoodChain(doc) /\ Linked(doc) /\ doc # <<>>
    BY <1>1 DEF Inv, ChainInv, DocOK, Listening
<1>3. chain[a][1] \in Geneses /\ Len(chain[a]) \in Nat /\ Len(doc) \in Nat
    BY <1>2, GoodFacts DEF GoodChain
<1>4. GoodChain(Refill(chain[a][1], doc)) /\ Len(Refill(chain[a][1], doc)) = Len(doc)
    BY <1>2, <1>3, RefillFacts
<1>5. GoodChain(c) /\ Len(c) >= Len(doc) /\ (c = chain[a] \/ Len(c) > Len(chain[a]))
    BY <1>2, <1>3, <1>4
<1>6. main[n] \in MainRecord
    BY <1>1 DEF Inv, Shape
<1>7. f \in MainRecord /\ f.pc = "sending" /\ f.doc = doc /\ f.i = main[n].i
      /\ f.got = main[n].got \cup {a}
    BY <1>1, <1>6 DEF MainRecord
<1>8. Answered(n, f) /\ chain' = [chain EXCEPT ![a] = c] /\ UNCHANGED <<nodes, crashes>>
    BY DEF Post
<1> HIDE DEF f, c, a, doc
<1>9. PICK m \in MainRecord :
         /\ SetMain(n, m) /\ losses' \in 0 .. MaxLosses
         /\ m.pc = f.pc /\ m.doc = f.doc /\ m.got = f.got
         /\ m.i <= Len(nodes[n])
    BY <1>1, <1>7, <1>8, AnsweredFacts
<1>10. DocOK(m)
    BY <1>2, <1>7, <1>9 DEF DocOK
<1>11. main'[n] = m /\ \A q \in Nodes \ {n} : main'[q] = main[q]
    BY <1>9 DEF SetMain, Inv, Shape
<1>12. chain'[a] = c /\ \A q \in Nodes \ {a} : chain'[q] = chain[q]
    BY <1>1, <1>8 DEF Inv, Shape
<1>13. ASSUME NEW q \in m.got
       PROVE  Listening(q)' /\ Len(chain'[q]) >= Len(m.doc)
    <2>1. q \in Nodes /\ Listening(q) /\ (q # a => q \in main[n].got)
        BY <1>1, <1>6, <1>7, <1>9, <1>13 DEF Inv, Took, MainRecord
    <2>2. Listening(q)'
        BY <1>7, <1>9, <1>11, <2>1 DEF Listening
    <2>3. CASE q = a
        BY <1>5, <1>7, <1>9, <1>12, <2>2, <2>3
    <2>4. CASE q # a
        BY <1>1, <1>7, <1>9, <1>12, <2>1, <2>2, <2>4 DEF Inv, Took, doc
    <2> QED
        BY <2>3, <2>4
<1>14. Took(m)'
    BY <1>13 DEF Took
<1>15. crashes' \in 0 .. MaxCrashes /\ m.pc \in Serving /\ Listening(n)
    BY <1>1, <1>7, <1>8, <1>9 DEF Inv, Shape, Serving, Listening
<1> QED
    BY <1>1, <1>5, <1>8, <1>9, <1>10, <1>14, <1>15, LongerInv

\* The block that is mined is offered for the end of the chain as it is by then,
\* so if addBlock takes it, it links; and only a linked chain is sent.
LEMMA MinedInv ==
    ASSUME Inv, NEW n \in Nodes, Mined(n)
    PROVE  Inv' /\ Grows
<1> DEFINE b == Found(n)
           c == IF Acceptable(b) THEN Append(chain[n], b) ELSE chain[n]
           ok == \A k \in 1 .. Len(c) - 1 : ValidLink(c, k)
           f == [Menu EXCEPT !.pc = "sending", !.doc = c]
           m == IF ok THEN f ELSE Menu
<1>1. main[n].pc = "mining" /\ Listening(n) /\ main[n] \in MainRecord
    BY DEF Mined, Listening, Inv, Shape
<1>2. GoodChain(chain[n]) /\ main[n].data \in Data
    BY <1>1 DEF Inv, ChainInv, DocOK
<1>3. /\ Len(chain[n]) \in Nat /\ LastHash(n) \in Hash /\ chain[n] # <<>>
      /\ LastHash(n) = chain[n][Len(chain[n])].hash
    BY <1>2, GoodFacts DEF LastHash
<1>4. b \in Block /\ b.index = Len(chain[n]) /\ b.previousHash = LastHash(n)
    <2> DEFINE g == CHOOSE x \in Golden : TRUE
    <2>1. g \in Nonces
        BY NetworkAssumption DEF Nonces
    <2>2. main[n].num \in Nat /\ main[n].prev \in Hash /\ main[n].data \in Payload
        BY <1>1, <1>2 DEF MainRecord, Payload
    <2> DEFINE h == Sha256(main[n].num, main[n].prev, main[n].data, g)
    <2>3. h \in Hash
        BY <2>1, <2>2, Sha256Facts
    <2>4. b = NewBlock(Len(chain[n]), LastHash(n), h, g, main[n].data)
        BY DEF Found
    <2> HIDE DEF h, g, b
    <2> QED
        BY <1>3, <2>1, <2>2, <2>3, <2>4 DEF NewBlock, Block
<1> HIDE DEF b
<1>5. GoodChain(c) /\ (c = chain[n] \/ Len(c) > Len(chain[n]))
    BY <1>2, <1>3, <1>4, AppendFacts
<1>6. chain' = [chain EXCEPT ![n] = c] /\ chain'[n] = c
    BY DEF Mined, Inv, Shape, b
<1>7. SetMain(n, m) /\ UNCHANGED <<nodes, crashes, losses>>
    BY <1>6 DEF Mined
<1>8. ok => Linked(c)
    BY DEF ValidLink, Linked
<1> HIDE DEF c, ok
<1>9. f \in MainRecord /\ f.pc = "sending" /\ f.doc = c /\ f.i = 0 /\ f.got = {}
    <2>1. c \in Seq(Block)
        BY <1>5 DEF GoodChain
    <2> DEFINE e == [Menu EXCEPT !.pc = "sending"]
    <2>2. e \in MainRecord /\ e.pc = "sending" /\ e.i = 0 /\ e.got = {}
        BY MenuFacts DEF Pcs, Menu
    <2>3. f = [e EXCEPT !.doc = c]
        BY DEF Menu
    <2> HIDE DEF e, f
    <2> QED
        BY <2>1, <2>2, <2>3 DEF MainRecord
<1>10. c # <<>>
    BY <1>5, GoodFacts
<1>11. PICK r \in MainRecord : r = m
    <2>1. m \in MainRecord
        BY <1>9, MenuFacts
    <2> QED
        BY <2>1
<1>12. (ok => r = f) /\ (~ok => r = Menu)
    BY <1>11
<1> HIDE DEF f, m
<1>13. SetMain(n, r)
    BY <1>7, <1>11
<1>14. DocOK(r) /\ r.pc \in Serving /\ r.i = 0 /\ r.got = {}
    <2>1. CASE ok
        BY <1>5, <1>8, <1>9, <1>10, <1>12, <2>1 DEF DocOK, Serving
    <2>2. CASE ~ok
        BY <1>12, <2>2, MenuFacts DEF DocOK, Serving
    <2> QED
        BY <2>1, <2>2
<1>15. Took(r)'
    BY <1>14 DEF Took
<1>16. /\ Len(nodes[n]) \in Nat /\ r.i <= Len(nodes[n])
       /\ crashes' \in 0 .. MaxCrashes /\ losses' \in 0 .. MaxLosses
    BY <1>7, <1>14, LenProperties DEF Inv, Shape
<1>17. PICK d : d = c
    OBVIOUS
<1> QED
    BY <1>1, <1>5, <1>6, <1>7, <1>13, <1>14, <1>15, <1>16, <1>17, LongerInv

\* A process that begins, or that ends before it serves anyone.
LEMMA BeginInv ==
    ASSUME Inv, NEW n \in Nodes, ~Listening(n),
           NEW m \in MainRecord, SetMain(n, m), m.pc \in {"down", "announce", "menu"},
           m.doc = <<>>, m.i = 0,
           NEW c \in Seq(Block), chain' = [chain EXCEPT ![n] = c],
           IF m.pc = "down" THEN c = <<>> ELSE GoodChain(c),
           NEW l \in Seq(Nodes), nodes' = [nodes EXCEPT ![n] = l],
           \A k \in 1 .. Len(l) : l[k] # n,
           UNCHANGED <<crashes, losses>>
    PROVE  Inv' /\ Grows
<1>1. main'[n] = m /\ \A p \in Nodes \ {n} : main'[p] = main[p]
    BY DEF SetMain, Inv, Shape
<1>2. chain'[n] = c /\ \A p \in Nodes \ {n} : chain'[p] = chain[p]
    BY DEF Inv, Shape
<1>3. nodes'[n] = l /\ \A p \in Nodes \ {n} : nodes'[p] = nodes[p]
    BY DEF Inv, Shape
<1>4. Grows
    BY <1>1, <1>2 DEF Grows, Listening
<1>5. Shape'
    BY DEF Inv, Shape, SetMain
<1>6. ASSUME NEW p \in Nodes
      PROVE  ChainInv(p)' /\ NotSelf(p)' /\ (p # n => Len(nodes'[p]) >= Len(nodes[p]))
    <2>1. CASE p = n
        BY <1>1, <1>2, <1>3, <2>1 DEF ChainInv, NotSelf
    <2>2. CASE p # n
        <3>1. main'[p] = main[p] /\ chain'[p] = chain[p] /\ nodes'[p] = nodes[p]
            BY <1>1, <1>2, <1>3, <2>2
        <3>2. ChainInv(p) /\ NotSelf(p) /\ nodes[p] \in Seq(Nodes)
            BY DEF Inv, ListInv, Shape
        <3>3. Len(nodes[p]) \in Nat
            BY <3>2, LenProperties
        <3> QED
            BY <3>1, <3>2, <3>3 DEF ChainInv, NotSelf
    <2> QED
        BY <2>1, <2>2
<1>7. DocOK(m) /\ Took(m)'
    BY DEF DocOK, Took
<1>8. m.i <= Len(nodes'[n])
    BY <1>3, LenProperties
<1> QED
    BY <1>4, <1>5, <1>6, <1>7, <1>8, StepInv

LEMMA StartInv ==
    ASSUME Inv, NEW n \in Nodes, Start(n)
    PROVE  Inv' /\ Grows
<1>1. PICK g \in GenesisNonces : chain' = [chain EXCEPT ![n] = <<GenesisOf(g)>>]
    BY DEF Start
<1>2. GoodChain(<<GenesisOf(g)>>)
    BY StartChain
<1>3. <<GenesisOf(g)>> \in Seq(Block)
    BY <1>2 DEF GoodChain
<1>4. <<>> \in Seq(Nodes) /\ Len(<<>>) = 0
    BY EmptySeq
<1>5. \A k \in 1 .. Len(<<>>) : <<>>[k] # n
    BY <1>4
<1>6. ~Listening(n) /\ nodes' = [nodes EXCEPT ![n] = <<>>] /\ SetMain(n, Menu)
      /\ UNCHANGED <<crashes, losses>>
    BY DEF Start, Listening
<1> DEFINE c == <<GenesisOf(g)>>
           l == <<>>
<1> HIDE DEF c, l
<1> QED
    BY <1>1, <1>2, <1>3, <1>4, <1>5, <1>6, MenuFacts, BeginInv DEF c, l

LEMMA JoinInv ==
    ASSUME Inv, NEW n \in Nodes, Join(n)
    PROVE  Inv' /\ Grows
<1>1. PICK g \in GenesisNonces : chain' = [chain EXCEPT ![n] = <<GenesisOf(g)>>]
    BY DEF Join
<1> DEFINE c == <<GenesisOf(g)>>
           m == [Menu EXCEPT !.pc = "announce"]
<1>2. GoodChain(c)
    BY StartChain
<1>3. c \in Seq(Block)
    BY <1>2 DEF GoodChain
<1>4. PICK l \in SetToAllKPermutations(Nodes \ {n}) : nodes' = [nodes EXCEPT ![n] = l]
    BY DEF Join
<1>5. PICK s \in SUBSET (Nodes \ {n}) : l \in SetToSeqs(s)
    BY <1>4 DEF SetToAllKPermutations
<1>6. l \in [1 .. Cardinality(s) -> s]
    BY <1>5 DEF SetToSeqs
<1>7. Cardinality(s) \in Nat
    <2>1. s \in SUBSET Nodes
        OBVIOUS
    <2>2. IsFiniteSet(s)
        BY <2>1, NetworkAssumption, FS_Subset
    <2> QED
        BY <2>2, FS_CardinalityType
<1>8. l \in [1 .. Cardinality(s) -> Nodes \ {n}]
    BY <1>6
<1>9. l \in Seq(Nodes \ {n}) /\ \A k \in 1 .. Len(l) : l[k] \in Nodes \ {n}
    BY <1>7, <1>8, FunctionIsSeq, ElementOfSeq
<1>10. l \in Seq(Nodes)
    BY <1>9, SeqMonotonic
<1>11. m \in MainRecord /\ m.pc = "announce" /\ m.doc = <<>> /\ m.i = 0
    BY MenuFacts DEF Menu, Pcs
<1>12. ~Listening(n) /\ SetMain(n, m) /\ UNCHANGED <<crashes, losses>>
       /\ chain' = [chain EXCEPT ![n] = c]
    BY <1>1 DEF Join, Listening
<1> HIDE DEF c, m
<1> QED
    BY <1>2, <1>3, <1>4, <1>9, <1>10, <1>11, <1>12, BeginInv

LEMMA JoinedInv ==
    ASSUME Inv, NEW n \in Nodes, Joined(n)
    PROVE  Inv' /\ Grows
<1>1. main[n].pc = "fetch" /\ ~Listening(n) /\ UNCHANGED <<crashes, losses>>
    BY DEF Joined, Listening
<1>2. GoodChain(chain[n])
    BY <1>1 DEF Inv, ChainInv
<1>3. CASE main[n].doc = <<>>
    <2>1. <<>> \in Seq(Nodes) /\ <<>> \in Seq(Block) /\ Len(<<>>) = 0
        BY EmptySeq
    <2>2. /\ chain' = [chain EXCEPT ![n] = <<>>] /\ nodes' = [nodes EXCEPT ![n] = <<>>]
          /\ SetMain(n, Down)
        BY <1>3 DEF Joined
    <2>3. Down \in MainRecord /\ Down.pc = "down" /\ Down.doc = <<>> /\ Down.i = 0
        BY MenuFacts DEF Down, Menu
    <2>4. \A k \in 1 .. Len(<<>>) : <<>>[k] # n
        BY <2>1
    <2> DEFINE c == <<>>
    <2> HIDE DEF c
    <2> QED
        BY <1>1, <2>1, <2>2, <2>3, <2>4, BeginInv DEF c
<1>4. CASE main[n].doc # <<>>
    <2> DEFINE c == Refill(chain[n][1], main[n].doc)
    <2>1. GoodChain(main[n].doc) /\ chain[n][1] \in Geneses
        BY <1>2, <1>4 DEF Inv, DocOK, GoodChain
    <2>2. GoodChain(c)
        BY <2>1, RefillFacts
    <2>3. chain' = [chain EXCEPT ![n] = c] /\ SetMain(n, Menu) /\ UNCHANGED nodes
        BY <1>4 DEF Joined
    <2>4. /\ nodes' = [nodes EXCEPT ![n] = nodes[n]] /\ nodes[n] \in Seq(Nodes)
          /\ \A k \in 1 .. Len(nodes[n]) : nodes[n][k] # n
        BY <2>3 DEF Inv, Shape, ListInv, NotSelf
    <2> HIDE DEF c
    <2>5. c \in Seq(Block)
        BY <2>2 DEF GoodChain
    <2> QED
        BY <1>1, <2>2, <2>3, <2>4, <2>5, MenuFacts, BeginInv
<1> QED
    BY <1>3, <1>4

\* A process that ends is forgotten by those that wait to hear of its chain.
LEMMA CrashInv ==
    ASSUME Inv, NEW n \in Nodes, Crash(n)
    PROVE  Inv' /\ \A p \in Nodes : Listening(p)' => chain'[p] = chain[p]
<1>1. /\ main'[n] = Down /\ chain'[n] = <<>> /\ nodes'[n] = <<>>
      /\ \A p \in Nodes \ {n} :
            /\ main'[p] = [main[p] EXCEPT !.got = main[p].got \ {n}]
            /\ chain'[p] = chain[p] /\ nodes'[p] = nodes[p]
    BY DEF Crash, Inv, Shape
<1>2. ASSUME NEW p \in Nodes \ {n}
      PROVE  /\ main'[p] \in MainRecord
             /\ main'[p].pc = main[p].pc /\ main'[p].doc = main[p].doc
             /\ main'[p].i = main[p].i /\ main'[p].data = main[p].data
             /\ main'[p].got = main[p].got \ {n}
    <2>1. main[p] \in MainRecord
        BY DEF Inv, Shape
    <2> QED
        BY <1>1, <2>1 DEF MainRecord
<1>3. <<>> \in Seq(Block) /\ <<>> \in Seq(Nodes) /\ Len(<<>>) = 0
    BY EmptySeq
<1>4. /\ Down \in MainRecord /\ Down.pc = "down" /\ Down.doc = <<>> /\ Down.i = 0
    BY MenuFacts DEF Down, Menu
<1>5. Shape'
    <2>1. chain' \in [Nodes -> Seq(Block)]
        BY <1>3 DEF Crash, Inv, Shape
    <2>2. nodes' \in [Nodes -> Seq(Nodes)]
        BY <1>3 DEF Crash, Inv, Shape
    <2>3. main' = [p \in Nodes |-> main'[p]]
        BY DEF Crash
    <2>4. \A p \in Nodes : main'[p] \in MainRecord
        BY <1>1, <1>2, <1>4
    <2>5. crashes' \in 0 .. MaxCrashes /\ losses' \in 0 .. MaxLosses
        BY NetworkAssumption DEF Crash, Inv, Shape
    <2> QED
        BY <2>1, <2>2, <2>3, <2>4, <2>5 DEF Shape
<1>6. ASSUME NEW p \in Nodes
      PROVE  ChainInv(p)' /\ ListInv(p)' /\ DocOK(main[p])' /\ Took(main[p])'
    <2>1. CASE p = n
        <3>1. \A k \in 1 .. Len(nodes'[n]) : FALSE
            BY <1>1, <1>3
        <3> QED
            BY <1>1, <1>3, <1>4, <2>1, <3>1 DEF ChainInv, ListInv, NotSelf, DocOK, Took
    <2>2. CASE p # n
        <3>1. ChainInv(p)'
            BY <1>1, <1>2, <2>2 DEF Inv, ChainInv
        <3>2. ListInv(p)'
            <4>1. ListInv(p) /\ nodes'[p] = nodes[p] /\ main'[p].i = main[p].i
                BY <1>1, <1>2, <2>2 DEF Inv
            <4> QED
                BY <4>1 DEF ListInv, NotSelf
        <3>3. DocOK(main[p])'
            BY <1>2, <2>2 DEF Inv, DocOK
        <3>4. ASSUME main[p].pc = "sending", NEW q \in main'[p].got
              PROVE  Listening(q)' /\ Len(chain'[q]) >= Len(main'[p].doc)
            <4>1. q \in Nodes \ {n} /\ Listening(q) /\ Len(chain[q]) >= Len(main[p].doc)
                BY <1>2, <2>2, <3>4 DEF Inv, Shape, MainRecord, Took
            <4> QED
                BY <1>1, <1>2, <2>2, <4>1 DEF Listening
        <3>5. Took(main[p])'
            BY <1>2, <2>2, <3>4 DEF Took
        <3> QED
            BY <3>1, <3>2, <3>3, <3>5
    <2> QED
        BY <2>1, <2>2
<1>7. Inv'
    BY <1>5, <1>6 DEF Inv
<1>8. \A p \in Nodes : Listening(p)' => chain'[p] = chain[p]
    BY <1>1, <1>4 DEF Listening
<1> QED
    BY <1>7, <1>8

LEMMA InitInv == Init => Inv
<1> SUFFICES ASSUME Init
             PROVE  Inv
    OBVIOUS
<1>1. <<>> \in Seq(Block) /\ <<>> \in Seq(Nodes) /\ Len(<<>>) = 0
    BY EmptySeq
<1>2. Down \in MainRecord /\ Down.pc = "down" /\ Down.doc = <<>> /\ Down.i = 0
    BY MenuFacts DEF Down, Menu
<1>3. 0 \in 0 .. MaxCrashes /\ 0 \in 0 .. MaxLosses
    BY NetworkAssumption
<1>4. Shape
    BY <1>1, <1>2, <1>3 DEF Init, Shape
<1>5. \A n \in Nodes : chain[n] = <<>> /\ nodes[n] = <<>> /\ main[n] = Down
    BY DEF Init
<1>6. \A n \in Nodes : \A k \in 1 .. Len(nodes[n]) : FALSE
    BY <1>1, <1>5
<1>7. \A n \in Nodes : ChainInv(n) /\ ListInv(n) /\ DocOK(main[n]) /\ Took(main[n])
    BY <1>1, <1>2, <1>5, <1>6 DEF ChainInv, ListInv, NotSelf, DocOK, Took
<1> QED
    BY <1>4, <1>7 DEF Inv

\* What OnlyGrows says of one step.
Longer == \A n \in Nodes : Listening(n) /\ Listening(n)' =>
              chain'[n] = chain[n] \/ Len(chain'[n]) > Len(chain[n])

LEMMA InvStep == Inv /\ [Next]_vars => Inv' /\ Longer
<1> SUFFICES ASSUME Inv, [Next]_vars
             PROVE  Inv' /\ Longer
    OBVIOUS
<1>1. Grows => Longer
    BY DEF Grows, Longer
<1>2. CASE UNCHANGED vars
    BY <1>2 DEF vars, Inv, Shape, ChainInv, ListInv, NotSelf, DocOK, Took, Listening, Longer
<1>3. CASE Next
    <2>1. PICK n \in Nodes : Start(n) \/ Join(n) \/ Crash(n) \/ Mine(n) \/ Progress(n)
        BY <1>3 DEF Next
    <2>2. CASE Start(n) \/ Join(n)
        BY <1>1, <2>2, StartInv, JoinInv
    <2>3. CASE Crash(n)
        BY <2>3, CrashInv DEF Longer
    <2>4. CASE Mine(n) \/ Announced(n) \/ CalledOff(n) \/ Sent(n)
        BY <1>1, <2>4, PlacesInv
    <2>5. CASE Unanswered(n, "announce") \/ Unanswered(n, "fetch") \/ Unanswered(n, "sending")
        BY <1>1, <2>5, UnansweredInv DEF Pcs
    <2>6. CASE Announce(n) \/ Fetch(n) \/ Joined(n)
        BY <1>1, <2>6, AnnounceInv, FetchInv, JoinedInv
    <2>7. CASE Mined(n) \/ Post(n)
        BY <1>1, <2>7, MinedInv, PostInv
    <2> QED
        BY <2>1, <2>2, <2>3, <2>4, <2>5, <2>6, <2>7 DEF Progress
<1> QED
    BY <1>2, <1>3

LEMMA InvAlways == Spec => []Inv
    BY InitInv, InvStep, PTL DEF Spec

-----------------------------------------------------------------------------
\* Whatever nodes start, join, mine, send, crash and lose requests: a block sits
\* at its index, no node lists itself, and a node that serves has a chain.
THEOREM TypeCorrect == Spec => []TypeOK
<1>1. Inv => TypeOK
    <2> SUFFICES ASSUME Inv
                 PROVE  TypeOK
        OBVIOUS
    <2>1. ASSUME NEW n \in Nodes
          PROVE  /\ \A k \in 1 .. Len(chain[n]) : chain[n][k].index = k - 1
                 /\ Listening(n) => chain[n] # <<>>
        <3>1. CASE main[n].pc = "down"
            <4>1. chain[n] = <<>> /\ Len(<<>>) = 0
                BY <3>1, EmptySeq DEF Inv, ChainInv
            <4>2. \A k \in 1 .. Len(chain[n]) : FALSE
                BY <4>1
            <4> QED
                BY <3>1, <4>2 DEF Listening
        <3>2. CASE main[n].pc # "down"
            BY <3>2, GoodFacts DEF Inv, ChainInv
        <3> QED
            BY <3>1, <3>2
    <2>2. ASSUME NEW n \in Nodes, NEW k \in 1 .. Len(nodes[n])
          PROVE  nodes[n][k] \in Nodes \ {n}
        <3>1. nodes[n] \in Seq(Nodes)
            BY DEF Inv, Shape
        <3>2. nodes[n][k] \in Nodes
            BY <3>1, ElementOfSeq
        <3> QED
            BY <3>2 DEF Inv, ListInv, NotSelf
    <2>3. ASSUME NEW n \in Nodes
          PROVE  /\ main[n].pc \in Pcs /\ main[n].got \subseteq Nodes
                 /\ main[n].i \in 0 .. Len(nodes[n])
        <3>1. main[n] \in MainRecord /\ nodes[n] \in Seq(Nodes) /\ main[n].i <= Len(nodes[n])
            BY DEF Inv, Shape, ListInv
        <3> QED
            BY <3>1, LenProperties DEF MainRecord
    <2> QED
        BY <2>1, <2>2, <2>3 DEF TypeOK, Pcs, Inv, Shape
<1> QED
    BY <1>1, InvAlways, PTL

\* The blocks of a node that serves link, past the first link whatever genesis
\* block it found, and all of them where one genesis block is all there is.
THEOREM ChainsAreLinked == Spec => []ChainsLinked
<1>1. Inv => ChainsLinked
    BY DEF Inv, ChainInv, GoodChain, ChainsLinked, Running, Listening
<1> QED
    BY <1>1, InvAlways, PTL

\* A document that is sent links from its first block on.
THEOREM SentChainsLinked == Spec => []SentLinked
<1>1. Inv => SentLinked
    BY DEF Inv, DocOK, SentLinked
<1> QED
    BY <1>1, InvAlways, PTL

\* While n sends, each running node that took its chain in has one as long.
THEOREM BroadcastsReach == Spec => []BroadcastReaches
<1>1. Inv => BroadcastReaches
    BY DEF Inv, Took, BroadcastReaches
<1> QED
    BY <1>1, InvAlways, PTL

\* No step gives up a serving node's chain for one that is not longer.
THEOREM ChainsOnlyGrow == Spec => OnlyGrows
<1>1. Inv /\ [Next]_vars => [Longer]_vars
    BY InvStep
<1> QED
    BY <1>1, InvAlways, PTL DEF Spec, OnlyGrows, Longer

-----------------------------------------------------------------------------
(* One node of the network, as Ledger sees it. *)

\* The documents of the network, as Node knows them, and the chains with which a
\* node of genesis nonce g begins to serve.
Documents == {[length |-> Len(d), data |-> d] : d \in {c \in Seq(Block) : GoodChain(c)}}

Begins(g) ==
    {<<GenesisOf(g)>>} \cup
    {[k \in 1 .. c.length |-> IF k = 1 THEN GenesisOf(g) ELSE c.data[k]] : c \in Documents}

Own(n, g) == INSTANCE Ledger
    WITH ledger <- chain[n], raced <- FALSE, Contents <- Documents, Starts <- Begins(g),
         GenesisNonce <- g

\* A serving node's chain changes as Ledger says, and begins so.
KeepsLedger(n, g) ==
    chain'[n][1] = GenesisOf(g) /\ Listening(n)' =>
        IF Listening(n) THEN chain'[n] = chain[n] \/ Own(n, g)!LedgerNext ELSE Own(n, g)!New'

\* The documents are such as NodeAssumption asks for.
LEMMA DocumentFacts ==
    ASSUME NEW d, GoodChain(d)
    PROVE  LET c == [length |-> Len(d), data |-> d] IN c \in Documents /\ WellFormed(c)
<1> DEFINE c == [length |-> Len(d), data |-> d]
<1>1. d \in Seq(Block) /\ Len(d) \in Nat /\ Len(d) >= 1
    BY GoodFacts DEF GoodChain
<1>2. c \in Documents
    BY <1>1 DEF Documents
<1>3. d \in Seq(Block \cup {Null})
    BY <1>1
<1>4. c \in Json
    BY <1>1, <1>3 DEF Json
<1>5. \A k \in 1 .. Len(d) : d[k].index = k - 1 /\ (k > 1 => Acceptable(d[k]))
    BY <1>1, GoodFacts DEF GoodChain
<1> QED
    BY <1>2, <1>4, <1>5 DEF WellFormed

\* What a node makes of a document is the same to Ledger.
LEMMA RefillIsInstalled ==
    ASSUME NEW n, NEW g \in GenesisNonces, NEW d, GoodChain(d)
    PROVE  LET c == [length |-> Len(d), data |-> d]
           IN  /\ Refill(GenesisOf(g), d) = Own(n, g)!Installed(c)
               /\ Refill(GenesisOf(g), d) \in Begins(g)
               /\ Refill(GenesisOf(g), d)[1] = GenesisOf(g)
<1> DEFINE c     == [length |-> Len(d), data |-> d]
           taken == {k \in 1 .. Len(d) :
                        \A j \in 2 .. k : Acceptable(d[j]) /\ d[j].index = j - 1}
           lead  == Own(n, g)!Leading(c)
           r     == [k \in 1 .. Len(d) |-> IF k = 1 THEN GenesisOf(g) ELSE d[k]]
<1>1. d \in Seq(Block) /\ Len(d) \in Nat /\ \A k \in 1 .. Len(d) : d[k] \in Block
    BY GoodFacts DEF GoodChain
<1>2. taken = 1 .. Len(d)
    BY <1>1 DEF GoodChain
<1>3. \A k \in 1 .. Len(d) : d[k] # Null
    BY <1>1, ChainAssumption
<1>4. lead = 1 .. Len(d)
    BY <1>1, <1>3 DEF Own!Leading, Own!Entry
<1>5. Cardinality(1 .. Len(d)) = Len(d)
    <2>1. Cardinality(1 .. Len(d)) = IF 1 > Len(d) THEN 0 ELSE Len(d) - 1 + 1
        BY <1>1, FS_Interval
    <2> QED
        BY <1>1, <2>1
<1>6. Refill(GenesisOf(g), d) = r
    BY <1>2, <1>5, Zenon DEF Refill
<1>7. Own(n, g)!Installed(c) = r
    <2>1. Own(n, g)!Genesis = GenesisOf(g)
        BY DEF Own!Genesis, GenesisOf, Own!NewBlock, NewBlock, Own!Sha256, Sha256,
               Own!NoHash, NoHash
    <2>2. Own(n, g)!Installed(c)
             = [k \in 1 .. Cardinality(lead) |-> IF k = 1 THEN Own(n, g)!Genesis ELSE c.data[k]]
        BY DEF Own!Installed, Own!Cardinality, Cardinality, Own!IsFiniteSet, IsFiniteSet
    <2>3. c.data = d
        OBVIOUS
    <2> HIDE DEF c
    <2> QED
        BY <1>4, <1>5, <2>1, <2>2, <2>3, Zenon
<1>8. c \in Documents /\ c.length = Len(d) /\ c.data = d
    BY DocumentFacts
<1>9. r \in Begins(g)
    BY <1>8 DEF Begins
<1>10. r[1] = GenesisOf(g)
    BY <1>1, GoodFacts
<1> HIDE DEF r
<1> QED
    BY <1>6, <1>7, <1>9, <1>10

\* A main thread that is not the actor's serves on, and the actor's does what it sets.
LEMMA OthersKeep ==
    ASSUME Inv, NEW n \in Nodes, NEW p \in Nodes, NEW m, SetMain(n, m),
           p = n /\ m.pc \in Serving => main[n].pc \in Serving, Listening(p)'
    PROVE  Listening(p)
BY DEF SetMain, Inv, Shape, Listening, Serving

\* The steps that write no chain, and after which no more nodes serve.
LEMMA IdleLedger ==
    ASSUME Inv, NEW n \in Nodes, NEW p \in Nodes, Listening(p)',
           \/ Mine(n) \/ Announce(n) \/ Announced(n) \/ Fetch(n) \/ CalledOff(n) \/ Sent(n)
           \/ Unanswered(n, "announce") \/ Unanswered(n, "fetch") \/ Unanswered(n, "sending")
    PROVE  Listening(p) /\ chain' = chain
<1>1. main[n] \in MainRecord
    BY DEF Inv, Shape
<1>2. CASE Mine(n)
    <2>1. main[n].pc = "menu" /\ chain' = chain
        BY <1>2, Zenon DEF Mine
    <2>2. PICK d \in Data : SetMain(n, [Menu EXCEPT !.pc = "mining", !.num = Len(chain[n]),
                                                   !.prev = LastHash(n), !.data = d])
        BY <1>2, Zenon DEF Mine
    <2> QED
        BY <2>1, <2>2, OthersKeep DEF Serving
<1>3. CASE CalledOff(n) \/ Sent(n)
    <2>1. SetMain(n, Menu)
        BY <1>3 DEF CalledOff, Sent
    <2> QED
        BY <1>3, <2>1, OthersKeep DEF CalledOff, Sent, Serving
<1>4. CASE Announced(n)
    <2>1. SetMain(n, [Menu EXCEPT !.pc = "fetch"]) /\ [Menu EXCEPT !.pc = "fetch"].pc = "fetch"
        BY <1>4 DEF Announced, Menu
    <2> QED
        BY <1>4, <2>1, OthersKeep DEF Announced, Serving
<1>5. CASE Announce(n)
    <2>1. PICK m \in MainRecord : SetMain(n, m) /\ m.pc = main[n].pc
        BY <1>1, <1>5, AnsweredFacts DEF Announce
    <2> QED
        BY <1>5, <2>1, OthersKeep DEF Announce
<1>6. CASE Fetch(n)
    <2> DEFINE c == chain[Asked(n)]
               d == IF Len(c) > Len(main[n].doc) THEN c ELSE main[n].doc
               f == [main[n] EXCEPT !.doc = d, !.got = main[n].got \cup {Asked(n)}]
    <2>1. HasNext(n) /\ Asked(n) \in Nodes
        BY <1>6, AskedFacts DEF Fetch
    <2>2. f \in MainRecord /\ f.pc = main[n].pc /\ f.i = main[n].i
        BY <1>1, <2>1 DEF MainRecord, Inv, Shape
    <2>3. Answered(n, f)
        BY <1>6 DEF Fetch
    <2> HIDE DEF f, d, c
    <2>4. PICK m \in MainRecord : SetMain(n, m) /\ m.pc = main[n].pc
        BY <2>1, <2>2, <2>3, AnsweredFacts
    <2> QED
        BY <1>6, <2>4, OthersKeep DEF Fetch
<1>7. ASSUME NEW pc, Unanswered(n, pc)
      PROVE  Listening(p) /\ chain' = chain
    <2>1. SetMain(n, NextPeer(main[n])) /\ NextPeer(main[n]).pc = main[n].pc
        BY <1>1, <1>7, NextPeerFacts DEF Unanswered
    <2> QED
        BY <1>7, <2>1, OthersKeep DEF Unanswered
<1> QED
    BY <1>2, <1>3, <1>4, <1>5, <1>6, <1>7

\* A process that begins, ends, or has fetched its chain.
LEMMA BeginLedger ==
    ASSUME Inv, NEW n \in Nodes, NEW p \in Nodes, NEW g \in GenesisNonces,
           Listening(p)', chain'[p][1] = GenesisOf(g),
           Start(n) \/ Join(n) \/ Joined(n) \/ Crash(n)
    PROVE  \/ Listening(p) /\ chain'[p] = chain[p]
           \/ ~Listening(p) /\ chain'[p] \in Begins(g)
<1>1. CASE p # n
    <2>1. chain'[p] = chain[p]
        BY <1>1 DEF Start, Join, Joined, Crash, Inv, Shape
    <2>2. CASE Start(n) \/ Join(n) \/ Joined(n)
        <3>1. PICK m : SetMain(n, m)
            BY <2>2 DEF Start, Join, Joined
        <3> QED
            BY <1>1, <2>1, <3>1, OthersKeep
    <2>3. CASE Crash(n)
        <3>1. main'[p] = [main[p] EXCEPT !.got = main[p].got \ {n}]
            BY <1>1, <2>3 DEF Crash
        <3>2. main[p] \in MainRecord
            BY DEF Inv, Shape
        <3>3. main'[p].pc = main[p].pc
            BY <3>1, <3>2 DEF MainRecord
        <3> QED
            BY <2>1, <3>3 DEF Listening
    <2> QED
        BY <2>2, <2>3
<1>2. CASE p = n /\ Start(n)
    <2>1. PICK h \in GenesisNonces : chain' = [chain EXCEPT ![n] = <<GenesisOf(h)>>]
        BY <1>2 DEF Start
    <2>2. chain'[n] = <<GenesisOf(h)>> /\ <<GenesisOf(h)>>[1] = GenesisOf(h)
        BY <2>1 DEF Inv, Shape
    <2> QED
        BY <1>2, <2>2 DEF Begins, Start, Listening
<1>3. CASE p = n /\ Joined(n)
    <2>1. ~Listening(n) /\ GoodChain(chain[n])
        BY <1>3 DEF Joined, Listening, Inv, ChainInv
    <2>2. CASE main[n].doc = <<>>
        <3>1. main'[n] = Down
            BY <1>3, <2>2 DEF Joined, SetMain, Inv, Shape
        <3> QED
            BY <1>3, <3>1, MenuFacts DEF Down, Menu, Listening
    <2>3. CASE main[n].doc # <<>>
        <3> DEFINE d == main[n].doc
        <3>1. GoodChain(d)
            BY <2>3 DEF Inv, DocOK
        <3>2. chain'[n] = Refill(chain[n][1], d)
            BY <1>3, <2>3 DEF Joined, Inv, Shape
        <3>3. PICK h \in GenesisNonces : chain[n][1] = GenesisOf(h)
            BY <2>1 DEF GoodChain, Geneses
        <3> HIDE DEF d
        <3>4. chain'[n] = Refill(GenesisOf(g), d)
            BY <1>3, <3>1, <3>2, <3>3, RefillIsInstalled
        <3> QED
            BY <1>3, <2>1, <3>1, <3>4, RefillIsInstalled
    <2> QED
        BY <2>2, <2>3
<1>4. CASE p = n /\ (Join(n) \/ Crash(n))
    <2>1. CASE Join(n)
        <3>1. main'[n] = [Menu EXCEPT !.pc = "announce"]
            BY <2>1 DEF Join, SetMain, Inv, Shape
        <3> QED
            BY <1>4, <3>1 DEF Menu, Listening
    <2>2. CASE Crash(n)
        <3>1. main'[n] = Down
            BY <2>2 DEF Crash
        <3> QED
            BY <1>4, <3>1, MenuFacts DEF Down, Menu, Listening
    <2> QED
        BY <1>4, <2>1, <2>2
<1> QED
    BY <1>1, <1>2, <1>3, <1>4

\* The block that is mined is one that Ledger stores.
LEMMA MinedLedger ==
    ASSUME Inv, NEW n \in Nodes, NEW p \in Nodes, NEW g, Mined(n)
    PROVE  (chain'[p] = chain[p] \/ Own(p, g)!LedgerNext) /\ (Listening(p)' => Listening(p))
<1> DEFINE b == Found(n)
           c == chain[n]
<1>1. main[n].pc \in Serving /\ GoodChain(c)
    BY DEF Mined, Serving, Inv, ChainInv
<1>2. Listening(p)' => Listening(p)
    <2>1. PICK m : SetMain(n, m)
        BY DEF Mined
    <2> QED
        BY <1>1, <2>1, OthersKeep
<1>3. CASE p = n /\ Acceptable(b)
    <2>1. chain'[n] = Append(c, b)
        BY <1>3 DEF Mined, Inv, Shape
    <2>2. c \in Seq(Block) /\ Len(c) \in Nat
        BY <1>1, GoodFacts DEF GoodChain
    <2>3. chain'[n][Len(chain'[n])] = b
        BY <2>1, <2>2
    <2>4. b.index = Len(c) /\ b.previousHash = c[Len(c)].hash
        BY DEF Found, NewBlock, LastHash
    <2> HIDE DEF b, c
    <2>5. Own(n, g)!Acceptable(b)
        BY <1>3 DEF Own!Acceptable, Acceptable, Own!HeaderMatches, HeaderMatches,
           Own!MeetsTarget, MeetsTarget, Own!Sha256, Sha256, Own!NoHash, NoHash
    <2>6. Own(n, g)!Store(b)
        BY <2>1, <2>4, <2>5 DEF Own!Store, c
    <2> QED
        BY <1>2, <1>3, <2>3, <2>6 DEF Own!LedgerNext
<1>4. CASE p # n \/ ~Acceptable(b)
    BY <1>2, <1>4 DEF Mined, Inv, Shape
<1> QED
    BY <1>3, <1>4

\* A chain that is received is one that Ledger installs.
LEMMA PostLedger ==
    ASSUME Inv, NEW n \in Nodes, NEW p \in Nodes, NEW g \in GenesisNonces,
           Post(n), chain'[p][1] = GenesisOf(g)
    PROVE  (chain'[p] = chain[p] \/ Own(p, g)!LedgerNext) /\ (Listening(p)' => Listening(p))
<1> DEFINE a == Asked(n)
           d == main[n].doc
           c == [length |-> Len(d), data |-> d]
<1>1. main[n].pc \in Serving /\ Listening(a) /\ HasNext(n) /\ a \in Nodes
    BY AskedFacts DEF Post, Serving
<1>2. GoodChain(d) /\ GoodChain(chain[a])
    BY <1>1 DEF Post, Inv, DocOK, ChainInv, Listening
<1>3. Listening(p)' => Listening(p)
    <2>1. PICK m : SetMain(n, m)
        BY DEF Post, Answered
    <2> QED
        BY <1>1, <2>1, OthersKeep
<1>4. CASE p = a /\ Len(d) > Len(chain[a])
    <2>1. chain'[a] = Refill(chain[a][1], d)
        BY <1>1, <1>4 DEF Post, Inv, Shape
    <2>2. PICK h \in GenesisNonces : chain[a][1] = GenesisOf(h)
        BY <1>2 DEF GoodChain, Geneses
    <2> HIDE DEF d, a
    <2>3. chain'[a] = Refill(GenesisOf(g), d)
        BY <1>2, <1>4, <2>1, <2>2, RefillIsInstalled
    <2>4. chain'[p] = Own(p, g)!Installed(c) /\ c \in Documents
        BY <1>2, <1>4, <2>3, RefillIsInstalled, DocumentFacts
    <2>5. c.length > Len(chain[p])
        BY <1>4
    <2> HIDE DEF c
    <2>6. Own(p, g)!Replace(c)
        BY <2>4, <2>5 DEF Own!Replace
    <2> QED
        BY <1>3, <2>4, <2>6 DEF Own!LedgerNext
<1>5. CASE ~(p = a /\ Len(d) > Len(chain[a]))
    BY <1>3, <1>5 DEF Post, Inv, Shape
<1> QED
    BY <1>4, <1>5

LEMMA LedgerStep ==
    ASSUME Inv, [Next]_vars, NEW p \in Nodes, NEW g \in GenesisNonces
    PROVE  KeepsLedger(p, g)
<1> SUFFICES ASSUME chain'[p][1] = GenesisOf(g), Listening(p)'
             PROVE  \/ Listening(p) /\ (chain'[p] = chain[p] \/ Own(p, g)!LedgerNext)
                    \/ ~Listening(p) /\ chain'[p] \in Begins(g)
    BY DEF KeepsLedger, Own!New
<1>1. CASE UNCHANGED vars
    BY <1>1 DEF vars, Listening
<1>2. CASE Next
    <2>1. PICK n \in Nodes : Start(n) \/ Join(n) \/ Crash(n) \/ Mine(n) \/ Progress(n)
        BY <1>2 DEF Next
    <2>2. CASE Start(n) \/ Join(n) \/ Joined(n) \/ Crash(n)
        BY <2>2, BeginLedger
    <2>3. CASE Mined(n)
        BY <2>3, MinedLedger
    <2>4. CASE Post(n)
        BY <2>4, PostLedger
    <2>5. CASE \/ Mine(n) \/ Announce(n) \/ Announced(n) \/ Fetch(n) \/ CalledOff(n) \/ Sent(n)
               \/ Unanswered(n, "announce") \/ Unanswered(n, "fetch") \/ Unanswered(n, "sending")
        BY <2>5, IdleLedger
    <2> QED
        BY <2>1, <2>2, <2>3, <2>4, <2>5 DEF Progress
<1> QED
    BY <1>1, <1>2

\* In a network of any size, a node's chain changes only as Ledger lets it: by a block
\* of its own that fits, or by the whole of a longer document; and it begins with one
\* of the chains a process can begin with.  The documents are those a node is assumed
\* to be sent, so Ledger stands between CpuNode, which implements it in many steps,
\* and Network, which takes them as one.
THEOREM NodesKeepLedger ==
    /\ \A c \in Documents : WellFormed(c)
    /\ Spec => [][\A p \in Nodes, g \in GenesisNonces : KeepsLedger(p, g)]_vars
<1>1. \A c \in Documents : WellFormed(c)
    BY DocumentFacts DEF Documents
<1>2. Inv /\ [Next]_vars => [\A p \in Nodes, g \in GenesisNonces : KeepsLedger(p, g)]_vars
    BY LedgerStep
<1> QED
    BY <1>1, <1>2, InvAlways, PTL DEF Spec

=============================================================================
