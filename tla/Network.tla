------------------------------- MODULE Network -------------------------------
(***************************************************************************)
(* Several nodes: how they join, hear of each other, mine and send their   *)
(* chains.  A node's HTTP handlers are single steps here (Node looks into  *)
(* them), and so is what its command line does to its own chain; between   *)
(* two requests of its client anything may happen at the other nodes.  The *)
(* client has one request under way at a time and waits for the answer.    *)
(***************************************************************************)
EXTENDS Chain, FiniteSets, SequencesExt

CONSTANTS Nodes,         \* ports
          GenesisNonces, \* nonces a node may find for its genesis block: the
                         \* least one on the CPU, any on a GPU
          MaxLength,     \* bound: blocks of a chain
          MaxCrashes,    \* bound: processes that end and may be started again
          MaxLosses,     \* bound: requests that fail though the peer listens
          NameAll,       \* a user who starts a node names all that are running
          Interrupts     \* CUDA: a stale search may be called off

VARIABLES
    chain,    \* bc.blockchain of each node; <<>> before the process has one
    nodes,    \* listOfNodes of each node
    main,     \* the main thread of each node
    crashes, losses

vars == <<chain, nodes, main, crashes, losses>>

ASSUME NetworkAssumption ==
    /\ IsFiniteSet(Nodes) /\ IsFiniteSet(GenesisNonces)
    /\ GenesisNonces \subseteq Golden /\ GenesisNonces # {}
    /\ MaxLength \in Nat /\ MaxCrashes \in Nat /\ MaxLosses \in Nat
    /\ NameAll \in BOOLEAN /\ Interrupts \in BOOLEAN

\* A main thread at the menu, and one that does not run.  doc is what it sends,
\* or the best chain it has been sent; i counts the nodes it has asked; again
\* tells that the request has been repeated; got are those that took doc in.
Menu == [pc |-> "menu", num |-> 0, prev |-> NoHash, data |-> Null,
         doc |-> <<>>, i |-> 0, again |-> FALSE, got |-> {}]
Down == [Menu EXCEPT !.pc = "down"]

\* The server runs from the end of joining on.
Listening(n) == main[n].pc \in {"menu", "mining", "sending"}

GenesisOf(g) == NewBlock(0, NoHash, Sha256(0, NoHash, GenesisData, g), g, GenesisData)

Init ==
    /\ chain = [n \in Nodes |-> <<>>]
    /\ nodes = [n \in Nodes |-> <<>>]
    /\ main = [n \in Nodes |-> Down]
    /\ crashes = 0 /\ losses = 0

SetMain(n, m) == main' = [main EXCEPT ![n] = m]

-----------------------------------------------------------------------------
(* Requests.  The peer the client of n turns to next: *)
Asked(n) == nodes[n][main[n].i + 1]
HasNext(n) == main[n].i < Len(nodes[n])

\* n goes on to the next peer.
NextPeer(m) == [m EXCEPT !.i = @ + 1, !.again = FALSE]

\* Mutant: a node that does not answer is waited for.
UnansweredWaits(n, pc) ==
    /\ main[n].pc = pc /\ HasNext(n) /\ Listening(Asked(n))
    /\ losses < MaxLosses /\ losses' = losses + 1
    /\ SetMain(n, NextPeer(main[n]))
    /\ UNCHANGED <<chain, nodes, crashes>>

\* A request is not answered: nobody listens, or the connection breaks first.
\* The exception is caught, and the next node is asked.
Unanswered(n, pc) ==
    /\ main[n].pc = pc /\ HasNext(n)
    /\ \/ ~Listening(Asked(n)) /\ UNCHANGED losses
       \/ Listening(Asked(n)) /\ losses < MaxLosses /\ losses' = losses + 1
    /\ SetMain(n, NextPeer(main[n]))
    /\ UNCHANGED <<chain, nodes, crashes>>

\* A request reached its handler.  The answer gets through, or the connection
\* breaks and the client sends the request once more.
Answered(n, m) ==
    \/ SetMain(n, NextPeer(m)) /\ UNCHANGED losses
    \/ /\ ~m.again /\ losses < MaxLosses
       /\ losses' = losses + 1
       /\ SetMain(n, [m EXCEPT !.again = TRUE])

-----------------------------------------------------------------------------
(* Starting a process. *)

\* The initial node: a genesis block, and no peers.
Start(n) ==
    /\ main[n].pc = "down"
    /\ NameAll => \A p \in Nodes : main[p].pc = "down"
    /\ \E g \in GenesisNonces : chain' = [chain EXCEPT ![n] = <<GenesisOf(g)>>]
    /\ nodes' = [nodes EXCEPT ![n] = <<>>]
    /\ SetMain(n, Menu)
    /\ UNCHANGED <<crashes, losses>>

\* A node that joins the ports its user names, in the order they are given.
Join(n) ==
    /\ main[n].pc = "down"
    /\ \E named \in SetToAllKPermutations(Nodes \ {n}) :
          /\ named # <<>>
          /\ NameAll => ToSet(named) = {p \in Nodes : Listening(p)}
          /\ nodes' = [nodes EXCEPT ![n] = named]
    /\ \E g \in GenesisNonces : chain' = [chain EXCEPT ![n] = <<GenesisOf(g)>>]
    /\ SetMain(n, [Menu EXCEPT !.pc = "announce"])
    /\ UNCHANGED <<crashes, losses>>

\* Mutant: the port that is sent is the one it is sent to.
AnnounceShadowed(n) ==
    /\ main[n].pc = "announce" /\ HasNext(n) /\ Listening(Asked(n))
    /\ nodes' = [nodes EXCEPT ![Asked(n)] = Append(@, Asked(n))]
    /\ Answered(n, main[n])
    /\ UNCHANGED <<chain, crashes>>

\* POST /addnode: the peer puts the port at the end of its list.
Announce(n) ==
    /\ main[n].pc = "announce" /\ HasNext(n) /\ Listening(Asked(n))
    /\ nodes' = [nodes EXCEPT ![Asked(n)] = Append(@, n)]
    /\ Answered(n, main[n])
    /\ UNCHANGED <<chain, crashes>>

Announced(n) ==
    /\ main[n].pc = "announce" /\ ~HasNext(n)
    /\ SetMain(n, [Menu EXCEPT !.pc = "fetch"])
    /\ UNCHANGED <<chain, nodes, crashes, losses>>

\* GET /latestchain: the first of the longest answers is kept.
Fetch(n) ==
    /\ main[n].pc = "fetch" /\ HasNext(n) /\ Listening(Asked(n))
    /\ LET c == chain[Asked(n)]
       IN  Answered(n, [main[n] EXCEPT !.doc = IF Len(c) > Len(@) THEN c ELSE @,
                                       !.got = @ \cup {Asked(n)}])
    /\ UNCHANGED <<chain, nodes, crashes>>

\* What addBlock makes of the blocks of a document after the first, one by one.
\* A block sits in the slot of its index (TypeOK), so one that is refused leaves
\* all after it with an index too high.
Refill(first, doc) ==
    LET taken == {k \in 1 .. Len(doc) :
                      \A j \in 2 .. k : Acceptable(doc[j]) /\ doc[j].index = j - 1}
    IN  [k \in 1 .. Cardinality(taken) |-> IF k = 1 THEN first ELSE doc[k]]

\* The blocks are offered to addBlock, and the server starts.  If nobody has
\* answered, vect[0] is not there: that process is gone.
Joined(n) ==
    /\ main[n].pc = "fetch" /\ ~HasNext(n)
    /\ IF main[n].doc = <<>>
       THEN /\ chain' = [chain EXCEPT ![n] = <<>>]
            /\ nodes' = [nodes EXCEPT ![n] = <<>>]
            /\ SetMain(n, Down)
       ELSE /\ chain' = [chain EXCEPT ![n] = Refill(chain[n][1], main[n].doc)]
            /\ SetMain(n, Menu)
            /\ UNCHANGED nodes
    /\ UNCHANGED <<crashes, losses>>

\* The process ends; the others keep its port in their lists.
Crash(n) ==
    /\ main[n].pc # "down" /\ crashes < MaxCrashes
    /\ crashes' = crashes + 1
    /\ chain' = [chain EXCEPT ![n] = <<>>]
    /\ nodes' = [nodes EXCEPT ![n] = <<>>]
    /\ main' = [p \in Nodes |-> IF p = n THEN Down ELSE [main[p] EXCEPT !.got = @ \ {n}]]
    /\ UNCHANGED losses

-----------------------------------------------------------------------------
(* Adding a block. *)

LastHash(n) == chain[n][Len(chain[n])].hash

\* The header is made, and the search starts.
Mine(n) ==
    /\ main[n].pc = "menu" /\ Len(chain[n]) < MaxLength
    /\ \E d \in Data :
          SetMain(n, [Menu EXCEPT !.pc = "mining", !.num = Len(chain[n]),
                                  !.prev = LastHash(n), !.data = d])
    /\ UNCHANGED <<chain, nodes, crashes, losses>>

Stale(n) == main[n].num # Len(chain[n]) \/ main[n].prev # LastHash(n)

\* The block the search ends with, described to addBlock by what the chain is
\* then.  Which golden nonce it has makes no difference to the chains.
Found(n) ==
    LET m == main[n]
        g == CHOOSE x \in Golden : TRUE
    IN  NewBlock(Len(chain[n]), LastHash(n), Sha256(m.num, m.prev, m.data, g), g, m.data)

\* Mutant: the chain is sent without a look at it.
MinedUnchecked(n) ==
    /\ main[n].pc = "mining"
    /\ chain' = [chain EXCEPT ![n] = IF Acceptable(Found(n)) THEN Append(@, Found(n)) ELSE @]
    /\ SetMain(n, [Menu EXCEPT !.pc = "sending", !.doc = chain'[n]])
    /\ UNCHANGED <<nodes, crashes, losses>>

\* addBlock, whose result nobody looks at, and the check of the whole chain.
Mined(n) ==
    /\ main[n].pc = "mining"
    /\ chain' = [chain EXCEPT ![n] = IF Acceptable(Found(n)) THEN Append(@, Found(n)) ELSE @]
    /\ IF \A k \in 1 .. Len(chain'[n]) - 1 : ValidLink(chain'[n], k)
       THEN SetMain(n, [Menu EXCEPT !.pc = "sending", !.doc = chain'[n]])
       ELSE SetMain(n, Menu)
    /\ UNCHANGED <<nodes, crashes, losses>>

\* CUDA: the interrupt ends a search that has become stale.
CalledOff(n) ==
    /\ Interrupts
    /\ main[n].pc = "mining" /\ Stale(n)
    /\ SetMain(n, Menu)
    /\ UNCHANGED <<chain, nodes, crashes, losses>>

\* Mutant: a chain of the same length replaces one's own.
PostSame(n) ==
    /\ main[n].pc = "sending" /\ HasNext(n) /\ Listening(Asked(n))
    /\ LET p == Asked(n)
       IN  chain' = [chain EXCEPT ![p] =
                        IF Len(main[n].doc) >= Len(@) THEN Refill(@[1], main[n].doc) ELSE @]
    /\ Answered(n, [main[n] EXCEPT !.got = @ \cup {Asked(n)}])
    /\ UNCHANGED <<nodes, crashes>>

\* Mutant: a request whose answer is lost is repeated for ever.
PostAgain(n) ==
    /\ main[n].pc = "sending" /\ HasNext(n) /\ Listening(Asked(n))
    /\ LET p == Asked(n)
       IN  chain' = [chain EXCEPT ![p] =
                        IF Len(main[n].doc) > Len(@) THEN Refill(@[1], main[n].doc) ELSE @]
    /\ \/ SetMain(n, NextPeer(main[n]))
       \/ SetMain(n, [main[n] EXCEPT !.again = ~@])
    /\ UNCHANGED <<nodes, crashes, losses>>

\* Mutant: a chain that is only one block longer is not taken.
PostLonger(n) ==
    /\ main[n].pc = "sending" /\ HasNext(n) /\ Listening(Asked(n))
    /\ LET p == Asked(n)
       IN  chain' = [chain EXCEPT ![p] =
                        IF Len(main[n].doc) > Len(@) + 1 THEN Refill(@[1], main[n].doc) ELSE @]
    /\ Answered(n, [main[n] EXCEPT !.got = @ \cup {Asked(n)}])
    /\ UNCHANGED <<nodes, crashes>>

\* Mutant: the new blocks are put on top of the old ones.
PostKeep(n) ==
    /\ main[n].pc = "sending" /\ HasNext(n) /\ Listening(Asked(n))
    /\ LET p   == Asked(n)
           top == Len(chain[p])
       IN  chain' = [chain EXCEPT ![p] =
                        IF Len(main[n].doc) > top
                        THEN @ \o SubSeq(main[n].doc, top + 1, Len(main[n].doc)) ELSE @]
    /\ Answered(n, [main[n] EXCEPT !.got = @ \cup {Asked(n)}])
    /\ UNCHANGED <<nodes, crashes>>

\* POST /newchain: a longer chain replaces the peer's, but for its first block.
Post(n) ==
    /\ main[n].pc = "sending" /\ HasNext(n) /\ Listening(Asked(n))
    /\ LET p == Asked(n)
       IN  chain' = [chain EXCEPT ![p] =
                        IF Len(main[n].doc) > Len(@) THEN Refill(@[1], main[n].doc) ELSE @]
    /\ Answered(n, [main[n] EXCEPT !.got = @ \cup {Asked(n)}])
    /\ UNCHANGED <<nodes, crashes>>

Sent(n) ==
    /\ main[n].pc = "sending" /\ ~HasNext(n)
    /\ SetMain(n, Menu)
    /\ UNCHANGED <<chain, nodes, crashes, losses>>

-----------------------------------------------------------------------------
\* Steps the main thread of n takes of its own accord, without its user.
Progress(n) ==
    \/ Announce(n) \/ Announced(n) \/ Unanswered(n, "announce")
    \/ Fetch(n) \/ Joined(n) \/ Unanswered(n, "fetch")
    \/ Mined(n) \/ CalledOff(n)
    \/ Post(n) \/ Sent(n) \/ Unanswered(n, "sending")

Next == \E n \in Nodes : Start(n) \/ Join(n) \/ Crash(n) \/ Mine(n) \/ Progress(n)

Spec     == Init /\ [][Next]_vars
FairSpec == Spec /\ \A n \in Nodes : WF_vars(Progress(n))

-----------------------------------------------------------------------------
Running == {n \in Nodes : Listening(n)}

TypeOK ==
    /\ \A n \in Nodes :
          /\ \A k \in 1 .. Len(chain[n]) : chain[n][k].index = k - 1
          /\ \A k \in 1 .. Len(nodes[n]) : nodes[n][k] \in Nodes \ {n}
          /\ main[n].pc \in {"down", "announce", "fetch", "menu", "mining", "sending"}
          /\ main[n].i \in 0 .. Len(nodes[n])
          /\ main[n].got \subseteq Nodes
          /\ Listening(n) => chain[n] # <<>>
    /\ crashes \in 0 .. MaxCrashes /\ losses \in 0 .. MaxLosses

\* "the longest chain is chosen": while it runs, a node never gives its chain up
\* for one that is not longer, nor loses a block to a request that is repeated.
OnlyGrows ==
    [][\A n \in Nodes : Listening(n) /\ Listening(n)' =>
        chain'[n] = chain[n] \/ Len(chain'[n]) > Len(chain[n])]_vars

\* A chain is sent only if its hashes link, whatever the genesis blocks of the
\* nodes its blocks have passed through.
SentLinked == \A n \in Nodes : main[n].pc = "sending" => Linked(main[n].doc)

\* Every running node that took a chain in has one at least as long, until it
\* is restarted, although others may send theirs meanwhile.
BroadcastReaches ==
    \A n \in Nodes : main[n].pc = "sending" =>
        \A p \in main[n].got : Len(chain[p]) >= Len(main[n].doc)

\* The blocks of a node link, all of them if every node found the same genesis
\* block, and all but the second to the first otherwise.
ChainsLinked ==
    \A n \in Running :
        /\ \A k \in 2 .. Len(chain[n]) - 1 : chain[n][k + 1].previousHash = chain[n][k].hash
        /\ Cardinality(GenesisNonces) = 1 => Linked(chain[n])

\* Joining and sending end: no node waits for one that waits for it, and a
\* request is repeated at most once.
JoinsEnd == \A n \in Nodes :
    main[n].pc \in {"announce", "fetch"} ~> main[n].pc \in {"menu", "mining", "sending", "down"}

SendsEnd == \A n \in Nodes : main[n].pc = "sending" ~> main[n].pc # "sending"

-----------------------------------------------------------------------------
\* Every node runs, and none has anything under way.
Quiet == \A n \in Nodes : main[n].pc = "menu"

\* "There can only be one explicit set of blocks in the chain at a given time":
\* nodes that have sent each other all they had, and have as many blocks, have
\* the same.
Agreement ==
    Quiet => \A p, q \in Nodes : Len(chain[p]) = Len(chain[q]) => chain[p] = chain[q]

=============================================================================
