-------------------------------- MODULE Chain --------------------------------
(***************************************************************************)
(* Blocks, their hashes, the admission test of BlockChain::addBlock and    *)
(* the JSON form in which a chain travels between nodes.  No state.        *)
(*                                                                         *)
(* SHA-256 is taken to be collision free, so a hash can be represented by  *)
(* what was hashed: the hash of a block is the list of <<index, payload,   *)
(* nonce>> triples of the block and of the lineage named by previousHash.  *)
(* Whether a hash starts with "000000" depends on nothing but the header,  *)
(* and within one header on the nonce: a nonce is in Golden when it solves *)
(* the header it is used with.                                             *)
(***************************************************************************)
EXTENDS Naturals, Sequences, FiniteSets

CONSTANTS Data,         \* the messages users put in blocks
          GenesisData,  \* the payload "Genesis Block!"
          Golden,       \* nonces that give a hash with six leading zeros
          NoRoot,       \* the empty string where a merkle root could not be computed
          NoNonce,      \* the nonce string of a failed search
          GenesisNonce, \* the nonce this node found for its genesis block
          Null          \* a JSON null

Payload == Data \cup {GenesisData}
Nonces  == Golden \cup {NoNonce}

\* A hash value; <<>> is the string "00000000000000" the genesis block points
\* to, and every other string that is the digest of no header.
Hash   == Seq(Nat \X (Payload \cup {NoRoot}) \X Nonces)
NoHash == <<>>

\* sha256(to_string(index) + prevHash + getMerkleRoot(data) + nonce)
Sha256(index, prevHash, data, nonce) == Append(prevHash, <<index, data, nonce>>)

\* hash.substr(0,6) == "000000"
MeetsTarget(hash) == hash # NoHash /\ hash[Len(hash)][3] \in Golden

Block == [index : Nat, previousHash : Hash, hash : Hash, nonce : Nonces, data : Payload]

NewBlock(index, prevHash, hash, nonce, data) ==
    [index |-> index, previousHash |-> prevHash, hash |-> hash,
     nonce |-> nonce, data |-> data]

ASSUME ChainAssumption ==
    /\ GenesisData \notin Data
    /\ NoRoot \notin Payload
    /\ NoNonce \notin Golden
    /\ GenesisNonce \in Golden
    /\ Null \notin Block \cup Data

\* The block BlockChain(0) mines for itself.
Genesis == NewBlock(0, NoHash, Sha256(0, NoHash, GenesisData, GenesisNonce),
                    GenesisNonce, GenesisData)

-----------------------------------------------------------------------------
\* The two tests addBlock makes on a block alone; the third compares its index
\* with the size of the vector, which another thread may be changing.
HeaderMatchesNot(b) == TRUE \* mutant: the hash sent with a block is believed
HeaderMatches(b) == Sha256(b.index, b.previousHash, b.data, b.nonce) = b.hash
Acceptable(b)    == HeaderMatches(b) /\ MeetsTarget(b.hash)

\* Block i of the chain c (counting from 0) is a valid successor of block i-1,
\* as one round of the loop of isChainValid tests it.
ValidLink(c, i) ==
    /\ HeaderMatches(c[i + 1])
    /\ MeetsTarget(c[i + 1].hash)
    /\ c[i + 1].previousHash = c[i].hash

\* The hashes of c form a chain.
Linked(c) == \A i \in 1 .. Len(c) - 1 : c[i + 1].previousHash = c[i].hash

-----------------------------------------------------------------------------
\* The JSON document a node serves: a length, and an array of blocks with null
\* in the slots nobody wrote.  Slots count from 0.
Json      == [length : Nat, data : Seq(Block \cup {Null})]
EmptyJson == [length |-> 0, data |-> <<>>]

\* chain["data"][a]: reading past the end of the array yields null.
Entry(json, a) == IF a < Len(json.data) THEN json.data[a + 1] ELSE Null

\* Mutant: blocks go into the array in the order they are met.
PutEntryPush(json, b) == [json EXCEPT !.data = Append(@, b)]

\* j["data"][block->getIndex()] = block: writing past the end of the array
\* fills the gap with nulls.
PutEntry(json, b) ==
    [json EXCEPT !.data =
        [k \in 1 .. IF b.index < Len(@) THEN Len(@) ELSE b.index + 1 |->
            IF k = b.index + 1 THEN b ELSE IF k <= Len(@) THEN @[k] ELSE Null]]

\* What every document sent by a node satisfies, whatever its threads were
\* doing to the chain while it was written: a block sits in the slot of its
\* index, and past slot 0 it is a block that addBlock admitted.
WellFormed(json) ==
    /\ json \in Json
    /\ \A k \in 1 .. Len(json.data) : json.data[k] # Null =>
          /\ json.data[k].index = k - 1
          /\ k > 1 => Acceptable(json.data[k])

\* The document starts with this node's genesis block, and each block in it
\* points to the block in the slot before.
LinkedJson(json) ==
    /\ Len(json.data) >= 1
    /\ json.data[1] = Genesis
    /\ \A k \in 1 .. Len(json.data) - 1 :
          json.data[k] # Null /\ json.data[k + 1] # Null =>
              json.data[k + 1].previousHash = json.data[k].hash

\* The slots a replacement gets to: those before the first null, and slot 0, which
\* it does not read.
Leading(json) == {k \in 1 .. json.length : \A j \in 2 .. k : Entry(json, j - 1) # Null}

\* What replaceChain makes of a document while nobody interferes: its blocks, but
\* for the genesis block, which is the node's own.
Installed(json) ==
    [k \in 1 .. Cardinality(Leading(json)) |-> IF k = 1 THEN Genesis ELSE json.data[k]]

=============================================================================
