---------------------------- MODULE ChainProofs ----------------------------
(***************************************************************************)
(* Lemmas about the operators of Chain: what appending to and popping from *)
(* a vector does, and that toJSON keeps a document well formed.            *)
(***************************************************************************)
EXTENDS Chain, TLAPS, SequenceTheorems

\* A function on 1 .. n is a sequence of length n.
LEMMA FunctionIsSeq ==
    ASSUME NEW S, NEW n \in Nat, NEW f \in [1 .. n -> S]
    PROVE  f \in Seq(S) /\ Len(f) = n /\ \A k \in 1 .. n : f[k] \in S
<1>1. f \in Seq(S)
    BY SeqDef
<1> QED
    BY <1>1, LenProperties

\* pop_back keeps the blocks below the last.
LEMMA FrontFacts ==
    ASSUME NEW S, NEW s \in Seq(S), Len(s) > 1
    PROVE  LET f == SubSeq(s, 1, Len(s) - 1)
           IN  f \in Seq(S) /\ Len(f) = Len(s) - 1 /\ \A k \in 1 .. Len(f) : f[k] = s[k]
<1>1. Len(s) \in Nat
    BY LenProperties
<1>2. \A k \in 1 .. Len(s) - 1 : s[k] \in S
    BY <1>1, ElementOfSeq
<1> QED
    BY <1>1, <1>2, SubSeqProperties

\* A header hashed is a hash, and never the one of no header.
LEMMA Sha256Facts ==
    ASSUME NEW i \in Nat, NEW h \in Hash, NEW d \in Payload, NEW n \in Nonces
    PROVE  /\ Sha256(i, h, d, n) \in Hash
           /\ Sha256(i, h, d, n) # NoHash
           /\ n \in Golden => MeetsTarget(Sha256(i, h, d, n))
<1> DEFINE e == <<i, d, n>>
<1>1. e \in Nat \X Payload \X Nonces
    OBVIOUS
<1>2. h \in Seq(Nat \X (Payload \cup {NoRoot}) \X Nonces)
    BY DEF Hash
<1>3. /\ Append(h, e) \in Seq(Nat \X (Payload \cup {NoRoot}) \X Nonces)
      /\ Append(h, e) # <<>>
      /\ Len(Append(h, e)) = Len(h) + 1
      /\ Append(h, e)[Len(h) + 1] = e
    BY <1>1, <1>2, AppendProperties
<1>4. e[3] = n
    OBVIOUS
<1> QED
    BY <1>3, <1>4 DEF Sha256, Hash, NoHash, MeetsTarget

\* The genesis block is a block, with a hash that meets the target.
LEMMA GenesisFacts == Genesis \in Block /\ Genesis.index = 0 /\ Acceptable(Genesis)
<1>1. 0 \in Nat /\ NoHash \in Hash /\ GenesisData \in Payload
      /\ GenesisNonce \in Nonces /\ GenesisNonce \in Golden
    BY ChainAssumption, EmptySeq DEF NoHash, Hash, Payload, Nonces
<1>2. /\ Sha256(0, NoHash, GenesisData, GenesisNonce) \in Hash
      /\ MeetsTarget(Sha256(0, NoHash, GenesisData, GenesisNonce))
    BY <1>1, Sha256Facts
<1> QED
    BY <1>1, <1>2 DEF Genesis, NewBlock, Block, Acceptable, HeaderMatches

\* An empty document is well formed, whatever length it names.
LEMMA EmptyDocument ==
    ASSUME NEW n \in Nat
    PROVE  WellFormed([EmptyJson EXCEPT !.length = n]) /\ WellFormed(EmptyJson)
<1> DEFINE doc(m) == [length |-> m, data |-> <<>>]
<1>1. [EmptyJson EXCEPT !.length = n] = doc(n) /\ EmptyJson = doc(0)
    BY DEF EmptyJson
<1>2. ASSUME NEW m \in Nat
      PROVE  WellFormed(doc(m))
    <2>1. <<>> \in Seq(Block \cup {Null}) /\ Len(<<>>) = 0
        BY EmptySeq
    <2>2. doc(m) \in Json /\ doc(m).data = <<>>
        BY <2>1 DEF Json
    <2>3. ~ \E k \in Int : k \in 1 .. 0
        OBVIOUS
    <2> QED
        BY <2>1, <2>2, <2>3 DEF WellFormed
<1> QED
    BY <1>1, <1>2

\* Writing a block to the slot of its index: a document again, with the block in
\* that slot and every other slot as it was.
LEMMA PutEntryFacts ==
    ASSUME NEW json \in Json, NEW b \in Block
    PROVE  LET put == PutEntry(json, b)
           IN  /\ put \in Json /\ put.length = json.length
               /\ Len(put.data) = IF b.index < Len(json.data) THEN Len(json.data) ELSE b.index + 1
               /\ \A k \in 1 .. Len(put.data) :
                     put.data[k] = IF k = b.index + 1 THEN b
                                   ELSE IF k <= Len(json.data) THEN json.data[k] ELSE Null
<1> DEFINE old == json.data
           n   == IF b.index < Len(old) THEN Len(old) ELSE b.index + 1
           new == [k \in 1 .. n |-> IF k = b.index + 1 THEN b
                                    ELSE IF k <= Len(old) THEN old[k] ELSE Null]
<1>1. old \in Seq(Block \cup {Null}) /\ Len(old) \in Nat
    BY LenProperties DEF Json
<1>2. b.index \in Nat /\ n \in Nat
    BY <1>1 DEF Block
<1>3. \A k \in 1 .. Len(old) : old[k] \in Block \cup {Null}
    BY <1>1, ElementOfSeq
<1>4. new \in [1 .. n -> Block \cup {Null}]
    BY <1>1, <1>2, <1>3
<1>5. new \in Seq(Block \cup {Null}) /\ Len(new) = n
    BY <1>2, <1>4, FunctionIsSeq
<1>6. PutEntry(json, b) = [json EXCEPT !.data = new]
    BY DEF PutEntry
<1>7. /\ PutEntry(json, b) \in Json /\ PutEntry(json, b).data = new
      /\ PutEntry(json, b).length = json.length
    BY <1>5, <1>6 DEF Json
<1> QED
    BY <1>5, <1>7

\* In particular the slots that had a block have one, and its own.
LEMMA PutEntryFills ==
    ASSUME NEW json \in Json, NEW b \in Block, NEW a \in Nat,
           a = b.index \/ Entry(json, a) # Null
    PROVE  Entry(PutEntry(json, b), a) # Null
<1> DEFINE put == PutEntry(json, b)
<1>1. Len(json.data) \in Nat /\ b.index \in Nat /\ b # Null
    BY LenProperties, ChainAssumption DEF Json, Block
<1>2. a < Len(put.data) /\ a + 1 \in 1 .. Len(put.data)
    BY <1>1, PutEntryFacts DEF Entry
<1>3. Entry(put, a) = put.data[a + 1]
    BY <1>2 DEF Entry
<1>4. CASE a = b.index
    BY <1>1, <1>2, <1>3, <1>4, PutEntryFacts
<1>5. CASE a # b.index
    <2>1. a < Len(json.data) /\ json.data[a + 1] # Null
        BY <1>5 DEF Entry
    <2> QED
        BY <1>1, <1>2, <1>3, <1>5, <2>1, PutEntryFacts
<1> QED
    BY <1>4, <1>5

\* Writing a mined block to the slot of its index keeps a document well formed.
LEMMA PutEntryWellFormed ==
    ASSUME NEW json, WellFormed(json), NEW b \in Block,
           b.index > 0 => Acceptable(b)
    PROVE  WellFormed(PutEntry(json, b))
<1> DEFINE put == PutEntry(json, b)
<1>1. json \in Json /\ Len(json.data) \in Nat /\ b.index \in Nat
    BY LenProperties DEF WellFormed, Json, Block
<1>2. ASSUME NEW k \in 1 .. Len(put.data), put.data[k] # Null
      PROVE  put.data[k].index = k - 1 /\ (k > 1 => Acceptable(put.data[k]))
    <2>1. k \in Nat /\ put.data[k] = IF k = b.index + 1 THEN b
                                     ELSE IF k <= Len(json.data) THEN json.data[k] ELSE Null
        BY <1>1, PutEntryFacts
    <2>2. CASE k = b.index + 1
        BY <1>1, <2>1, <2>2
    <2>3. CASE k # b.index + 1
        <3>1. k \in 1 .. Len(json.data) /\ put.data[k] = json.data[k]
            BY <1>1, <1>2, <2>1, <2>3
        <3> QED
            BY <3>1, <1>2 DEF WellFormed
    <2> QED
        BY <2>2, <2>3
<1> QED
    BY <1>1, <1>2, PutEntryFacts DEF WellFormed

\* An entry of a well-formed document is null, or a block with the index it was
\* asked for, mined if it is not the first.
LEMMA EntryFacts ==
    ASSUME NEW json, WellFormed(json), NEW a \in Nat, Entry(json, a) # Null
    PROVE  /\ Entry(json, a) \in Block
           /\ Entry(json, a).index = a
           /\ a > 0 => Acceptable(Entry(json, a))
           /\ a < Len(json.data) /\ Entry(json, a) = json.data[a + 1]
<1>1. json.data \in Seq(Block \cup {Null}) /\ Len(json.data) \in Nat
    BY LenProperties DEF WellFormed, Json
<1>2. a < Len(json.data) /\ Entry(json, a) = json.data[a + 1]
    BY <1>1 DEF Entry
<1>3. a + 1 \in 1 .. Len(json.data)
    BY <1>1, <1>2
<1>4. json.data[a + 1] \in Block
    BY <1>1, <1>2, <1>3, ElementOfSeq
<1> QED
    BY <1>2, <1>3, <1>4 DEF WellFormed

=============================================================================
