-------------------------------- MODULE Merkle --------------------------------
(***************************************************************************)
(* The merkle roots of the two implementations, as functions of the list   *)
(* of messages.  SHA-256 is a constructor: a digest is what was hashed, a  *)
(* string for a message, the hexadecimal text of a digest, or two digests  *)
(* put together.                                                           *)
(***************************************************************************)
EXTENDS Naturals, Sequences

Empty == <<"">>  \* the root "" of no messages, and of a failed CUDA call

Leaf(m)    == <<"msg", m>>
Digest(x)  == <<"sha", x>>
Both(l, r) == <<"cat", l, r>>

-----------------------------------------------------------------------------
\* getMerkleRoot of common.hpp, on the CPU.

\* Mutant: nothing is added to an odd level, and the last one is lost.
CpuLevelDrop(level, last) ==
    [k \in 1 .. Len(level) \div 2 |->
        Digest(Both(Digest(level[2 * k - 1]), Digest(level[2 * k])))]

\* One round of the loop: an odd level is filled up with the last message, not
\* with its own last hash; each pair is hashed, and hashed together.
CpuLevel(level, last) ==
    LET even == IF Len(level) % 2 = 1 THEN Append(level, last) ELSE level
    IN  [k \in 1 .. Len(even) \div 2 |->
            Digest(Both(Digest(even[2 * k - 1]), Digest(even[2 * k])))]

-----------------------------------------------------------------------------
\* What getMerkleRootGPU is meant to return: the messages are hashed once, an
\* odd level repeats its own last hash, and each level is the digests of the
\* pairs of the one below.
Doubled(level) ==
    IF Len(level) % 2 = 1 THEN Append(level, level[Len(level)]) ELSE level

\* The list hashed on the host: at least two hashes, unless there is no message.
HostHashes(messages) ==
    Doubled([k \in 1 .. Len(messages) |-> Digest(Leaf(messages[k]))])

LevelAbove(level) ==
    LET even == Doubled(level)
    IN  [k \in 1 .. Len(even) \div 2 |-> Digest(Both(even[2 * k - 1], even[2 * k]))]

-----------------------------------------------------------------------------
\* The loop of either implementation: a round per level, until one hash is left.
Round(device, level, last) ==
    IF Len(level) <= 1 THEN level
    ELSE IF device = "cpu" THEN CpuLevel(level, last) ELSE LevelAbove(level)

Tree(device, leaves, last) ==
    LET level[k \in Nat] == IF k = 0 THEN leaves ELSE Round(device, level[k - 1], last)
    IN  level

\* As many rounds as there are messages are more than enough.
CpuRoot(messages) ==
    LET leaves == [k \in 1 .. Len(messages) |-> Leaf(messages[k])]
    IN  IF messages = <<>> THEN Empty
        ELSE IF Len(messages) = 1 THEN Digest(leaves[1])
        ELSE Tree("cpu", leaves, leaves[Len(leaves)])[Len(messages)][1]

GpuTree(messages) == Tree("gpu", HostHashes(messages), Empty)
GpuRoot(messages) == GpuTree(messages)[Len(messages)][1]

=============================================================================
