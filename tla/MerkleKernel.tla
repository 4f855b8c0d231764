----------------------------- MODULE MerkleKernel -----------------------------
(***************************************************************************)
(* getMerkleRootGPU (gpu_merkle.cu): merkleParentKernel starts a grid for  *)
(* every level of the tree, and thread i of it hashes slots 2i and 2i + 1  *)
(* into slot i of the same buffer.  The threads of a warp run in step, the *)
(* warps each at its own pace, and nothing orders one warp's writes after  *)
(* another's reads.                                                        *)
(***************************************************************************)
EXTENDS Merkle, FiniteSets

CONSTANTS Messages,   \* the texts users enter
          MaxLeaves,  \* bound: 4000 in the code, or 1 for the genesis block
          WarpSize,   \* 32 on the device
          CudaErrors, \* whether a CUDA call of the host may fail
          LostGrids   \* whether a launch on the device may fail

VARIABLES
    messages,  \* the argument
    buffer,    \* d_hashes, from slot 0
    count,     \* hashes on the level
    pc,        \* where merkleParentKernel or the host is
    warp,      \* where each warp of the level's grid is
    local,     \* combined_hashes of each thread
    root,      \* what getMerkleRootGPU returns
    raced,     \* history: a warp wrote a slot another had still to read
    lost       \* history: a level's grid did not run

vars == <<messages, buffer, count, pc, warp, local, root, raced, lost>>

ASSUME MerkleAssumption ==
    /\ MaxLeaves \in Nat \ {0} /\ WarpSize \in Nat \ {0} /\ CudaErrors \in BOOLEAN
    /\ LostGrids \in BOOLEAN

\* Threads with a pair of their own; a warp is WarpSize neighbours.
Pairs   == 0 .. count \div 2 - 1
WarpOf(i) == i \div WarpSize
Warps   == {WarpOf(i) : i \in Pairs}
Lanes(w) == {i \in Pairs : WarpOf(i) = w}

\* The slots a warp reads; it writes those of its own lanes.
Children(w) == UNION {{2 * i, 2 * i + 1} : i \in Lanes(w)}

\* The host hashes the messages, and has one slot more than it copies.
Init ==
    /\ messages \in UNION {[1 .. n -> Messages] : n \in 1 .. MaxLeaves}
    /\ LET hashes == HostHashes(messages)
       IN  /\ count = Len(hashes)
           /\ buffer = [s \in 0 .. Len(hashes) |-> IF s < Len(hashes) THEN hashes[s + 1] ELSE Empty]
    /\ pc = "level"
    /\ warp = <<>> /\ local = <<>>
    /\ root = Empty
    /\ raced = FALSE /\ lost = FALSE

\* Mutant: the level is not made even.
LaunchOdd ==
    /\ pc = "level" /\ count > 1
    /\ pc' = "grid"
    /\ warp' = [w \in Warps |-> "read"]
    /\ local' = [i \in Pairs |-> Both(Empty, Empty)]
    /\ UNCHANGED <<messages, buffer, count, root, raced, lost>>

\* Mutant: the hash that fills an odd level up is the first, not the last.
LaunchFirst ==
    /\ pc = "level" /\ count > 1
    /\ count' = count + (count % 2)
    /\ buffer' = IF count % 2 = 1 THEN [buffer EXCEPT ![count] = buffer[0]] ELSE buffer
    /\ pc' = "grid"
    /\ warp' = [w \in Warps' |-> "read"]
    /\ local' = [i \in Pairs' |-> Both(Empty, Empty)]
    /\ UNCHANGED <<messages, root, raced, lost>>

\* A round of merkleParentKernel, up to the launch of the level's grid.
Launch ==
    /\ pc = "level" /\ count > 1
    /\ count' = count + (count % 2)
    /\ buffer' = IF count % 2 = 1 THEN [buffer EXCEPT ![count] = buffer[count - 1]] ELSE buffer
    /\ pc' = "grid"
    /\ warp' = [w \in Warps' |-> "read"]
    /\ local' = [i \in Pairs' |-> Both(Empty, Empty)]
    /\ UNCHANGED <<messages, root, raced, lost>>

\* memcpy of both children into the thread's own memory ...
Read(w) ==
    /\ pc = "grid" /\ warp[w] = "read"
    /\ local' = [i \in Pairs |->
          IF i \in Lanes(w) THEN Both(buffer[2 * i], buffer[2 * i + 1]) ELSE local[i]]
    /\ warp' = [warp EXCEPT ![w] = "write"]
    /\ UNCHANGED <<messages, buffer, count, pc, root, raced, lost>>

\* ... and of their hash into the slot with the thread's number.
Write(w) ==
    /\ pc = "grid" /\ warp[w] = "write"
    /\ buffer' = [s \in DOMAIN buffer |-> IF s \in Lanes(w) THEN Digest(local[s]) ELSE buffer[s]]
    /\ warp' = [warp EXCEPT ![w] = "done"]
    /\ raced' = (raced \/ \E v \in Warps \ {w} : warp[v] = "read" /\ Children(v) \cap Lanes(w) # {})
    /\ UNCHANGED <<messages, count, pc, local, root, lost>>

\* cudaDeviceSynchronize: the level is done.
Join ==
    /\ pc = "grid" /\ \A w \in Warps : warp[w] = "done"
    /\ count' = count \div 2
    /\ pc' = "level"
    /\ warp' = <<>> /\ local' = <<>>
    /\ UNCHANGED <<messages, buffer, root, raced, lost>>

\* The launch on the device fails: nothing looks, and the loop goes on.
LoseGrid ==
    /\ LostGrids
    /\ pc = "grid" /\ \A w \in Warps : warp[w] = "read"
    /\ count' = count \div 2
    /\ pc' = "level"
    /\ warp' = <<>> /\ local' = <<>>
    /\ lost' = TRUE
    /\ UNCHANGED <<messages, buffer, root, raced>>

\* One hash is left: it is copied back, and freed.
Return ==
    /\ pc = "level" /\ count <= 1
    /\ root' = buffer[0]
    /\ pc' = "returned"
    /\ UNCHANGED <<messages, buffer, count, warp, local, raced, lost>>

\* A CUDA call fails before or after the kernel: the empty root.
Fail ==
    /\ CudaErrors
    /\ pc = "level"
    /\ root' = Empty
    /\ pc' = "returned"
    /\ UNCHANGED <<messages, buffer, count, warp, local, raced, lost>>

Next ==
    \/ Launch \/ Join \/ LoseGrid \/ Return \/ Fail
    \/ pc = "grid" /\ \E w \in Warps : Read(w) \/ Write(w)

Spec == Init /\ [][Next]_vars

-----------------------------------------------------------------------------
\* Every slot holds a digest, the spare one included once it is used.
TypeOK ==
    /\ pc \in {"level", "grid", "returned"}
    /\ count \in 1 .. MaxLeaves + 1
    /\ DOMAIN buffer = 0 .. Len(HostHashes(messages))
    /\ \A s \in 0 .. count - 1 : buffer[s] # Empty
    /\ pc = "grid" => DOMAIN warp = Warps /\ DOMAIN local = Pairs /\ count % 2 = 0

\* "collapses the transaction list level by level": a call that succeeds
\* returns the root of the tree, and none returns anything but that or "".
RootExact ==
    pc = "returned" => root = GpuRoot(messages) \/ (CudaErrors /\ root = Empty)

\* The runs that go wrong are those in which a warp writes a slot before the
\* warp that combines it has read it, or a level's grid is lost, and no others.
OnlyRacesHurt == ~raced /\ ~lost => RootExact

\* No two lists the program makes have the same root: a block's header binds
\* its messages.  Lists are of one length here: copies of a message, one each
\* for the genesis block.
RootsBind ==
    pc = "level" =>
        \A other \in [1 .. Len(messages) -> Messages] :
            /\ CpuRoot(other) = CpuRoot(messages) => other = messages
            /\ GpuRoot(other) = GpuRoot(messages) => other = messages

=============================================================================
