------------------------------ MODULE MCCudaNode ------------------------------
(* Instances of CudaNode for TLC. *)
EXTENDS CudaRoots, MCDocs

CONSTANTS d1, d2

\* Documents of linked chains, each with all its blocks.
WholeContents ==
    {DocOf(ChainOf(<<d1>>)), DocOf(ChainOf(<<d1, d2>>)), DocOf(ChainOf(<<d2, d2>>))}

\* Whole ones of two lineages, and a torn one: five blocks by its length, two of
\* them there.
LinkedContents ==
    {DocOf(ChainOf(<<d1>>)), DocOf(ChainOf(<<d2, d2>>)), [length |-> 5, data |-> ChainOf(<<d1>>)]}

=============================================================================
