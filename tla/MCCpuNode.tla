------------------------------ MODULE MCCpuNode ------------------------------
(* Instances of CpuNode for TLC. *)
EXTENDS CpuLedger, MCDocs

CONSTANTS d1, d2

\* Documents of linked chains, each with all its blocks.
WholeContents ==
    {DocOf(ChainOf(<<d1>>)), DocOf(ChainOf(<<d1, d2>>)), DocOf(ChainOf(<<d2, d2>>))}

\* Also a torn one: three blocks by its length, two of them there.
LinkedContents == WholeContents \cup {[length |-> 3, data |-> ChainOf(<<d1>>)]}

=============================================================================
