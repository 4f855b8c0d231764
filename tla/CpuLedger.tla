----------------------------- MODULE CpuLedger ------------------------------
(***************************************************************************)
(* A CPU node implements Ledger.  A replacement takes effect when the      *)
(* handler has compared the lengths: from there on the chain counts as     *)
(* what the handler is going to make of it.                                *)
(***************************************************************************)
EXTENDS CpuNode

Replacing == srv.pc \in {"pop", "add", "push"}

Settled == IF Replacing /\ ~seen.broken THEN Installed(srv.content) ELSE chain

Atomic == INSTANCE Ledger WITH ledger <- Settled, raced <- seen.broken, Starts <- StartChains

\* Whatever the two threads do in between, a node's chain changes in the steps of
\* Ledger only, until its process ends and another begins as it did.
ChangesInOnePiece ==
    Atomic!New /\ [][Atomic!LedgerNext \/ NodeRestart]_<<Settled, seen.broken>>

=============================================================================
