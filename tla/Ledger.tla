------------------------------- MODULE Ledger -------------------------------
(***************************************************************************)
(* What a node promises about its chain: it changes in one piece, by a     *)
(* mined block that fits on its end or by the whole of a longer document,  *)
(* although the program takes many steps for either.  There is one way     *)
(* out: the user's block may be stored in the middle of a replacement.     *)
(* After such a race nothing is promised until a replacement repairs it.   *)
(***************************************************************************)
EXTENDS Chain

CONSTANTS Contents, \* the documents peers may post
          Starts    \* the chains of a new process

VARIABLES
    ledger, \* the blocks, oldest first
    raced   \* nothing is known about them

ledgerVars == <<ledger, raced>>

New == ledger \in Starts /\ raced = FALSE

Store(b) ==
    /\ ~raced
    /\ Acceptable(b)
    /\ b.index = Len(ledger) /\ b.previousHash = ledger[Len(ledger)].hash
    /\ ledger' = Append(ledger, b)
    /\ UNCHANGED raced

Replace(c) ==
    /\ ~raced
    /\ c.length > Len(ledger)
    /\ ledger' = Installed(c)
    /\ UNCHANGED raced

Race == raced' = TRUE

Repair(c) ==
    /\ raced
    /\ ledger' = Installed(c)
    /\ raced' = FALSE

LedgerNext ==
    \/ Store(ledger'[Len(ledger')])
    \/ \E c \in Contents : Replace(c) \/ Repair(c)
    \/ Race

LedgerSpec == New /\ [][LedgerNext]_ledgerVars

=============================================================================
