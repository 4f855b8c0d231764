------------------------------- MODULE FindHash -------------------------------
(***************************************************************************)
(* findHash of common.hpp: one thread that counts through the nonces.  The *)
(* counter is a 32-bit word and the bound it is compared with is not, so   *)
(* the loop has no end but a golden nonce.                                 *)
(***************************************************************************)
EXTENDS Naturals

CONSTANTS UintMax, \* UINT_MAX
          Limit    \* 100000000000

VARIABLES solutions, \* the nonces that solve the header
          counter,   \* the loop counter, called nonce
          outcome    \* "searching", then which pair is returned

hashVars == <<solutions, counter, outcome>>

ASSUME FindHashAssumption == UintMax \in Nat /\ Limit \in Nat /\ Limit > UintMax

Uints == 0 .. UintMax

HashInit == solutions \in SUBSET Uints /\ counter = 0 /\ outcome = "searching"

\* Mutant: the nonce is counted on before it is returned.
RoundPast ==
    /\ outcome = "searching"
    /\ counter' = (counter + 1) % (UintMax + 1)
    /\ outcome' = IF counter \in solutions THEN "found" ELSE "searching"
    /\ UNCHANGED solutions

\* Mutant: every other nonce is tried.
RoundTwo ==
    /\ outcome = "searching"
    /\ counter' = IF counter \in solutions THEN counter ELSE (counter + 2) % (UintMax + 1)
    /\ outcome' = IF counter \in solutions THEN "found" ELSE "searching"
    /\ UNCHANGED solutions

\* Mutant: a counter as wide as the bound.
RoundWide ==
    /\ outcome = "searching"
    /\ outcome' = IF counter >= Limit THEN "fail"
                  ELSE IF counter \in solutions THEN "found" ELSE "searching"
    /\ counter' = IF outcome' = "searching" THEN counter + 1 ELSE counter
    /\ UNCHANGED solutions

\* One round of the loop.
Round ==
    /\ outcome = "searching"
    /\ outcome' = IF counter >= Limit THEN "fail"
                  ELSE IF counter \in solutions THEN "found" ELSE "searching"
    /\ counter' = IF outcome' = "searching" THEN (counter + 1) % (UintMax + 1) ELSE counter
    /\ UNCHANGED solutions

HashSpec     == HashInit /\ [][Round]_hashVars
FairHashSpec == HashSpec /\ WF_hashVars(Round)

-----------------------------------------------------------------------------
\* "same genesis block across all nodes": the nonce found is the least that
\* solves the header, so every CPU node finds the same (unlike MineKernel).
LeastNonce == outcome = "found" => counter \in solutions /\ \A n \in solutions : counter <= n

\* A header that some 32-bit nonce solves is solved.
SolvesIfAny == solutions # {} ~> outcome = "found"

\* A header that none solves is searched for ever: the counter wraps, and
\* "fail" is never returned, which CliFindHash of CpuNode relies on.
NeverFails == outcome # "fail" /\ (solutions = {} => outcome = "searching")

=============================================================================
