------------------------------ MODULE Exchange ------------------------------
(***************************************************************************)
(* What a synchronous request of the HTTP client promises its caller, and  *)
(* all that Network takes for granted about it.  The handler at the other  *)
(* end runs at most twice, and at least once if there is an answer; that   *)
(* there is none says nothing about whether it ran.                        *)
(***************************************************************************)
EXTENDS Naturals

VARIABLES runs,    \* how often the handler has run for this request
          outcome  \* what the caller knows: pending, answered or failed

Begun == runs = 0 /\ outcome = "pending"

Run    == outcome = "pending" /\ runs < 2 /\ runs' = runs + 1 /\ UNCHANGED outcome
Answer == outcome = "pending" /\ runs > 0 /\ outcome' = "answered" /\ UNCHANGED runs
Fail   == outcome = "pending" /\ outcome' = "failed" /\ UNCHANGED runs

ExchangeNext == Run \/ Answer \/ Fail

ExchangeSpec ==
    Begun /\ [][ExchangeNext]_<<runs, outcome>> /\ WF_<<runs, outcome>>(Answer \/ Fail)

=============================================================================
