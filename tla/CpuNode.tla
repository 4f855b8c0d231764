------------------------------ MODULE CpuNode ------------------------------
(***************************************************************************)
(* A node of the CPU implementation (src/c-implementation): the threads of *)
(* Node, with findHash run on the main thread and isChainValid before the  *)
(* chain is sent.                                                          *)
(***************************************************************************)
EXTENDS Node

\* findHash: the search on the header it was called with ends at a nonce that
\* solves it.
CliFindHash ==
    /\ cli.pc = "header" /\ cli.todo = {}
    /\ \E n \in Golden : CliMined(Sha256(cli.num, cli.prev, cli.data, n), n)

\* isChainValid: one round of its loop ...
CliVerify ==
    /\ cli.pc = "verify" /\ cli.i + 1 < Len(chain)
    /\ ValidLink(chain, cli.i + 1)
    /\ cli' = [cli EXCEPT !.i = @ + 1]
    /\ UNCHANGED <<chain, nodes, srv, seen>>

\* ... "Blockchain Invalid and not Sent" ...
CliInvalid ==
    /\ cli.pc = "verify" /\ cli.i + 1 < Len(chain)
    /\ ~ValidLink(chain, cli.i + 1)
    /\ CliMenu

\* ... and its end, "Valid Blockchain Sent".
CliValid ==
    /\ cli.pc = "verify" /\ cli.i + 1 >= Len(chain)
    /\ cli' = [cli EXCEPT !.pc = "length", !.i = 0]
    /\ UNCHANGED <<chain, nodes, srv, seen>>

CliNext ==
    \/ CliShared \/ CliFindHash \/ CliCheck("verify") \/ CliPush("verify")
    \/ CliVerify \/ CliInvalid \/ CliValid

SrvNext == SrvShared \/ SrvReplaced

Init == NodeInit

\* The life of a process.
Work ==
    \/ \E d \in Data : CliBegin(d, "header")
    \/ CliNext
    \/ SrvRequest
    \/ SrvNext
    \/ Collide("verify")

Next == Work \/ NodeRestart

\* The operating system runs both threads; users and peers owe us nothing.
Fairness == WF_nodeVars(CliNext) /\ WF_nodeVars(SrvNext)

Spec     == Init /\ [][Next]_nodeVars
FairSpec == Spec /\ Fairness

-----------------------------------------------------------------------------
TypeOK == NodeTypeOK(CliPcs)

\* Every request that reaches a handler is answered: the loops of replaceChain
\* and toJSON end although the command line appends while they run.
RequestsEnd == srv.pc # "idle" ~> srv.pc = "idle"

\* Every command gets back to the menu: isChainValid and toJSON end although
\* handlers empty and refill the chain while they run.
CommandsEnd == cli.pc # "menu" ~> cli.pc = "menu"

\* "=>Valid Blockchain Sent": the document that goes out after isChainValid
\* holds all the blocks it counts, each linked to the one before.
SentIsValid ==
    cli.pc = "send" =>
        /\ Len(cli.json.data) = cli.json.length
        /\ \A k \in 1 .. cli.json.length : cli.json.data[k] # Null
        /\ Linked(cli.json.data)

=============================================================================
