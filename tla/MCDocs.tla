------------------------------- MODULE MCDocs -------------------------------
(***************************************************************************)
(* The documents peers post in the checked instances.  Every one is a      *)
(* document some node of the program can send: see EmitsWellFormed in      *)
(* Node, and SentIsValid for how the torn ones come about.                 *)
(***************************************************************************)
EXTENDS Chain

\* The chain whose blocks after genesis carry the payloads s.
RECURSIVE ChainOf(_)
ChainOf(s) ==
    IF s = <<>> THEN <<Genesis>>
    ELSE LET front == ChainOf(SubSeq(s, 1, Len(s) - 1))
             prev  == front[Len(front)].hash
             d     == s[Len(s)]
             n     == CHOOSE g \in Golden : TRUE
         IN  Append(front, NewBlock(Len(s), prev, Sha256(Len(s), prev, d, n), n, d))

\* toJSON when nothing interferes.
DocOf(c) == [length |-> Len(c), data |-> c]

=============================================================================
