--------------------------- MODULE MineKernelProofs ---------------------------
(***************************************************************************)
(* The kernel reports a nonce that solves the header, whatever the number  *)
(* of threads and the width of a word, and to the host its threads are one *)
(* search.  The search of the CPU, which is one thread, finds the least.   *)
(***************************************************************************)
EXTENDS MineKernel, FindHash, TLAPS

\* What holds between the flag, its winner and the nonce written down.
Winner ==
    /\ \A t \in Threads : pc[t] = "write" => found /\ nonce[t] \in golden
    /\ found => result \in golden \/ \E t \in Threads : pc[t] = "write"

Inv == TypeOK /\ Winner

\* Words and threads are what they are taken for.
LEMMA WordArithmetic ==
    /\ Stride \in Nat \ {0} /\ MaxNonce \in Nat /\ CheckEvery \in Nat \ {0}
    /\ Threads \subseteq Words
    /\ \A n \in Words : (n + Stride) % (MaxNonce + 1) \in Words
    /\ \A i \in 0 .. CheckEvery - 1 : (i + 1) % CheckEvery \in 0 .. CheckEvery - 1
<1>1. /\ Stride \in Nat \ {0} /\ MaxNonce \in Nat /\ CheckEvery \in Nat \ {0}
      /\ 2 * Stride <= MaxNonce
  BY MineAssumption
<1>2. \A n \in Int : n % (MaxNonce + 1) \in 0 .. MaxNonce
  BY <1>1, SMT
<1>3. \A n \in Int : n % CheckEvery \in 0 .. CheckEvery - 1
  BY <1>1, SMT
<1>4. Threads \subseteq Words
  BY <1>1 DEF Threads, Words
<1> QED
  BY <1>1, <1>2, <1>3, <1>4 DEF Words

LEMMA InitInv == Init => Inv
<1> SUFFICES ASSUME Init PROVE Inv
  OBVIOUS
<1>1. 0 \in 0 .. CheckEvery - 1 /\ 0 \in Words
  BY WordArithmetic DEF Words
<1>2. TypeOK
  BY <1>1, WordArithmetic DEF Init, TypeOK, Places
<1>3. Winner
  BY DEF Init, Winner
<1> QED
  BY <1>2, <1>3 DEF Inv

\* Every variable keeps its type in every step.
LEMMA NextTypeOK == TypeOK /\ [Next]_vars => TypeOK'
<1> SUFFICES ASSUME TypeOK, [Next]_vars PROVE TypeOK'
  OBVIOUS
<1>1. CASE CallOff
  BY <1>1 DEF CallOff, TypeOK
<1>2. CASE UNCHANGED vars
  BY <1>2 DEF vars, TypeOK
<1>3. ASSUME NEW t \in Threads, Thread(t) PROVE TypeOK'
  <2>1. CASE Start(t)
    BY <2>1 DEF Start, Goto, TypeOK, Places
  <2>2. CASE LookFound(t)
    BY <2>2 DEF LookFound, Goto, TypeOK, Places
  <2>3. CASE LookAbort(t)
    BY <2>3 DEF LookAbort, Goto, TypeOK, Places
  <2>4. CASE Miss(t)
    <3>1. nonce' \in [Threads -> Words] /\ iter' \in [Threads -> 0 .. CheckEvery - 1]
      BY <2>4, WordArithmetic DEF Miss, TypeOK
    <3>2. pc' \in [Threads -> Places]
      BY <2>4 DEF Miss, Goto, NextRound, TypeOK, Places
    <3>3. late' \in [Threads -> Nat]
      BY <2>4 DEF Miss, TypeOK
    <3> QED
      BY <2>4, <3>1, <3>2, <3>3 DEF Miss, TypeOK
  <2>5. CASE Hit(t)
    BY <2>5 DEF Hit, Goto, TypeOK, Places
  <2>6. CASE Write(t)
    BY <2>6 DEF Write, Goto, TypeOK, Places
  <2> QED
    BY <1>3, <2>1, <2>2, <2>3, <2>4, <2>5, <2>6 DEF Thread
<1> QED
  BY <1>1, <1>2, <1>3 DEF Next

\* The flag, its winner and the nonce stay together in every step.
LEMMA NextWinner == Inv /\ [Next]_vars => Winner'
<1> SUFFICES ASSUME TypeOK, Winner, [Next]_vars PROVE Winner'
  BY DEF Inv
<1>1. CASE CallOff
  BY <1>1 DEF CallOff, Winner
<1>2. CASE UNCHANGED vars
  BY <1>2 DEF vars, Winner
<1>3. ASSUME NEW t \in Threads, Thread(t) PROVE Winner'
  <2>1. CASE Start(t)
    BY <2>1 DEF Start, Goto, TypeOK, Winner
  <2>2. CASE LookFound(t)
    BY <2>2 DEF LookFound, Goto, TypeOK, Winner
  <2>3. CASE LookAbort(t)
    BY <2>3 DEF LookAbort, Goto, TypeOK, Winner
  <2>4. CASE Miss(t)
    BY <2>4 DEF Miss, Goto, NextRound, TypeOK, Winner
  <2>5. CASE Hit(t)
    BY <2>5 DEF Hit, Goto, TypeOK, Winner
  <2>6. CASE Write(t)
    BY <2>6 DEF Write, Goto, TypeOK, Winner
  <2> QED
    BY <1>3, <2>1, <2>2, <2>3, <2>4, <2>5, <2>6 DEF Thread
<1> QED
  BY <1>1, <1>2, <1>3 DEF Next

LEMMA KernelInvariant == Spec => []Inv
<1>1. Inv /\ [Next]_vars => Inv'
  BY NextTypeOK, NextWinner DEF Inv
<1> QED
  BY InitInv, <1>1, PTL DEF Spec

-----------------------------------------------------------------------------
\* In a grid of any size and words of any width, every nonce a thread holds is a word:
\* the addition of the stride wraps, as that of an unsigned int does.
THEOREM TypeCorrect == Spec => []TypeOK
<1>1. Inv => TypeOK
  BY DEF Inv
<1> QED
  BY <1>1, KernelInvariant, PTL

\* The nonce findHashGPU copies back solves the header it hashes it with.
THEOREM ReportedNonceSolves == Spec => []ResultSolves
<1>1. Inv => ResultSolves
  BY DEF Inv, Winner, ResultSolves, Ended
<1> QED
  BY <1>1, KernelInvariant, PTL

\* Threads that find a nonce later do not disturb the one that is reported.
THEOREM WinnerKeepsResult == Spec => FirstKeeps
<1>1. Inv /\ [Next]_vars =>
        [found /\ (\A t \in Threads : pc[t] # "write") =>
            /\ result' = result
            /\ \A t \in Threads : pc'[t] # "write"]_vars
  BY DEF Inv, TypeOK, Next, Thread, CallOff, Start, LookFound, LookAbort, Miss, Hit, Write,
         Goto, NextRound, vars
<1> QED
  BY <1>1, KernelInvariant, PTL DEF Spec, FirstKeeps

-----------------------------------------------------------------------------
\* What a thread has tried since the search was called off, it has tried since it
\* last looked at the flags.
Lateness ==
    /\ ~abort => \A t \in Threads : late[t] = 0
    /\ \A t \in Threads : pc[t] = "try" => late[t] <= iter[t]
    /\ SoonOver

\* The count of rounds goes up by one until the flags are due.
LEMMA NextIter ==
    ASSUME NEW i \in 0 .. CheckEvery - 1
    PROVE  (i + 1) % CheckEvery = IF i + 1 = CheckEvery THEN 0 ELSE i + 1
<1>1. CheckEvery \in Nat \ {0}
  BY MineAssumption
<1>2. CASE i + 1 = CheckEvery
  BY <1>1, <1>2, SMT
<1>3. CASE i + 1 < CheckEvery
  BY <1>1, <1>3, SMT
<1> QED
  BY <1>1, <1>2, <1>3

\* A try in vain brings a thread nearer to its next look at the flags.
LEMMA MissLate ==
    ASSUME Inv, Lateness, NEW t \in Threads, Miss(t)
    PROVE  Lateness'
<1>1. /\ late \in [Threads -> Nat] /\ iter \in [Threads -> 0 .. CheckEvery - 1]
      /\ pc \in [Threads -> Places] /\ CheckEvery \in Nat \ {0}
  BY MineAssumption DEF Inv, TypeOK
<1>2. /\ late[t] <= iter[t]
      /\ iter' = [iter EXCEPT ![t] = IF iter[t] + 1 = CheckEvery THEN 0 ELSE iter[t] + 1]
  <2>1. late[t] <= iter[t]
    BY DEF Lateness, Miss
  <2>2. iter[t] \in 0 .. CheckEvery - 1
    BY <1>1
  <2> QED
    BY <2>1, <2>2, NextIter DEF Miss
<1>3. /\ late'[t] = IF abort THEN late[t] + 1 ELSE late[t]
      /\ \A u \in Threads \ {t} : late'[u] = late[u] /\ iter'[u] = iter[u] /\ pc'[u] = pc[u]
      /\ UNCHANGED abort
  BY <1>1 DEF Miss, Goto
<1>4. pc'[t] = "try" => iter'[t] # 0
  BY <1>1 DEF Miss, Goto, NextRound
<1>5. late'[t] <= CheckEvery /\ (pc'[t] = "try" => late'[t] <= iter'[t])
  <2>1. late[t] \in Nat /\ iter[t] \in 0 .. CheckEvery - 1
    BY <1>1
  <2>2. iter'[t] = IF iter[t] + 1 = CheckEvery THEN 0 ELSE iter[t] + 1
    BY <1>1, <1>2
  <2> QED
    BY <1>1, <1>2, <1>3, <1>4, <2>1, <2>2
<1>6. ~abort => late'[t] = 0
  BY <1>3 DEF Lateness
<1> QED
  BY <1>3, <1>5, <1>6 DEF Lateness, SoonOver

\* Every other step leaves the counts alone, and none starts to try with a count
\* above zero but from a look at a lowered flag.
LEMMA NextLate == Inv /\ Lateness /\ [Next]_vars => Lateness'
<1> SUFFICES ASSUME Inv, Lateness, [Next]_vars PROVE Lateness'
  OBVIOUS
<1> USE DEF Lateness, SoonOver
<1>1. CASE CallOff
  BY <1>1 DEF CallOff
<1>2. CASE UNCHANGED vars
  BY <1>2 DEF vars
<1>3. ASSUME NEW t \in Threads, Thread(t) PROVE Lateness'
  <2>1. /\ late \in [Threads -> Nat] /\ iter \in [Threads -> 0 .. CheckEvery - 1]
        /\ pc \in [Threads -> Places]
    BY DEF Inv, TypeOK
  <2>2. CASE Start(t) \/ LookFound(t) \/ Hit(t) \/ Write(t)
    BY <2>1, <2>2 DEF Start, LookFound, Hit, Write, Goto
  <2>3. CASE LookAbort(t)
    BY <2>1, <2>3 DEF LookAbort, Goto
  <2> QED
    BY <1>3, <2>2, <2>3, MissLate DEF Thread
<1> QED
  BY <1>1, <1>2, <1>3 DEF Next

\* Calling a search off ends it soon, though no thread is told: each tries no more
\* nonces than lie between two looks at the flags.
THEOREM CalledOffEndsSoon == Spec => []SoonOver
<1>1. Init => Lateness
  BY MineAssumption DEF Init, Lateness, SoonOver
<1>2. Lateness => SoonOver
  BY DEF Lateness
<1> QED
  BY <1>1, <1>2, NextLate, KernelInvariant, PTL DEF Spec

-----------------------------------------------------------------------------
\* The nonces of thread t, a stride apart.
Column(t) == {t + k * Stride : k \in Nat}

\* A thread that is not done is not in its last stride; it is in its own column, and
\* has passed no golden nonce in it; and if it gave up by itself, it was at the end.
ColumnInv(t) ==
    /\ pc[t] # "done" => nonce[t] <= MaxNonce - Stride
    /\ nonce[t] \in Column(t)
    /\ \A n \in golden \cap Column(t) : n >= nonce[t]
    /\ pc[t] = "done" /\ ~found /\ ~abort => nonce[t] > MaxNonce - Stride

Columns == \A t \in Threads : ColumnInv(t)

\* Columns are what is left by the division by the stride, and steps in one are as
\* wide as the stride.
LEMMA ColumnFacts ==
    ASSUME NEW t \in Threads
    PROVE  /\ t \in Column(t)
           /\ \A n \in Column(t) : n \in Nat /\ n >= t /\ n + Stride \in Column(t) /\ n % Stride = t
           /\ \A m, n \in Column(t) : m < n => m + Stride <= n
<1>1. Stride \in Nat \ {0} /\ t \in Nat /\ t < Stride
  BY MineAssumption DEF Threads
<1>2. \A k \in Nat : k * Stride \in Nat
  BY <1>1
<1>3. t = t + 0 * Stride
  BY <1>1
<1>4. ASSUME NEW k \in Nat
      PROVE  (t + k * Stride) + Stride = t + (k + 1) * Stride
  BY <1>1, SMT
<1>5. ASSUME NEW k \in Nat
      PROVE  (t + k * Stride) % Stride = t
  BY <1>1, SMT
<1>6. ASSUME NEW j \in Nat, NEW k \in Nat, t + j * Stride < t + k * Stride
      PROVE  (t + j * Stride) + Stride <= t + k * Stride
  <2>1. j < k
    BY <1>1, <1>6, SMT
  <2>2. (j + 1) * Stride <= k * Stride
    BY <1>1, <2>1, SMT
  <2> QED
    BY <1>1, <1>4, <2>2, SMT
<1>7. t \in Column(t)
  BY <1>3, Zenon DEF Column
<1>8. ASSUME NEW n \in Column(t)
      PROVE  n \in Nat /\ n >= t /\ n + Stride \in Column(t) /\ n % Stride = t
  <2>1. PICK k \in Nat : n = t + k * Stride
    BY <1>8 DEF Column
  <2>2. n + Stride \in Column(t)
    <3>1. n + Stride = t + (k + 1) * Stride /\ k + 1 \in Nat
      BY <1>4, <2>1
    <3> QED
      BY <3>1, Zenon DEF Column
  <2>3. k * Stride \in Nat
    BY <1>2
  <2> QED
    BY <1>1, <1>5, <2>1, <2>2, <2>3
<1>9. ASSUME NEW m \in Column(t), NEW n \in Column(t), m < n
      PROVE  m + Stride <= n
  BY <1>6, <1>9 DEF Column
<1> QED
  BY <1>7, <1>8, <1>9

\* Every word is in the column of some thread.
LEMMA ColumnsCover ==
    ASSUME NEW n \in Words
    PROVE  \E t \in Threads : n \in Column(t)
<1>1. Stride \in Nat \ {0} /\ n \in Nat
  BY MineAssumption DEF Words
<1>2. /\ n % Stride \in 0 .. Stride - 1 /\ n \div Stride \in Nat
      /\ n = (n % Stride) + (n \div Stride) * Stride
  BY <1>1, SMT
<1> QED
  BY <1>2 DEF Threads, Column

\* A nonce that is not in the last stride is counted on without wrapping.
LEMMA NoWrap ==
    ASSUME NEW n \in Words, n <= MaxNonce - Stride
    PROVE  (n + Stride) % (MaxNonce + 1) = n + Stride
<1>1. Stride \in Nat /\ MaxNonce \in Nat /\ n \in Nat /\ n + Stride \in 0 .. MaxNonce
  BY MineAssumption DEF Words
<1> QED
  BY <1>1, SMT

LEMMA MissColumn ==
    ASSUME Inv, Columns, NEW t \in Threads, Miss(t)
    PROVE  nonce'[t] = nonce[t] + Stride /\ Columns'
<1>1. /\ nonce \in [Threads -> Words] /\ pc \in [Threads -> Places]
      /\ pc[t] = "try" /\ nonce[t] \notin golden /\ nonce[t] \in Words
  BY DEF Inv, TypeOK, Miss
<1>2. nonce[t] <= MaxNonce - Stride /\ nonce[t] \in Column(t)
      /\ \A n \in golden \cap Column(t) : n >= nonce[t]
  BY <1>1 DEF Columns, ColumnInv
<1>3. nonce'[t] = nonce[t] + Stride
      /\ \A u \in Threads \ {t} : nonce'[u] = nonce[u] /\ pc'[u] = pc[u]
  BY <1>1, <1>2, NoWrap DEF Miss, Goto
<1>4. UNCHANGED <<golden, found, abort>>
  BY DEF Miss
<1>5. /\ pc'[t] = IF nonce'[t] > MaxNonce - Stride THEN "done" ELSE NextRound(iter'[t])
      /\ pc'[t] # "done" => ~(nonce'[t] > MaxNonce - Stride)
      /\ pc'[t] = "done" => nonce'[t] > MaxNonce - Stride
  BY <1>1 DEF Miss, Goto, NextRound
<1>6. nonce[t] \in Nat /\ Stride \in Nat /\ MaxNonce \in Nat
  BY <1>1, MineAssumption DEF Words
<1>7. ColumnInv(t)'
  <2>1. nonce'[t] \in Column(t)
    BY <1>2, <1>3, ColumnFacts
  <2>2. ASSUME NEW n \in golden \cap Column(t)
        PROVE  n >= nonce'[t]
    <3>1. n # nonce[t] /\ n >= nonce[t] /\ n \in Nat
      BY <1>1, <1>2, ColumnFacts
    <3>2. nonce[t] < n
      BY <1>6, <3>1
    <3> QED
      BY <1>2, <1>3, <3>2, ColumnFacts
  <2>3. pc'[t] # "done" => nonce'[t] <= MaxNonce - Stride
    BY <1>3, <1>5, <1>6
  <2> QED
    BY <1>4, <1>5, <2>1, <2>2, <2>3 DEF ColumnInv, Column
<1>8. ASSUME NEW u \in Threads, u # t
      PROVE  ColumnInv(u)'
  BY <1>3, <1>4, <1>8 DEF Columns, ColumnInv, Column
<1> QED
  BY <1>3, <1>7, <1>8 DEF Columns

LEMMA NextColumns == Inv /\ Columns /\ [Next]_vars => Columns'
<1> SUFFICES ASSUME Inv, Columns, [Next]_vars PROVE Columns'
  OBVIOUS
<1>1. CASE CallOff \/ UNCHANGED vars
  BY <1>1 DEF CallOff, vars, Columns, ColumnInv, Column
<1>2. ASSUME NEW t \in Threads, Thread(t), ~Miss(t) PROVE Columns'
  <2>1. pc \in [Threads -> Places]
    BY DEF Inv, TypeOK
  <2>2. /\ UNCHANGED <<golden, abort, nonce>> /\ pc[t] # "done"
        /\ pc'[t] = "done" => found' \/ abort'
        /\ \A u \in Threads \ {t} : pc'[u] = pc[u]
        /\ found => found'
    <3>1. CASE Start(t)
      BY <2>1, <3>1 DEF Start, Goto
    <3>2. CASE LookFound(t)
      BY <2>1, <3>2 DEF LookFound, Goto
    <3>3. CASE LookAbort(t)
      BY <2>1, <3>3 DEF LookAbort, Goto
    <3>4. CASE Hit(t)
      BY <2>1, <3>4 DEF Hit, Goto
    <3>5. CASE Write(t)
      BY <2>1, <3>5 DEF Write, Goto, Inv, Winner
    <3> QED
      BY <1>2, <3>1, <3>2, <3>3, <3>4, <3>5 DEF Thread
  <2>3. ASSUME NEW u \in Threads
        PROVE  ColumnInv(u)'
    <3>1. ColumnInv(u)
      BY DEF Columns
    <3>2. CASE u = t
      BY <2>2, <3>1, <3>2 DEF ColumnInv, Column
    <3>3. CASE u # t
      BY <2>2, <3>1, <3>3 DEF ColumnInv, Column
    <3> QED
      BY <3>2, <3>3
  <2> QED
    BY <2>3 DEF Columns
<1> QED
  BY <1>1, <1>2, MissColumn DEF Next

LEMMA InitColumns == Init => Columns
<1> SUFFICES ASSUME Init, NEW t \in Threads PROVE ColumnInv(t)
  BY DEF Columns
<1>1. nonce[t] = t /\ pc[t] = "start"
  BY DEF Init
<1>2. t <= MaxNonce - Stride
  BY MineAssumption DEF Threads
<1> QED
  BY <1>1, <1>2, ColumnFacts DEF ColumnInv

LEMMA ColumnsAlways == Spec => []Columns
  BY InitColumns, NextColumns, KernelInvariant, PTL DEF Spec

\* No nonce is tried twice, by one thread or by two, for any grid and any word that
\* has room for two strides.
THEOREM NoncesAreTriedOnce == Spec => EachItsOwn
<1>1. Inv /\ Columns /\ [Next]_vars =>
        [\A t \in Threads : nonce'[t] # nonce[t] =>
            nonce'[t] > nonce[t] /\ nonce'[t] % Stride = t]_vars
  <2> SUFFICES ASSUME Inv, Columns, [Next]_vars, NEW t \in Threads, nonce'[t] # nonce[t]
               PROVE  nonce'[t] > nonce[t] /\ nonce'[t] % Stride = t
    BY DEF vars
  <2>1. PICK u \in Threads : Miss(u)
    BY DEF Next, CallOff, Thread, Start, LookFound, LookAbort, Hit, Write, vars
  <2>2. u = t
    BY <2>1 DEF Miss, Inv, TypeOK
  <2>3. nonce'[t] = nonce[t] + Stride /\ nonce'[t] \in Column(t)
    BY <2>1, <2>2, MissColumn DEF Columns, ColumnInv, Column
  <2>4. nonce[t] \in Nat /\ Stride \in Nat \ {0}
    BY MineAssumption DEF Inv, TypeOK, Words
  <2> QED
    BY <2>3, <2>4, ColumnFacts
<1> QED
  BY <1>1, KernelInvariant, ColumnsAlways, PTL DEF Spec, EachItsOwn

\* A grid that gives up by itself has tried every word but those of the last stride.
THEOREM GivesUpAtTheEnd == Spec => []GaveUpLate
<1>1. Inv /\ Columns => GaveUpLate
  <2> SUFFICES ASSUME Inv, Columns, Ended, ~found, ~abort, NEW n \in golden
               PROVE  n > MaxNonce - Stride
    BY DEF GaveUpLate
  <2>1. n \in Words
    BY DEF Inv, TypeOK
  <2>2. PICK t \in Threads : n \in Column(t)
    BY <2>1, ColumnsCover
  <2>3. n >= nonce[t] /\ nonce[t] > MaxNonce - Stride
    BY <2>2 DEF Columns, ColumnInv, Ended
  <2>4. n \in Nat /\ nonce[t] \in Nat /\ MaxNonce \in Nat /\ Stride \in Nat
    BY <2>1, MineAssumption DEF Inv, TypeOK, Words
  <2> QED
    BY <2>3, <2>4
<1> QED
  BY <1>1, KernelInvariant, ColumnsAlways, PTL

-----------------------------------------------------------------------------
\* To the host a step of a thread is a step of the search, or none.
LEMMA StepsOfTheSearch ==
    Inv /\ [Next]_vars => [Search!SearchNext]_HostView
<1> SUFFICES ASSUME Inv, [Next]_vars PROVE [Search!SearchNext]_HostView
  OBVIOUS
<1> USE DEF Search!SearchNext, Search!GpuFind, Search!GpuAbort, Search!GpuExhausted,
            Search!GpuCallOff, Search!GpuEnd
<1>1. CASE UNCHANGED vars
  BY <1>1 DEF vars, HostView, Ended
<1>2. CASE CallOff
  <2>1. HostView' = [state |-> HostView.state, found |-> HostView.found, abort |-> TRUE]
    <3>1. /\ HostView.state = IF Ended THEN "done" ELSE "running"
          /\ HostView.found = (Ended /\ found)
      BY Zenon DEF HostView
    <3>2. HostView' = [state |-> IF Ended THEN "done" ELSE "running",
                       found |-> Ended /\ found, abort |-> TRUE]
      BY <1>2, Zenon DEF CallOff, HostView, Ended
    <3> QED
      BY <3>1, <3>2, Zenon
  <2>2. HostView.state \in {"running", "done"}
    BY DEF HostView
  <2> QED
    BY <2>1, <2>2
<1>3. ASSUME NEW t \in Threads, Thread(t) PROVE [Search!SearchNext]_HostView
  <2>1. ~Ended /\ abort' = abort
    BY <1>3 DEF Thread, Start, LookFound, LookAbort, Miss, Hit, Write, Ended
  <2>2. CASE ~Ended'
    BY <2>1, <2>2 DEF HostView
  <2>3. CASE Ended'
    <3>1. HostView.state = "running"
      BY <2>1 DEF HostView
    <3>2. HostView' = [state |-> "done", found |-> found', abort |-> HostView.abort]
      <4>1. HostView' = [state |-> "done", found |-> found', abort |-> abort]
        <5>1. found' \in BOOLEAN
          BY NextTypeOK DEF Inv, TypeOK
        <5>2. Ended' = TRUE
          BY <2>3, Zenon
        <5>3. (Ended' /\ found') = found'
          BY <5>1, <5>2, Zenon
        <5> QED
          BY <2>1, <2>3, <5>3, Zenon DEF HostView
      <4>2. HostView.abort = abort
        BY Zenon DEF HostView
      <4> QED
        BY <4>1, <4>2, Zenon
    <3>3. found' \in BOOLEAN
      BY NextTypeOK DEF Inv, TypeOK
    <3> QED
      BY <3>1, <3>2, <3>3
  <2> QED
    BY <2>2, <2>3
<1> QED
  BY <1>1, <1>2, <1>3 DEF Next

\* The kernel implements the search that CudaNode has on its stream.
THEOREM KernelIsSearch == Spec => SearchesSafely
<1>1. Init => HostView = Search!GpuRun
  <2> SUFFICES ASSUME Init PROVE HostView = Search!GpuRun
    OBVIOUS
  <2>1. 0 \in Threads
    BY WordArithmetic DEF Threads
  <2>2. ~Ended
    BY <2>1 DEF Init, Ended
  <2> QED
    <3>1. HostView = [state |-> "running", found |-> FALSE, abort |-> FALSE]
      BY <2>2, Zenon DEF Init, HostView
    <3> QED
      BY <3>1, Zenon DEF Search!GpuRun, Search!GpuIdle
<1> QED
  BY <1>1, StepsOfTheSearch, KernelInvariant, PTL DEF Spec, SearchesSafely, Search!SearchSafe

-----------------------------------------------------------------------------
(* The search of the CPU: one thread, and a counter that is a word. *)

\* The counter has passed no solution since it was last 0.
Passed ==
    /\ solutions \subseteq Uints /\ counter \in Uints
    /\ outcome \in {"searching", "found"}
    /\ \A n \in solutions : counter <= n
    /\ outcome = "found" => counter \in solutions

LEMMA SerialInvariant == HashSpec => []Passed
<1> USE DEF Uints
<1>1. UintMax \in Nat /\ Limit \in Nat /\ Limit > UintMax
  BY FindHashAssumption
<1>2. HashInit => Passed
  BY <1>1 DEF HashInit, Passed
<1>3. ASSUME Passed, Round
      PROVE  Passed'
  <2>1. counter \in 0 .. UintMax /\ ~(counter >= Limit) /\ UNCHANGED solutions
    BY <1>1, <1>3 DEF Passed, Round
  <2>2. CASE counter \in solutions
    <3>1. outcome' = "found" /\ counter' = counter
      BY <1>3, <2>1, <2>2 DEF Round
    <3> QED
      BY <1>3, <2>1, <2>2, <3>1 DEF Passed
  <2>3. CASE counter \notin solutions
    <3>1. outcome' = "searching" /\ counter' = (counter + 1) % (UintMax + 1)
      BY <1>3, <2>1, <2>3 DEF Round
    <3>2. counter' = IF counter = UintMax THEN 0 ELSE counter + 1
      <4>1. CASE counter = UintMax
        BY <1>1, <3>1, <4>1, SMT
      <4>2. CASE counter < UintMax
        BY <1>1, <2>1, <3>1, <4>2, SMT
      <4> QED
        BY <1>1, <2>1, <4>1, <4>2
    <3>3. \A n \in solutions : n \in 0 .. UintMax /\ counter < n
      BY <1>3, <2>1, <2>3 DEF Passed
    <3> QED
      BY <1>1, <1>3, <2>1, <3>1, <3>2, <3>3 DEF Passed
  <2> QED
    BY <2>2, <2>3
<1>4. ASSUME Passed, UNCHANGED hashVars
      PROVE  Passed'
  BY <1>4 DEF Passed, hashVars
<1> QED
  BY <1>2, <1>3, <1>4, PTL DEF HashSpec

\* For a word of any width: findHash returns the least solution, so every node
\* that searches on the CPU finds the same genesis block.
THEOREM LeastIsFound == HashSpec => []LeastNonce
<1>1. Passed => LeastNonce
  BY DEF Passed, LeastNonce
<1> QED
  BY <1>1, SerialInvariant, PTL

\* The bound of the loop is out of the counter's reach: "fail" is never returned.
THEOREM NeverGivesUp == HashSpec => []NeverFails
<1>1. Passed => NeverFails
  BY DEF Passed, NeverFails
<1> QED
  BY <1>1, SerialInvariant, PTL

=============================================================================
