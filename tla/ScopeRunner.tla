----------------------------- MODULE ScopeRunner -----------------------------
(***************************************************************************)
(* ScopeRunner (utility.hpp): asio callbacks that share a scope with the   *)
(* server or client that owns it, and the destructor that waits for them.  *)
(* One atomic counter: the number of callbacks in the scope, or -1 when    *)
(* the owner is gone.  compare_exchange_weak may fail for no reason.       *)
(***************************************************************************)
EXTENDS Integers, FiniteSets

CONSTANTS Callbacks, \* threads that run a callback
          Stoppers   \* threads that call stop()

VARIABLES
    count,    \* the atomic counter
    expected, \* the local of continue_lock and of stop
    pc        \* where each thread is

vars == <<count, expected, pc>>

Threads == Callbacks \cup Stoppers

\* No thread both runs a callback and destroys the owner.
ScopeAssumption ==
    /\ Callbacks \cap Stoppers = {}
    /\ IsFiniteSet(Callbacks)

Goto(t, place) == pc' = [pc EXCEPT ![t] = place]

Init ==
    /\ count = 0
    /\ expected = [t \in Threads |-> 0]
    /\ pc = [t \in Threads |-> "out"]

-----------------------------------------------------------------------------
\* continue_lock: long expected = count
Load(c) ==
    /\ pc[c] = "out"
    /\ expected' = [expected EXCEPT ![c] = count]
    /\ Goto(c, "loop")
    /\ UNCHANGED count

\* expected < 0: nullptr, the callback returns at once.
Refused(c) ==
    /\ pc[c] = "loop" /\ expected[c] < 0
    /\ Goto(c, "refused")
    /\ UNCHANGED <<count, expected>>

\* compare_exchange_weak(expected, expected + 1) succeeds.
Lock(c) ==
    /\ pc[c] = "loop" /\ expected[c] >= 0
    /\ count = expected[c]
    /\ count' = count + 1
    /\ Goto(c, "in")
    /\ UNCHANGED expected

\* It fails, and says what it found; it may also fail on equal values.
LockFails(c) ==
    /\ pc[c] = "loop" /\ expected[c] >= 0
    /\ expected' = [expected EXCEPT ![c] = count]
    /\ UNCHANGED <<count, pc>>

\* ~SharedLock
Unlock(c) ==
    /\ pc[c] = "in"
    /\ count' = count - 1
    /\ Goto(c, "out")
    /\ UNCHANGED expected

-----------------------------------------------------------------------------
\* stop()
Stop(s) ==
    /\ pc[s] = "out"
    /\ expected' = [expected EXCEPT ![s] = 0]
    /\ Goto(s, "loop")
    /\ UNCHANGED count

\* compare_exchange_weak(expected, -1) succeeds: no callback is in the scope.
Close(s) ==
    /\ pc[s] = "loop"
    /\ count = expected[s]
    /\ count' = -1
    /\ Goto(s, "stopped")
    /\ UNCHANGED expected

\* It fails; another stop() may have been first.
CloseFails(s) ==
    /\ pc[s] = "loop"
    /\ expected' = [expected EXCEPT ![s] = IF count < 0 THEN count ELSE 0]
    /\ Goto(s, IF count < 0 THEN "stopped" ELSE "loop")
    /\ UNCHANGED count

-----------------------------------------------------------------------------
Callback(c) == Load(c) \/ Refused(c) \/ Lock(c) \/ LockFails(c) \/ Unlock(c)
Stopper(s)  == Stop(s) \/ Close(s) \/ CloseFails(s)

Next == (\E c \in Callbacks : Callback(c)) \/ (\E s \in Stoppers : Stopper(s))

Spec == Init /\ [][Next]_vars

-----------------------------------------------------------------------------
Holders == {c \in Callbacks : pc[c] = "in"}

\* The counter counts.
TypeOK ==
    /\ count \in Int /\ count >= -1
    /\ expected \in [Threads -> Int] /\ \A t \in Threads : expected[t] >= -1
    /\ pc \in [Threads -> {"out", "loop", "in", "refused", "stopped"}]

\* "Blocks until all shared locks are released, then prevents future shared
\* locks": once a stop() has returned, no callback is in the scope of the server
\* or client that is being destroyed, though several are trying to get in.
StopExcludes ==
    (\E s \in Stoppers : pc[s] = "stopped") => Holders = {}

\* A callback is only turned away when the scope is closed or closing, never by
\* losing a race against another callback.
RefusedOnlyIfStopped ==
    \A c \in Callbacks : pc[c] = "refused" => count = -1

=============================================================================
