---------------------------- MODULE RateLimiter ----------------------------
(***************************************************************************)
(* SimpleRateLimiter.wait of utils.py, shared by the threads that call the *)
(* exchange.  A thread holds the lock while it sleeps.  The deque of times *)
(* is the end of the history: granted[first..n].                            *)
(***************************************************************************)
EXTENDS Integers

CONSTANTS
    MaxCalls, Period,   \* of the limiter; the surplus of 0.01 s is one tick
    MaxClock            \* bound of the model

ASSUME LimiterAssumption ==
    /\ {MaxCalls, Period} \subseteq Nat \ {0}
    /\ MaxClock \in Nat

VARIABLES
    clock,      \* time.monotonic()
    granted,    \* when each call so far was let through
    n, first,   \* how many there are; the oldest still in the deque
    until       \* when the thread that holds the lock wakes up, 0 while it is free

limiterVars == <<clock, granted, n, first, until>>

Waiting == n + 1 - first   \* len(self.calls)

LimiterInit ==
    /\ clock = 1
    /\ granted = [i \in {} |-> 0]
    /\ n = 0
    /\ first = 1
    /\ until = 0

Old(i) == granted[i] + Period < clock

(* A slip: nothing leaves the deque. *)
PrunedNever(f) == f = first

(* The old calls at the head of the deque leave it, up to call f. *)
Pruned(f) ==
    /\ \A i \in first..(f - 1) : Old(i)
    /\ f <= n => ~Old(f)

(* A slip: the sleep ends with the period, not after it. *)
WakeAtPeriod(f) == IF n + 1 - f >= MaxCalls THEN granted[f] + Period ELSE clock

Wake(f) == IF n + 1 - f >= MaxCalls THEN granted[f] + Period + 1 ELSE clock

(* The lock is free: the deque is pruned and the thread sleeps, if it has to. *)
Enter ==
    /\ until = 0
    /\ \E f \in first..(n + 1) : Pruned(f) /\ first' = f /\ until' = Wake(f)
    /\ UNCHANGED <<clock, granted, n>>

(* The thread is awake, records the time it reads now and lets the lock go. *)
Grant ==
    /\ until > 0
    /\ clock >= until
    /\ granted' = [i \in 1..(n + 1) |-> IF i <= n THEN granted[i] ELSE clock]
    /\ n' = n + 1
    /\ until' = 0
    /\ UNCHANGED <<clock, first>>

Elapse ==
    /\ clock < MaxClock
    /\ clock' = clock + 1
    /\ UNCHANGED <<granted, n, first, until>>

LimiterNext == Enter \/ Grant \/ Elapse

LimiterSpec == LimiterInit /\ [][LimiterNext]_limiterVars
-----------------------------------------------------------------------------
(* Every variable keeps its type; the deque never outgrows its limit by more *)
(* than the call that waited. *)
LimiterTypeOK ==
    /\ clock \in Nat \ {0}
    /\ n \in Nat
    /\ granted \in [1..n -> 1..clock]
    /\ first \in 1..(n + 1)
    /\ until \in Nat
    /\ Waiting <= MaxCalls + 1

(* No window of Period holds more than MaxCalls calls, however the threads are *)
(* scheduled and however late they wake (utils.py:134-148). *)
WindowBounded == \A i \in 1..n : i + MaxCalls <= n => granted[i] + Period < granted[i + MaxCalls]
=============================================================================
