----------------------------- MODULE RateLimiter -----------------------------
(***************************************************************************)
(* ToolService::acquire_rate_limit_slot(), which every execute() calls     *)
(* first, on whichever worker runs it.  A worker reads the clock, then     *)
(* waits for rate_state_->mutex, and may be delayed in between for any     *)
(* time; so recent_calls need not be in order, and a worker may expire     *)
(* entries with a clock that others have long passed.  Definitions         *)
(* introduced by "Fault" are plausible mistakes in the one that follows.   *)
(***************************************************************************)
EXTENDS Integers, Sequences, FiniteSets

CONSTANTS
    Workers,   \* the threads that call execute()
    MaxCalls,  \* kMaxCallsPerWindow
    Window,    \* kWindow, in ticks of the clock
    MaxTime    \* bound: the last tick

ASSUME RateAssumption ==
    /\ IsFiniteSet(Workers)
    /\ MaxCalls \in Nat \ {0} /\ Window \in Nat \ {0} /\ MaxTime \in Nat

VARIABLES
    clock,        \* steady_clock
    recentCalls,  \* rate_state_->recent_calls, oldest entry first
    waiting,      \* the workers that have read the clock and not yet the mutex
    seen,         \* what each of them read, 0 for the others
    admitted      \* history: what was pushed, and when

vars == <<clock, recentCalls, waiting, seen, admitted>>

Init ==
    /\ clock = 0 /\ recentCalls = <<>>
    /\ waiting = {} /\ seen = [w \in Workers |-> 0] /\ admitted = <<>>

ReadClock(w) ==
    /\ w \notin waiting
    /\ waiting' = waiting \cup {w} /\ seen' = [seen EXCEPT ![w] = clock]
    /\ UNCHANGED <<clock, recentCalls, admitted>>

\* Fault: an entry is forgotten a tick too early.
ExpiredEarly(now, entry) == now - entry >= Window - 1

\* Fault: an entry counts for a tick too long.
ExpiredLate(now, entry) == now - entry > Window

\* An entry read later than now is no older than the window: the difference is
\* signed.
Expired(now, entry) == now - entry >= Window

\* The loop drops k entries from the front and stops at the first one that has
\* not expired.
Drops(k, now) ==
    /\ \A i \in 1..k : Expired(now, recentCalls[i])
    /\ k < Len(recentCalls) => ~Expired(now, recentCalls[k + 1])

Kept(k) == SubSeq(recentCalls, k + 1, Len(recentCalls))

\* The critical section of worker w, which leaves q.
Leaves(w, q) ==
    /\ recentCalls' = q /\ waiting' = waiting \ {w}
    /\ seen' = [seen EXCEPT ![w] = 0] /\ UNCHANGED clock

Admits(w) ==
    /\ w \in waiting
    /\ \E k \in 0..Len(recentCalls) :
           /\ Drops(k, seen[w]) /\ Len(Kept(k)) < MaxCalls
           /\ Leaves(w, Append(Kept(k), seen[w]))
    /\ admitted' = Append(admitted, [stamp |-> seen[w], at |-> clock])

Refuses(w) ==
    /\ w \in waiting
    /\ \E k \in 0..Len(recentCalls) :
           Drops(k, seen[w]) /\ Len(Kept(k)) >= MaxCalls /\ Leaves(w, Kept(k))
    /\ UNCHANGED admitted

Tick ==
    /\ clock < MaxTime /\ clock' = clock + 1
    /\ UNCHANGED <<recentCalls, waiting, seen, admitted>>

Next ==
    \/ \E w \in Workers : ReadClock(w) \/ Admits(w) \/ Refuses(w)
    \/ Tick

Spec == Init /\ [][Next]_vars
=============================================================================
