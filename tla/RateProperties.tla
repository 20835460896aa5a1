--------------------------- MODULE RateProperties ---------------------------
(***************************************************************************)
(* What the rate limit guarantees although the clock is read outside the   *)
(* lock.                                                                   *)
(***************************************************************************)
EXTENDS RateLimiter

\* A call is refused only when the last MaxCalls admissions all took place
\* within a window before its reading of the clock: neither entries out of
\* order nor expired ones hidden behind a later one refuse a caller who paused
\* ("retry after a short pause").
RefusedOnlyWhenBusy ==
    [][\A w \in Workers :
           Refuses(w) =>
               /\ Len(admitted) >= MaxCalls
               /\ \A i \in Len(admitted) - MaxCalls + 1..Len(admitted) :
                      admitted[i].at > seen[w] - Window]_vars

\* No window of the clock sees more than MaxCalls admissions and one for every
\* worker, whose reading may be older than the window.
OverrunBounded ==
    \A t \in 0..clock :
        Cardinality({i \in DOMAIN admitted : admitted[i].at \in t..t + Window - 1})
            <= MaxCalls + Cardinality(Workers)

-----------------------------------------------------------------------------
(* The inductive invariant behind RefusedOnlyWhenBusy (RateLimiterProofs). *)

RateTypeOK ==
    /\ clock \in Nat /\ recentCalls \in Seq(Nat)
    /\ waiting \subseteq Workers /\ seen \in [Workers -> Nat]
    /\ admitted \in Seq([stamp : Nat, at : Nat])

\* recent_calls holds what was admitted last, in the order of the mutex.
RecentIsLast ==
    /\ Len(recentCalls) <= MaxCalls /\ Len(recentCalls) <= Len(admitted)
    /\ \A i \in 1..Len(recentCalls) :
           recentCalls[i] = admitted[Len(admitted) - Len(recentCalls) + i].stamp

\* A reading is no later than its use, and uses are in order.
InOrder ==
    /\ \A w \in Workers : seen[w] <= clock
    /\ \A i \in DOMAIN admitted :
           /\ admitted[i].stamp <= admitted[i].at /\ admitted[i].at <= clock
           /\ \A j \in DOMAIN admitted : i <= j => admitted[i].at <= admitted[j].at

\* recent_calls is what was admitted last, and times of admission are in order
\* although readings of the clock are not.
RateInv == RateTypeOK /\ RecentIsLast /\ InOrder

-----------------------------------------------------------------------------
(* What OverrunBounded needs beside RateInv.                               *)

\* Admissions from t on under a reading of before t, and workers that may yet
\* add one.
Stale(t) == {i \in DOMAIN admitted : admitted[i].stamp < t /\ admitted[i].at >= t}
Behind(t) == {w \in waiting : seen[w] < t}

\* Admissions in the window that begins at t, under a reading of within it.
Fresh(t) ==
    {i \in DOMAIN admitted : admitted[i].stamp >= t /\ admitted[i].at < t + Window}

\* A worker overtakes t with one stale reading at most.
OncePerWorker ==
    \A t \in 0..clock :
        Cardinality(Stale(t)) + Cardinality(Behind(t)) <= Cardinality(Workers)

\* While the window lasts recent_calls loses none of its fresh admissions:
\* no reading is late enough to expire them.
FreshCounted ==
    \A t \in 0..clock :
        /\ clock < t + Window =>
               \A i \in Fresh(t) : i > Len(admitted) - Len(recentCalls)
        /\ Cardinality(Fresh(t)) <= MaxCalls

\* The inductive invariant of the overrun: RateInv and the two counts.
OverrunInv == RateInv /\ OncePerWorker /\ FreshCounted
=============================================================================
