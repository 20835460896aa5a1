-------------------------- MODULE RateLimiterProofs --------------------------
(***************************************************************************)
(* The rate limit refuses nobody who paused and is overrun by no more than *)
(* one admission a worker, for every number of workers, every limit and    *)
(* every window.                                                           *)
(***************************************************************************)
EXTENDS RateProperties, FiniteSetTheorems, TLAPS

\* What the history holds of one admission.
LEMMA Entries ==
    ASSUME RateInv, NEW i \in DOMAIN admitted
    PROVE  /\ admitted[i].stamp \in Nat /\ admitted[i].at \in Nat
           /\ admitted[i].stamp <= admitted[i].at /\ admitted[i].at <= clock
<1> DEFINE Entry == [stamp : Nat, at : Nat]
<1>0. admitted \in Seq(Entry) BY DEF RateInv, RateTypeOK
<1>1. admitted[i] \in Entry
  <2> HIDE DEF Entry
  <2> QED BY <1>0
<1> QED BY <1>1 DEF RateInv, InOrder

\* The entries that stay in the queue are the last ones still.
LEMMA KeptIsLast ==
    ASSUME RateAssumption, RateInv, NEW k \in 0..Len(recentCalls)
    PROVE  /\ Kept(k) \in Seq(Nat) /\ Len(Kept(k)) = Len(recentCalls) - k
           /\ \A i \in 1..Len(Kept(k)) :
                  Kept(k)[i] = admitted[Len(admitted) - Len(Kept(k)) + i].stamp
<1>1. /\ recentCalls \in Seq(Nat) /\ Len(recentCalls) \in Nat
      /\ admitted \in Seq([stamp : Nat, at : Nat]) /\ Len(admitted) \in Nat
  BY DEF RateInv, RateTypeOK
<1>2. /\ Kept(k) \in Seq(Nat) /\ Len(Kept(k)) = Len(recentCalls) - k
      /\ \A i \in 1..Len(Kept(k)) : Kept(k)[i] = recentCalls[k + i]
  BY <1>1 DEF Kept
<1>3. ASSUME NEW i \in 1..Len(Kept(k))
      PROVE  Kept(k)[i] = admitted[Len(admitted) - Len(Kept(k)) + i].stamp
  <2>1. k + i \in 1..Len(recentCalls) BY <1>1, <1>2
  <2>2. recentCalls[k + i] = admitted[Len(admitted) - Len(recentCalls) + (k + i)].stamp
    BY <2>1 DEF RateInv, RecentIsLast
  <2>3. Len(admitted) - Len(recentCalls) + (k + i) = Len(admitted) - Len(Kept(k)) + i
    BY <1>1, <1>2
  <2> QED BY <1>2, <2>2, <2>3
<1> QED BY <1>2, <1>3

\* An admission keeps recent_calls the end of the history.
LEMMA AdmitsStep ==
    ASSUME RateAssumption, RateInv, NEW w \in Workers, Admits(w)
    PROVE  RateInv'
<1> DEFINE new == [stamp |-> seen[w], at |-> clock]
<1>1. PICK k \in 0..Len(recentCalls) :
          Len(Kept(k)) < MaxCalls /\ Leaves(w, Append(Kept(k), seen[w]))
  BY DEF Admits
<1>2. /\ Kept(k) \in Seq(Nat) /\ Len(Kept(k)) = Len(recentCalls) - k
      /\ \A i \in 1..Len(Kept(k)) :
             Kept(k)[i] = admitted[Len(admitted) - Len(Kept(k)) + i].stamp
  BY KeptIsLast
<1>3. /\ clock \in Nat /\ seen \in [Workers -> Nat] /\ seen[w] \in Nat
      /\ seen[w] <= clock /\ waiting \subseteq Workers
      /\ admitted \in Seq([stamp : Nat, at : Nat]) /\ Len(admitted) \in Nat
      /\ recentCalls \in Seq(Nat) /\ Len(recentCalls) \in Nat
      /\ Len(recentCalls) <= Len(admitted)
  BY DEF RateInv, RateTypeOK, InOrder, RecentIsLast
<1>4. /\ recentCalls' = Append(Kept(k), seen[w]) /\ waiting' = waiting \ {w}
      /\ seen' = [seen EXCEPT ![w] = 0] /\ clock' = clock
      /\ admitted' = Append(admitted, new)
  BY <1>1 DEF Leaves, Admits
<1>5. new \in [stamp : Nat, at : Nat] BY <1>3
<1>6. RateTypeOK'
  <2>1. admitted' \in Seq([stamp : Nat, at : Nat]) BY <1>3, <1>4, <1>5
  <2>2. recentCalls' \in Seq(Nat) BY <1>2, <1>3, <1>4
  <2>3. seen' \in [Workers -> Nat] BY <1>3, <1>4
  <2> QED BY <1>3, <1>4, <2>1, <2>2, <2>3 DEF RateTypeOK
<1>7. /\ Len(admitted') = Len(admitted) + 1 /\ admitted'[Len(admitted) + 1] = new
      /\ \A i \in 1..Len(admitted) : admitted'[i] = admitted[i]
  BY <1>3, <1>4, <1>5
<1>8. RecentIsLast'
  <2>1. /\ Len(recentCalls') = Len(Kept(k)) + 1
        /\ recentCalls'[Len(Kept(k)) + 1] = seen[w]
        /\ \A i \in 1..Len(Kept(k)) : recentCalls'[i] = Kept(k)[i]
    BY <1>2, <1>3, <1>4
  <2>2. Len(Kept(k)) \in Nat /\ Len(Kept(k)) <= Len(admitted)
    BY <1>2, <1>3
  <2>3. Len(recentCalls') <= MaxCalls /\ Len(recentCalls') <= Len(admitted')
    BY <1>1, <1>7, <2>1, <2>2 DEF RateAssumption
  <2>4. ASSUME NEW i \in 1..Len(recentCalls')
        PROVE  recentCalls'[i] =
                   admitted'[Len(admitted') - Len(recentCalls') + i].stamp
    <3>1. Len(admitted') - Len(recentCalls') + i = Len(admitted) - Len(Kept(k)) + i
      BY <1>3, <1>7, <2>1, <2>2
    <3>2. CASE i = Len(Kept(k)) + 1
      <4>1. Len(admitted) - Len(Kept(k)) + i = Len(admitted) + 1 BY <1>3, <2>2, <3>2
      <4> QED BY <1>7, <2>1, <3>1, <3>2, <4>1
    <3>3. CASE i \in 1..Len(Kept(k))
      <4>1. Len(admitted) - Len(Kept(k)) + i \in 1..Len(admitted)
        BY <1>3, <2>2, <3>3
      <4> QED BY <1>2, <1>7, <2>1, <3>1, <3>3, <4>1
    <3> QED BY <2>1, <2>2, <3>2, <3>3
  <2> QED BY <2>3, <2>4 DEF RecentIsLast
<1>9. InOrder'
  <2>1. \A v \in Workers : seen'[v] <= clock' BY <1>3, <1>4 DEF RateInv, InOrder
  <2>2. DOMAIN admitted = 1..Len(admitted) /\ DOMAIN admitted' = 1..Len(admitted) + 1
    BY <1>3, <1>4, <1>5, <1>7
  <2>3. new.stamp = seen[w] /\ new.at = clock OBVIOUS
  <2>4. \A i \in DOMAIN admitted :
            admitted[i].stamp <= admitted[i].at /\ admitted[i].at <= clock
    BY DEF RateInv, InOrder
  <2>5. \A i, j \in DOMAIN admitted : i <= j => admitted[i].at <= admitted[j].at
    BY DEF RateInv, InOrder
  <2>6. ASSUME NEW i \in DOMAIN admitted'
        PROVE  /\ admitted'[i].stamp <= admitted'[i].at /\ admitted'[i].at <= clock'
               /\ \A j \in DOMAIN admitted' : i <= j => admitted'[i].at <= admitted'[j].at
    <3>1. CASE i = Len(admitted) + 1
      BY <1>3, <1>4, <1>7, <2>2, <2>3, <3>1
    <3>2. CASE i \in DOMAIN admitted
      BY <1>3, <1>4, <1>7, <2>2, <2>3, <2>4, <2>5, <3>2
    <3> QED BY <1>3, <2>2, <3>1, <3>2
  <2> QED BY <2>1, <2>6 DEF InOrder
<1> QED BY <1>6, <1>8, <1>9 DEF RateInv

\* A refusal only drops entries from the front.
LEMMA RefusesStep ==
    ASSUME RateAssumption, RateInv, NEW w \in Workers, Refuses(w)
    PROVE  RateInv'
<1>1. PICK k \in 0..Len(recentCalls) : Leaves(w, Kept(k))
  BY DEF Refuses
<1>2. /\ Kept(k) \in Seq(Nat) /\ Len(Kept(k)) = Len(recentCalls) - k
      /\ \A i \in 1..Len(Kept(k)) :
             Kept(k)[i] = admitted[Len(admitted) - Len(Kept(k)) + i].stamp
  BY KeptIsLast
<1>3. /\ recentCalls' = Kept(k) /\ waiting' = waiting \ {w}
      /\ seen' = [seen EXCEPT ![w] = 0] /\ clock' = clock /\ admitted' = admitted
  BY <1>1 DEF Leaves, Refuses
<1>4. RateTypeOK' BY <1>2, <1>3 DEF RateInv, RateTypeOK
<1>5. RecentIsLast'
  <2>1. Len(recentCalls) \in Nat /\ Len(admitted) \in Nat
    BY DEF RateInv, RateTypeOK
  <2>2. Len(recentCalls) <= MaxCalls /\ Len(recentCalls) <= Len(admitted)
    BY DEF RateInv, RecentIsLast
  <2>3. Len(recentCalls') <= MaxCalls /\ Len(recentCalls') <= Len(admitted')
    BY <1>2, <1>3, <2>1, <2>2 DEF RateAssumption
  <2> QED BY <1>2, <1>3, <2>3 DEF RecentIsLast
<1>6. InOrder' BY <1>3 DEF RateInv, RateTypeOK, InOrder
<1> QED BY <1>4, <1>5, <1>6 DEF RateInv

\* In every reachable state recent_calls is what was admitted last, and the
\* times of admission are in order.
THEOREM RateInvariance == Spec => []RateInv
<1>1. Init => RateInv
  BY RateAssumption
  DEF Init, RateInv, RateTypeOK, RecentIsLast, InOrder, RateAssumption
<1>2. RateInv /\ [Next]_vars => RateInv'
  <2> SUFFICES ASSUME RateInv, [Next]_vars PROVE RateInv' OBVIOUS
  <2>1. ASSUME NEW w \in Workers, ReadClock(w) PROVE RateInv'
    BY <2>1 DEF ReadClock, RateInv, RateTypeOK, RecentIsLast, InOrder
  <2>2. ASSUME NEW w \in Workers, Admits(w) PROVE RateInv'
    BY <2>2, AdmitsStep, RateAssumption
  <2>3. ASSUME NEW w \in Workers, Refuses(w) PROVE RateInv'
    BY <2>3, RefusesStep, RateAssumption
  <2>4. CASE Tick
    <3>1. clock \in Nat /\ clock' = clock + 1 BY <2>4 DEF Tick, RateInv, RateTypeOK
    <3>2. RateTypeOK' BY <2>4, <3>1 DEF Tick, RateInv, RateTypeOK
    <3>3. RecentIsLast' BY <2>4 DEF Tick, RateInv, RecentIsLast
    <3>4. InOrder'
      <4>1. \A w \in Workers : seen[w] \in Nat /\ seen[w] <= clock
        BY DEF RateInv, RateTypeOK, InOrder
      <4>2. \A w \in Workers : seen'[w] <= clock' BY <2>4, <3>1, <4>1 DEF Tick
      <4>3. \A i \in DOMAIN admitted : admitted[i].at <= clock'
        BY <3>1, Entries
      <4> QED BY <2>4, <4>2, <4>3 DEF Tick, RateInv, InOrder
    <3> QED BY <3>2, <3>3, <3>4 DEF RateInv
  <2>5. CASE UNCHANGED vars
    BY <2>5 DEF vars, RateInv, RateTypeOK, RecentIsLast, InOrder
  <2> QED BY <2>1, <2>2, <2>3, <2>4, <2>5 DEF Next
<1> QED BY <1>1, <1>2, PTL DEF Spec

\* A call is refused only when the limit was used up within a window before
\* its reading of the clock.
THEOREM NobodyWhoPausedIsRefused == Spec => RefusedOnlyWhenBusy
<1> DEFINE Busy(w) ==
        /\ Len(admitted) >= MaxCalls
        /\ \A i \in Len(admitted) - MaxCalls + 1..Len(admitted) :
               admitted[i].at > seen[w] - Window
<1>1. ASSUME RateInv, NEW w \in Workers, Refuses(w) PROVE Busy(w)
  <2>1. PICK k \in 0..Len(recentCalls) :
            Drops(k, seen[w]) /\ Len(Kept(k)) >= MaxCalls
    BY <1>1 DEF Refuses
  <2>2. /\ MaxCalls \in Nat \ {0} /\ Window \in Nat
        /\ Len(recentCalls) \in Nat /\ Len(admitted) \in Nat
        /\ DOMAIN admitted = 1..Len(admitted) /\ seen[w] \in Nat
        /\ Len(recentCalls) <= MaxCalls /\ Len(recentCalls) <= Len(admitted)
        /\ recentCalls \in Seq(Nat)
        /\ admitted \in Seq([stamp : Nat, at : Nat])
    BY <1>1, RateAssumption DEF RateAssumption, RateInv, RateTypeOK, RecentIsLast
  <2>3. Len(Kept(k)) = Len(recentCalls) - k BY <1>1, KeptIsLast, RateAssumption
  <2>4. k = 0 /\ Len(recentCalls) = MaxCalls BY <2>1, <2>2, <2>3
  \* The oldest entry is within the window, so it was admitted within it, and
  \* whatever came after it too.
  <2> DEFINE oldest == Len(admitted) - MaxCalls + 1
  <2>5. oldest \in DOMAIN admitted BY <2>2, <2>4
  <2>6. seen[w] - admitted[oldest].stamp < Window
    <3>1. ~Expired(seen[w], recentCalls[1]) BY <2>1, <2>2, <2>4 DEF Drops
    <3>2. recentCalls[1] = admitted[oldest].stamp
      BY <1>1, <2>2, <2>4 DEF RateInv, RecentIsLast
    <3>3. admitted[oldest].stamp \in Nat BY <1>1, <2>5, Entries
    <3> HIDE DEF oldest
    <3> QED BY <2>2, <3>1, <3>2, <3>3 DEF Expired
  <2>7. ASSUME NEW i \in oldest..Len(admitted)
        PROVE  admitted[i].at > seen[w] - Window
    <3>1. i \in DOMAIN admitted /\ oldest <= i BY <2>2, <2>5
    <3>2. admitted[oldest].at <= admitted[i].at
      BY <1>1, <2>5, <3>1 DEF RateInv, InOrder
    <3>3. /\ admitted[oldest].stamp \in Nat /\ admitted[oldest].at \in Nat
          /\ admitted[oldest].stamp <= admitted[oldest].at
          /\ admitted[i].at \in Nat
      BY <1>1, <2>5, <3>1, Entries
    <3>4. seen[w] \in Nat /\ Window \in Nat BY <2>2
    <3> DEFINE stamp == admitted[oldest].stamp  first == admitted[oldest].at
               at == admitted[i].at  now == seen[w]
    <3>5. stamp \in Nat /\ first \in Nat /\ at \in Nat /\ now \in Nat
      BY <3>3, <3>4
    <3>6. now - stamp < Window /\ stamp <= first /\ first <= at
      BY <2>6, <3>2, <3>3
    <3> HIDE DEF stamp, first, at, now
    <3>7. at > now - Window BY <3>4, <3>5, <3>6
    <3> QED BY <3>7 DEF at, now
  <2> QED BY <2>2, <2>4, <2>7
<1>2. RateInv => [\A w \in Workers : Refuses(w) => Busy(w)]_vars
  BY <1>1
<1> QED BY <1>2, RateInvariance, PTL DEF RefusedOnlyWhenBusy
-----------------------------------------------------------------------------
(* How far the limit can be overrun.                                       *)

\* The sets that are counted are finite.
LEMMA FiniteCounts ==
    ASSUME RateAssumption, RateTypeOK, NEW t
    PROVE  /\ IsFiniteSet(Stale(t)) /\ Cardinality(Stale(t)) \in Nat
           /\ IsFiniteSet(Fresh(t)) /\ Cardinality(Fresh(t)) \in Nat
           /\ IsFiniteSet(Behind(t)) /\ Cardinality(Behind(t)) \in Nat
           /\ Cardinality(Behind(t)) <= Cardinality(Workers)
           /\ Cardinality(Workers) \in Nat
<1>1. PICK n \in Nat : n = Len(admitted) /\ DOMAIN admitted = 1..n BY DEF RateTypeOK
<1>2. IsFiniteSet(1..n) BY <1>1, FS_Interval
<1>3. Stale(t) \subseteq 1..n /\ Fresh(t) \subseteq 1..n BY <1>1 DEF Stale, Fresh
<1>4. Behind(t) \subseteq Workers BY DEF Behind, RateTypeOK
<1>5. IsFiniteSet(Workers) BY DEF RateAssumption
<1> QED BY <1>2, <1>3, <1>4, <1>5, FS_Subset, FS_CardinalityType

\* Nothing of before t is in the window that begins at t.
LEMMA AheadOfClock ==
    ASSUME RateInv, NEW t \in Nat, clock < t
    PROVE  Stale(t) = {} /\ Fresh(t) = {}
<1>1. \A i \in DOMAIN admitted :
          /\ admitted[i].stamp \in Nat /\ admitted[i].at \in Nat
          /\ admitted[i].stamp <= admitted[i].at /\ admitted[i].at <= clock
  BY Entries
<1>2. clock \in Nat BY DEF RateInv, RateTypeOK
<1>3. \A i \in DOMAIN admitted : ~(admitted[i].at >= t) BY <1>1, <1>2
<1>4. \A i \in DOMAIN admitted : ~(admitted[i].stamp >= t) BY <1>1, <1>2
<1> QED BY <1>3, <1>4 DEF Stale, Fresh

\* What the loop drops has a reading of before the window, if that lasts.
LEMMA DroppedIsOld ==
    ASSUME RateAssumption, RateInv, FreshCounted, NEW w \in Workers,
           NEW k \in 0..Len(recentCalls), Drops(k, seen[w]),
           NEW t \in 0..clock, clock < t + Window, NEW i \in Fresh(t)
    PROVE  i > Len(admitted) - (Len(recentCalls) - k)
<1>1. /\ clock \in Nat /\ Window \in Nat /\ seen[w] \in Nat /\ seen[w] <= clock
      /\ Len(recentCalls) \in Nat /\ Len(admitted) \in Nat /\ t \in Nat
      /\ DOMAIN admitted = 1..Len(admitted) /\ Len(recentCalls) <= Len(admitted)
  BY DEF RateAssumption, RateInv, RateTypeOK, InOrder, RecentIsLast
<1>2. i \in 1..Len(admitted) /\ admitted[i].stamp >= t BY <1>1 DEF Fresh
<1>3. i > Len(admitted) - Len(recentCalls) BY DEF FreshCounted
<1>4. SUFFICES ASSUME i <= Len(admitted) - (Len(recentCalls) - k) PROVE FALSE
  BY <1>1, <1>2
<1>5. PICK j : j = i - (Len(admitted) - Len(recentCalls)) OBVIOUS
<1>6. j \in 1..k /\ j \in 1..Len(recentCalls)
      /\ Len(admitted) - Len(recentCalls) + j = i
  BY <1>1, <1>2, <1>3, <1>4, <1>5
<1>7. recentCalls[j] = admitted[i].stamp BY <1>6 DEF RateInv, RecentIsLast
<1>8. seen[w] - admitted[i].stamp >= Window BY <1>6, <1>7 DEF Drops, Expired
<1>9. admitted[i].stamp \in Nat BY <1>1, <1>2, Entries
<1>10. PICK now \in Nat, stamp \in Nat, last \in Nat, from \in Nat, width \in Nat :
           /\ now = seen[w] /\ stamp = admitted[i].stamp /\ last = clock /\ from = t
           /\ width = Window
  BY <1>1, <1>9
<1>11. now - stamp >= width /\ stamp >= from /\ now <= last /\ last < from + width
  BY <1>1, <1>2, <1>8, <1>10
<1> HIDE <1>10
<1> QED BY ONLY <1>11, now \in Nat, stamp \in Nat, last \in Nat, from \in Nat, width \in Nat

\* An admission: a stale one takes its worker off those behind, a fresh one is
\* among the MaxCalls that recent_calls holds.
LEMMA OverrunAdmits ==
    ASSUME RateAssumption, OverrunInv, RateInv', NEW w \in Workers, Admits(w)
    PROVE  OncePerWorker' /\ FreshCounted'
<1> DEFINE new == [stamp |-> seen[w], at |-> clock]
<1>1. RateInv /\ OncePerWorker /\ FreshCounted BY DEF OverrunInv
<1>2. PICK k \in 0..Len(recentCalls) :
          /\ Drops(k, seen[w]) /\ Len(Kept(k)) < MaxCalls
          /\ Leaves(w, Append(Kept(k), seen[w]))
  BY DEF Admits
<1>3. Kept(k) \in Seq(Nat) /\ Len(Kept(k)) = Len(recentCalls) - k BY <1>1, KeptIsLast
<1>4. /\ recentCalls' = Append(Kept(k), seen[w]) /\ waiting' = waiting \ {w}
      /\ w \in waiting /\ seen' = [seen EXCEPT ![w] = 0] /\ clock' = clock
      /\ admitted' = Append(admitted, new)
  BY <1>2 DEF Leaves, Admits
<1>5. /\ clock \in Nat /\ Window \in Nat /\ seen[w] \in Nat /\ seen[w] <= clock
      /\ seen \in [Workers -> Nat] /\ waiting \subseteq Workers
      /\ Len(recentCalls) \in Nat /\ Len(recentCalls) <= Len(admitted)
      /\ admitted \in Seq([stamp : Nat, at : Nat]) /\ MaxCalls \in Nat
  BY <1>1 DEF RateAssumption, RateInv, RateTypeOK, InOrder, RecentIsLast
<1>6. PICK n \in Nat : n = Len(admitted) /\ DOMAIN admitted = 1..n BY <1>5
<1>7. new \in [stamp : Nat, at : Nat] /\ new.stamp = seen[w] /\ new.at = clock BY <1>5
<1>8. /\ Len(admitted') = n + 1 /\ DOMAIN admitted' = 1..(n + 1) /\ admitted'[n + 1] = new
      /\ \A i \in 1..n : admitted'[i] = admitted[i]
  <2> HIDE DEF new
  <2> QED BY <1>4, <1>5, <1>6, <1>7
<1> HIDE DEF new
<1>9. RateTypeOK /\ RateTypeOK' BY <1>1 DEF RateInv
<1>10. ASSUME NEW t \in 0..clock
       PROVE  Cardinality(Stale(t)') + Cardinality(Behind(t)') <= Cardinality(Workers)
  <2>1. t \in Nat /\ t <= clock BY <1>5
  <2>2. Behind(t)' = Behind(t) \ {w} BY <1>4, <1>5 DEF Behind
  <2>3. Stale(t)' = IF seen[w] < t THEN Stale(t) \cup {n + 1} ELSE Stale(t)
    <3>1. Stale(t)' = {i \in 1..(n + 1) : admitted'[i].stamp < t /\ admitted'[i].at >= t}
      BY <1>8 DEF Stale
    <3>2. Stale(t) = {i \in 1..n : admitted[i].stamp < t /\ admitted[i].at >= t}
      BY <1>6 DEF Stale
    <3>3. 1..(n + 1) = 1..n \cup {n + 1} OBVIOUS
    <3>4. (admitted'[n + 1].stamp < t /\ admitted'[n + 1].at >= t) <=> seen[w] < t
      BY <1>5, <1>7, <1>8, <2>1
    <3> QED BY <1>8, <3>1, <3>2, <3>3, <3>4
  <2>4. n + 1 \notin Stale(t) BY <1>6 DEF Stale
  <2>5. seen[w] < t <=> w \in Behind(t) BY <1>4 DEF Behind
  <2>6. PICK a \in Nat, b \in Nat, c \in Nat :
            /\ a = Cardinality(Stale(t)) /\ b = Cardinality(Behind(t))
            /\ c = Cardinality(Workers) /\ a + b <= c
    BY <1>1, <1>9, FiniteCounts DEF OncePerWorker
  <2>7. IsFiniteSet(Stale(t)) /\ IsFiniteSet(Behind(t)) BY <1>9, FiniteCounts
  <2>8. CASE seen[w] < t
    <3>1. Cardinality(Stale(t) \cup {n + 1}) = a + 1 BY <2>4, <2>6, <2>7, FS_AddElement
    <3>2. Cardinality(Behind(t) \ {w}) = b - 1
      BY <2>5, <2>6, <2>7, <2>8, FS_RemoveElement
    <3>3. (a + 1) + (b - 1) <= c BY <2>6
    <3> QED BY <2>2, <2>3, <2>6, <2>8, <3>1, <3>2, <3>3
  <2>9. CASE ~(seen[w] < t)
    <3>1. Cardinality(Behind(t) \ {w}) = b BY <2>5, <2>6, <2>7, <2>9, FS_RemoveElement
    <3> QED BY <2>2, <2>3, <2>6, <2>9, <3>1
  <2> QED BY <2>8, <2>9
<1>11. PICK r \in Nat : r = Len(recentCalls) - k /\ r < MaxCalls /\ r <= n
           /\ Len(recentCalls') = r + 1
  BY <1>2, <1>3, <1>4, <1>5, <1>6
<1>12. ASSUME NEW t \in 0..clock
       PROVE  /\ clock < t + Window => \A i \in Fresh(t)' : i > (n + 1) - (r + 1)
              /\ Cardinality(Fresh(t)') <= MaxCalls
  <2>1. t \in Nat /\ t <= clock BY <1>5
  <2>2. /\ Fresh(t)' = {i \in 1..(n + 1) : admitted'[i].stamp >= t
                                           /\ admitted'[i].at < t + Window}
        /\ Fresh(t) = {i \in 1..n : admitted[i].stamp >= t /\ admitted[i].at < t + Window}
    BY <1>6, <1>8 DEF Fresh
  <2>3. 1..(n + 1) = 1..n \cup {n + 1} OBVIOUS
  <2>4. CASE clock < t + Window
    <3>1. \A i \in Fresh(t) : i > n - r
      BY <1>1, <1>2, <1>6, <1>11, <2>4, DroppedIsOld
    <3>2. \A i \in Fresh(t)' : i \in Fresh(t) \/ i = n + 1 BY <1>8, <2>2, <2>3
    <3>3. n + 1 > n - r /\ (n + 1) - (r + 1) = n - r OBVIOUS
    <3>4. \A i \in Fresh(t)' : i > n - r BY <3>1, <3>2, <3>3
    <3>5. Fresh(t)' \subseteq (n - r + 1)..(n + 1) BY <2>2, <3>4
    <3>6. IsFiniteSet((n - r + 1)..(n + 1)) /\ Cardinality((n - r + 1)..(n + 1)) = r + 1
      <4>1. n - r + 1 \in Int /\ n + 1 \in Int /\ ~(n - r + 1 > n + 1)
            /\ (n + 1) - (n - r + 1) + 1 = r + 1
        BY <1>11
      <4> QED BY <4>1, FS_Interval
    <3>7. Cardinality(Fresh(t)') \in Nat /\ Cardinality(Fresh(t)') <= r + 1
      BY <3>5, <3>6, FS_Subset, FS_CardinalityType
    <3> QED BY <1>5, <1>11, <3>3, <3>4, <3>7
  <2>5. CASE ~(clock < t + Window)
    <3>1. ~(admitted'[n + 1].at < t + Window) BY <1>7, <1>8, <2>5
    <3>2. Fresh(t)' = Fresh(t) BY <1>8, <2>2, <2>3, <3>1
    <3> QED BY <1>1, <2>5, <3>2 DEF FreshCounted
  <2> QED BY <2>4, <2>5
<1> QED BY <1>4, <1>8, <1>10, <1>11, <1>12 DEF OncePerWorker, FreshCounted

\* A refusal drops expired entries, none of which is fresh.
LEMMA OverrunRefuses ==
    ASSUME RateAssumption, OverrunInv, NEW w \in Workers, Refuses(w)
    PROVE  OncePerWorker' /\ FreshCounted'
<1>1. RateInv /\ OncePerWorker /\ FreshCounted BY DEF OverrunInv
<1>2. PICK k \in 0..Len(recentCalls) : Drops(k, seen[w]) /\ Leaves(w, Kept(k))
  BY DEF Refuses
<1>3. Len(Kept(k)) = Len(recentCalls) - k BY <1>1, KeptIsLast
<1>4. /\ recentCalls' = Kept(k) /\ waiting' = waiting \ {w}
      /\ seen' = [seen EXCEPT ![w] = 0] /\ clock' = clock /\ admitted' = admitted
  BY <1>2 DEF Leaves, Refuses
<1>5. \A t : Stale(t)' = Stale(t) /\ Fresh(t)' = Fresh(t) BY <1>4 DEF Stale, Fresh
<1>6. ASSUME NEW t \in 0..clock
      PROVE  Cardinality(Stale(t)') + Cardinality(Behind(t)') <= Cardinality(Workers)
  <2>1. RateTypeOK BY <1>1 DEF RateInv
  <2>2. Behind(t)' \subseteq Behind(t) BY <1>4, <2>1 DEF Behind, RateTypeOK
  <2>3. PICK a \in Nat, b \in Nat, c \in Nat :
            /\ a = Cardinality(Stale(t)) /\ b = Cardinality(Behind(t))
            /\ c = Cardinality(Workers) /\ a + b <= c
    BY <1>1, <2>1, FiniteCounts DEF OncePerWorker
  <2>4. PICK d \in Nat : d = Cardinality(Behind(t)') /\ d <= b
    BY <2>1, <2>2, <2>3, FiniteCounts, FS_Subset, FS_CardinalityType
  <2>5. a + d <= c BY <2>3, <2>4
  <2> QED BY <1>5, <2>3, <2>4, <2>5
<1>7. \A t \in 0..clock : clock < t + Window =>
          \A i \in Fresh(t) : i > Len(admitted) - (Len(recentCalls) - k)
  BY <1>1, <1>2, DroppedIsOld
<1> QED BY <1>1, <1>3, <1>4, <1>5, <1>6, <1>7 DEF OncePerWorker, FreshCounted

\* A window that begins now holds nothing yet.
LEMMA OverrunTick ==
    ASSUME RateAssumption, OverrunInv, RateInv', Tick
    PROVE  OncePerWorker' /\ FreshCounted'
<1>1. RateInv /\ OncePerWorker /\ FreshCounted BY DEF OverrunInv
<1>2. /\ clock \in Nat /\ clock' = clock + 1
      /\ UNCHANGED <<recentCalls, waiting, seen, admitted>>
  BY <1>1 DEF Tick, RateInv, RateTypeOK
<1>3. \A t : Stale(t)' = Stale(t) /\ Fresh(t)' = Fresh(t) /\ Behind(t)' = Behind(t)
  BY <1>2 DEF Stale, Fresh, Behind
<1>4. /\ Window \in Nat /\ MaxCalls \in Nat /\ RateTypeOK
  BY <1>1 DEF RateAssumption, RateInv
<1>5. ASSUME NEW t \in 0..(clock + 1)
      PROVE  /\ Cardinality(Stale(t)) + Cardinality(Behind(t)) <= Cardinality(Workers)
             /\ clock + 1 < t + Window =>
                    \A i \in Fresh(t) : i > Len(admitted) - Len(recentCalls)
             /\ Cardinality(Fresh(t)) <= MaxCalls
  <2>1. t \in Nat BY <1>2
  <2>2. CASE t \in 0..clock
    <3>1. clock + 1 < t + Window => clock < t + Window BY <1>2, <1>4, <2>1
    <3> QED BY <1>1, <2>2, <3>1 DEF OncePerWorker, FreshCounted
  <2>3. CASE t = clock + 1
    <3>1. Stale(t) = {} /\ Fresh(t) = {} BY <1>1, <1>2, <2>1, <2>3, AheadOfClock
    <3>2. Cardinality({}) = 0 BY FS_EmptySet
    <3>3. /\ Cardinality(Behind(t)) \in Nat
          /\ Cardinality(Behind(t)) <= Cardinality(Workers)
      BY <1>4, FiniteCounts
    <3> QED BY <1>4, <3>1, <3>2, <3>3
  <2> QED BY <1>2, <2>2, <2>3
<1> QED BY <1>2, <1>3, <1>5 DEF OncePerWorker, FreshCounted

\* A reading taken now is behind no window that has begun.
LEMMA OverrunReads ==
    ASSUME RateAssumption, OverrunInv, NEW w \in Workers, ReadClock(w)
    PROVE  OncePerWorker' /\ FreshCounted'
<1>1. RateInv /\ OncePerWorker /\ FreshCounted BY DEF OverrunInv
<1>2. /\ w \notin waiting /\ waiting' = waiting \cup {w}
      /\ seen' = [seen EXCEPT ![w] = clock] /\ UNCHANGED <<clock, recentCalls, admitted>>
  BY DEF ReadClock
<1>3. \A t : Stale(t)' = Stale(t) /\ Fresh(t)' = Fresh(t) BY <1>2 DEF Stale, Fresh
<1>4. clock \in Nat /\ seen \in [Workers -> Nat] /\ waiting \subseteq Workers
  BY <1>1 DEF RateInv, RateTypeOK
<1>5. \A t \in 0..clock : Behind(t)' = Behind(t) BY <1>2, <1>4 DEF Behind
<1> QED BY <1>1, <1>2, <1>3, <1>5 DEF OncePerWorker, FreshCounted

\* The counts behind the overrun hold in every reachable state.
THEOREM OverrunInvariance == Spec => []OverrunInv
<1>1. Init => OncePerWorker /\ FreshCounted
  <2> SUFFICES ASSUME Init PROVE OncePerWorker /\ FreshCounted OBVIOUS
  <2>1. /\ \A t : Stale(t) = {} /\ Fresh(t) = {} /\ Behind(t) = {}
        /\ clock = 0
    BY DEF Init, Stale, Fresh, Behind
  <2>2. Cardinality({}) = 0 /\ Cardinality(Workers) \in Nat /\ MaxCalls \in Nat
    BY RateAssumption, FS_EmptySet, FS_CardinalityType DEF RateAssumption
  <2>3. PICK c \in Nat : c = Cardinality(Workers) BY <2>2
  <2>4. \A t : /\ Cardinality(Stale(t)) = 0 /\ Cardinality(Behind(t)) = 0
               /\ Cardinality(Fresh(t)) = 0
    BY <2>1, <2>2
  <2>5. 0 + 0 <= c /\ 0 <= MaxCalls BY <2>2
  <2>6. OncePerWorker BY <2>3, <2>4, <2>5 DEF OncePerWorker
  <2>7. FreshCounted BY <2>1, <2>4, <2>5 DEF FreshCounted
  <2> QED BY <2>6, <2>7
<1>2. RateInv' /\ OverrunInv /\ [Next]_vars => OncePerWorker' /\ FreshCounted'
  <2> SUFFICES ASSUME RateInv', OverrunInv, [Next]_vars
               PROVE  OncePerWorker' /\ FreshCounted'
    OBVIOUS
  <2>1. CASE UNCHANGED vars
    BY <2>1 DEF vars, OverrunInv, OncePerWorker, FreshCounted, Stale, Fresh, Behind
  <2>2. CASE Next
    BY <2>2, RateAssumption, OverrunAdmits, OverrunRefuses, OverrunTick, OverrunReads
    DEF Next
  <2> QED BY <2>1, <2>2
<1> QED BY <1>1, <1>2, RateInvariance, PTL DEF Spec, OverrunInv

\* No window of the clock sees more than MaxCalls admissions and one for every
\* worker: acquire_rate_limit_slot() reads the clock outside the mutex, and a
\* worker that is overtaken by the window adds one admission to it at most.
THEOREM OverrunIsBounded == Spec => []OverrunBounded
<1>1. ASSUME OverrunInv, NEW t \in 0..clock
      PROVE  Cardinality({i \in DOMAIN admitted : admitted[i].at \in t..t + Window - 1})
                 <= MaxCalls + Cardinality(Workers)
  <2> DEFINE S == {i \in DOMAIN admitted : admitted[i].at \in t..t + Window - 1}
  <2>1. RateInv /\ RateTypeOK BY <1>1 DEF OverrunInv, RateInv
  <2>2. clock \in Nat /\ t \in Nat /\ Window \in Nat /\ MaxCalls \in Nat
    BY <2>1, RateAssumption DEF RateAssumption, RateTypeOK
  <2>3. S \subseteq Stale(t) \cup Fresh(t)
    <3>1. ASSUME NEW i \in DOMAIN admitted, admitted[i].at \in t..t + Window - 1
          PROVE  i \in Stale(t) \/ i \in Fresh(t)
      <4>1. PICK at \in Nat, stamp \in Nat : at = admitted[i].at /\ stamp = admitted[i].stamp
        BY <2>1, Entries
      <4>2. at >= t /\ at < t + Window BY <2>2, <3>1, <4>1
      <4>3. stamp < t \/ stamp >= t BY <2>2
      <4> QED BY <4>1, <4>2, <4>3 DEF Stale, Fresh
    <3> QED BY <3>1
  <2>4. PICK a \in Nat, b \in Nat, c \in Nat, d \in Nat :
            /\ a = Cardinality(Stale(t)) /\ b = Cardinality(Fresh(t))
            /\ c = Cardinality(Workers) /\ d = Cardinality(Behind(t))
            /\ a + d <= c /\ b <= MaxCalls
    BY <1>1, <2>1, RateAssumption, FiniteCounts DEF OverrunInv, OncePerWorker, FreshCounted
  <2>5. IsFiniteSet(Stale(t)) /\ IsFiniteSet(Fresh(t))
    BY <2>1, RateAssumption, FiniteCounts
  <2>6. PICK e \in Nat, f \in Nat :
            /\ e = Cardinality(Stale(t) \cap Fresh(t)) /\ f = Cardinality(Stale(t) \cup Fresh(t))
            /\ f = a + b - e
    <3>1. /\ IsFiniteSet(Stale(t) \cup Fresh(t))
          /\ Cardinality(Stale(t) \cup Fresh(t)) =
                 Cardinality(Stale(t)) + Cardinality(Fresh(t)) - Cardinality(Stale(t) \cap Fresh(t))
      BY <2>5, FS_Union
    <3>2. IsFiniteSet(Stale(t) \cap Fresh(t))
      <4>1. Stale(t) \cap Fresh(t) \in SUBSET Stale(t) OBVIOUS
      <4> QED BY <2>5, <4>1, FS_Subset
    <3> QED BY <2>4, <3>1, <3>2, FS_CardinalityType
  <2> HIDE DEF S
  <2>7. PICK s \in Nat : s = Cardinality(S) /\ s <= f
    <3>1. PICK U : U = Stale(t) \cup Fresh(t) OBVIOUS
    <3>2. IsFiniteSet(U) /\ S \in SUBSET U BY <2>3, <2>5, <3>1, FS_Union
    <3>3. IsFiniteSet(S) /\ Cardinality(S) <= Cardinality(U) BY <3>2, FS_Subset
    <3>4. Cardinality(S) \in Nat BY <3>3, FS_CardinalityType
    <3> QED BY <2>6, <3>1, <3>3, <3>4
  <2>8. s <= MaxCalls + c BY <2>2, <2>4, <2>6, <2>7
  <2> QED BY <2>4, <2>7, <2>8 DEF S
<1>2. OverrunInv => OverrunBounded BY <1>1 DEF OverrunBounded
<1> QED BY <1>2, OverrunInvariance, PTL
=============================================================================
