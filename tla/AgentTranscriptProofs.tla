------------------------ MODULE AgentTranscriptProofs ------------------------
(***************************************************************************)
(* Proofs about the transcript of a run (AgentTranscript, AgentSession),   *)
(* for every set of actions, every offer of the provider and every limit:  *)
(* the parser accepts what run() returns, a call without evidence is told, *)
(* and so is a child that could not be reaped.                             *)
(*                                                                         *)
(* The argument goes from one add() (Added, Grown) over the lists of       *)
(* events that run() records to the steps of the run, each of which keeps  *)
(* TranscriptInv given SessionInv (AgentSessionProofs).                    *)
(***************************************************************************)
EXTENDS AgentSessionProofs, FiniteSetTheorems

-----------------------------------------------------------------------------
(* Induction over the naturals, on a set rather than on a predicate.       *)

\* A set that holds 0 and every successor of its members holds every natural.
LEMMA NatSet ==
    ASSUME NEW S, 0 \in S, \A n \in Nat : n \in S => n + 1 \in S
    PROVE  Nat \subseteq S
<1> DEFINE T == Nat \ S
           R == {ss \in Nat \X Nat : ss[1] < ss[2]}
<1> SUFFICES ASSUME T # {} PROVE FALSE OBVIOUS
<1>1. IsWellFoundedOn(R, Nat) BY NatLessThanWellFounded DEF OpToRel
<1>2. \E x \in T : \A y \in T : <<y, x>> \notin R
  <2> HIDE DEF R
  <2> QED BY <1>1, WFMin
<1>3. PICK x \in T : \A y \in T : <<y, x>> \notin R BY <1>2
<1>4. x \in Nat /\ x # 0 /\ x - 1 \in Nat /\ x - 1 < x BY <1>3
<1>5. <<x - 1, x>> \in R BY <1>4
<1>6. x - 1 \in S BY <1>3, <1>4, <1>5
<1>7. (x - 1) + 1 \in S BY <1>4, <1>6
<1>8. (x - 1) + 1 = x BY <1>4
<1> QED BY <1>3, <1>7, <1>8

\* Up to a bound.
LEMMA NatSetTo ==
    ASSUME NEW N \in Nat, NEW S, 0 \in S, \A n \in 1..N : n - 1 \in S => n \in S
    PROVE  \A n \in 0..N : n \in S
<1> DEFINE T == {n \in Nat : n <= N => n \in S}
<1>1. 0 \in T OBVIOUS
<1>2. \A n \in Nat : n \in T => n + 1 \in T
  <2> TAKE n \in Nat
  <2> HAVE n \in T
  <2> SUFFICES ASSUME n + 1 <= N PROVE n + 1 \in S OBVIOUS
  <2>1. n \in S /\ n + 1 \in 1..N /\ (n + 1) - 1 = n OBVIOUS
  <2> QED BY <2>1
<1>3. Nat \subseteq T BY <1>1, <1>2, NatSet
<1> QED BY <1>3

-----------------------------------------------------------------------------
(* The two recursive definitions of AgentTranscript.                       *)

\* The transcripts between the adds of AddAll.
LEMMA AddTrace ==
    ASSUME NEW t, NEW events, Len(events) \in Nat
    PROVE  \E h : /\ h[0] = t
                  /\ \A n \in 1..Len(events) : h[n] = Add(h[n - 1], events[n])
                  /\ AddAll(t, events) = h[Len(events)]
<1> DEFINE N == Len(events)
           Def(g, m) == [n \in 0..m |-> IF n = 0 THEN {t}
                                        ELSE {Add(u, events[n]) : u \in g[n - 1]}]
           after == CHOOSE g : g = Def(g, N)
           S == {m \in Nat : \E g : g = Def(g, m)}
<1>1. 0 \in S
  <2> DEFINE g == [n \in 0..0 |-> {t}]
  <2>1. g = Def(g, 0) OBVIOUS
  <2> QED BY <2>1
<1>2. \A m \in Nat : m \in S => m + 1 \in S
  <2> TAKE m \in Nat
  <2> HAVE m \in S
  <2>1. PICK g : g = Def(g, m) OBVIOUS
  <2> DEFINE h == [n \in 0..(m + 1) |->
                      IF n = m + 1 THEN {Add(u, events[m + 1]) : u \in g[m]} ELSE g[n]]
  <2>2. ASSUME NEW n \in 0..(m + 1)
        PROVE  h[n] = IF n = 0 THEN {t} ELSE {Add(u, events[n]) : u \in h[n - 1]}
    <3>1. CASE n = m + 1
      <4>1. h[n] = {Add(u, events[m + 1]) : u \in g[m]} BY <3>1
      <4>2. h[n - 1] = g[m] /\ n # 0 BY <3>1
      <4> QED BY <3>1, <4>1, <4>2
    <3>2. CASE n # m + 1
      <4>1. n \in 0..m /\ h[n] = g[n] BY <3>2
      <4>2. g[n] = Def(g, m)[n] BY <2>1
      <4>3. g[n] = IF n = 0 THEN {t} ELSE {Add(u, events[n]) : u \in g[n - 1]}
        BY <4>1, <4>2
      <4>4. n # 0 => h[n - 1] = g[n - 1] BY <4>1
      <4> HIDE DEF h
      <4> QED BY <4>1, <4>3, <4>4
    <3> QED BY <3>1, <3>2
  <2>3. h = Def(h, m + 1) BY <2>2
  <2>4. m + 1 \in Nat OBVIOUS
  <2> HIDE DEF h, Def
  <2> QED BY <2>3, <2>4
<1> HIDE DEF S
<1>3. Nat \subseteq S BY <1>1, <1>2, NatSet
<1>4. after = Def(after, N) BY <1>3 DEF S
<1>5. AddAll(t, events) = CHOOSE u \in after[N] : TRUE BY DEF AddAll
<1> HIDE DEF after
<1> DEFINE h == [n \in 0..N |-> CHOOSE u \in after[n] : TRUE]
           T == {n \in 0..N : after[n] = {h[n]}}
<1>6. after[0] = {t} /\ \A n \in 1..N : after[n] = {Add(u, events[n]) : u \in after[n - 1]}
  <2>1. \A n \in 0..N : after[n] = Def(after, N)[n] BY <1>4
  <2>2. after[0] = {t}
    <3>1. 0 \in 0..N OBVIOUS
    <3>2. Def(after, N)[0] = {t} BY <3>1
    <3> HIDE DEF Def
    <3> QED BY <2>1, <3>1, <3>2
  <2>3. ASSUME NEW n \in 1..N PROVE after[n] = {Add(u, events[n]) : u \in after[n - 1]}
    <3>1. n \in 0..N /\ n # 0 OBVIOUS
    <3>2. Def(after, N)[n] = {Add(u, events[n]) : u \in after[n - 1]} BY <3>1
    <3>3. after[n] = Def(after, N)[n] BY <2>1, <3>1
    <3> HIDE DEF Def
    <3> QED BY <3>2, <3>3
  <2> QED BY <2>2, <2>3
<1>7. \A n \in 0..N : \A v : after[n] = {v} => h[n] = v OBVIOUS
<1>8. h[0] = t BY <1>6, <1>7
<1>9. h[N] = AddAll(t, events) BY <1>5
<1> HIDE DEF h
<1>10. 0 \in T BY <1>6, <1>8
<1>11. \A n \in 1..N : n - 1 \in T => n \in T /\ h[n] = Add(h[n - 1], events[n])
  <2> TAKE n \in 1..N
  <2> HAVE n - 1 \in T
  <2>1. after[n - 1] = {h[n - 1]} /\ n \in 0..N OBVIOUS
  <2>2. after[n] = {Add(u, events[n]) : u \in after[n - 1]} BY <1>6
  <2>3. after[n] = {Add(h[n - 1], events[n])} BY <2>1, <2>2
  <2>4. h[n] = Add(h[n - 1], events[n]) BY <1>7, <2>1, <2>3
  <2> QED BY <2>1, <2>3, <2>4
<1>12. \A n \in 0..N : n \in T
  <2> HIDE DEF T
  <2> QED BY <1>10, <1>11, NatSetTo
<1>13. \A n \in 1..N : h[n] = Add(h[n - 1], events[n]) BY <1>11, <1>12
<1> QED BY <1>8, <1>9, <1>13

\* A sequence as a function, whatever its elements are.
LEMMA AppendIs ==
    ASSUME NEW s, NEW e, NEW N \in Nat, s = [i \in 1..N |-> s[i]]
    PROVE  /\ Len(s) = N /\ Len(Append(s, e)) = N + 1
           /\ Append(s, e) = [i \in 1..(N + 1) |-> IF i = N + 1 THEN e ELSE s[i]]
<1> DEFINE V == {s[i] : i \in 1..N} \cup {e}
           r == Append(s, e)
<1>1. s \in [1..N -> V]
  <2>1. \A i \in 1..N : s[i] \in V OBVIOUS
  <2> HIDE DEF V
  <2> QED BY <2>1
<1>2. s \in Seq(V) /\ Len(s) = N
  <2> HIDE DEF V
  <2> QED BY <1>1
<1>3. /\ Len(r) = N + 1 /\ r[N + 1] = e /\ r \in Seq(V)
      /\ \A i \in 1..N : r[i] = s[i]
  <2>1. e \in V OBVIOUS
  <2> HIDE DEF V
  <2> QED BY <1>2, <2>1
<1> HIDE DEF r, V
<1>4. r = [i \in 1..(N + 1) |-> r[i]] BY <1>3
<1>5. \A i \in 1..(N + 1) : r[i] = IF i = N + 1 THEN e ELSE s[i] BY <1>3
<1>6. r = [i \in 1..(N + 1) |-> IF i = N + 1 THEN e ELSE s[i]] BY <1>4, <1>5
<1> QED BY <1>2, <1>3, <1>6 DEF r

\* The sizes of the events are added up one by one.
LEMMA BytesTrace ==
    ASSUME NEW s, Len(s) \in Nat
    PROVE  \E f : /\ f[0] = 0
                  /\ \A n \in 1..Len(s) : f[n] = f[n - 1] + Size(s[n])
                  /\ TranscriptBytes(s) = f[Len(s)]
<1> DEFINE N == Len(s)
           Def(g, m) == [n \in 0..m |-> IF n = 0 THEN 0 ELSE g[n - 1] + Size(s[n])]
           bytes == CHOOSE g : g = Def(g, N)
           S == {m \in Nat : \E g : g = Def(g, m)}
<1>1. 0 \in S
  <2> DEFINE g == [n \in 0..0 |-> 0]
  <2>1. g = Def(g, 0) OBVIOUS
  <2> QED BY <2>1
<1>2. \A m \in Nat : m \in S => m + 1 \in S
  <2> TAKE m \in Nat
  <2> HAVE m \in S
  <2>1. PICK g : g = Def(g, m) OBVIOUS
  <2> DEFINE h == [n \in 0..(m + 1) |->
                      IF n = m + 1 THEN g[m] + Size(s[m + 1]) ELSE g[n]]
  <2>2. ASSUME NEW n \in 0..(m + 1)
        PROVE  h[n] = IF n = 0 THEN 0 ELSE h[n - 1] + Size(s[n])
    <3>1. CASE n = m + 1
      <4>1. h[n] = g[m] + Size(s[m + 1]) /\ h[n - 1] = g[m] /\ n # 0 BY <3>1
      <4> HIDE DEF h
      <4> QED BY <3>1, <4>1
    <3>2. CASE n # m + 1
      <4>1. n \in 0..m /\ h[n] = g[n] BY <3>2
      <4>2. g[n] = Def(g, m)[n] BY <2>1
      <4>3. g[n] = IF n = 0 THEN 0 ELSE g[n - 1] + Size(s[n]) BY <4>1, <4>2
      <4>4. n # 0 => h[n - 1] = g[n - 1] BY <4>1
      <4> HIDE DEF h
      <4> QED BY <4>1, <4>3, <4>4
    <3> QED BY <3>1, <3>2
  <2>3. h = Def(h, m + 1) BY <2>2
  <2>4. m + 1 \in Nat OBVIOUS
  <2> HIDE DEF h, Def
  <2> QED BY <2>3, <2>4
<1> HIDE DEF S
<1>3. Nat \subseteq S BY <1>1, <1>2, NatSet
<1>4. bytes = Def(bytes, N) BY <1>3 DEF S
<1>5. TranscriptBytes(s) = bytes[N] BY DEF TranscriptBytes
<1> HIDE DEF bytes
<1>6. \A n \in 0..N : bytes[n] = Def(bytes, N)[n] BY <1>4
<1>7. bytes[0] = 0
  <2>1. 0 \in 0..N OBVIOUS
  <2>2. Def(bytes, N)[0] = 0 BY <2>1
  <2> HIDE DEF Def
  <2> QED BY <1>6, <2>1, <2>2
<1>8. ASSUME NEW n \in 1..N PROVE bytes[n] = bytes[n - 1] + Size(s[n])
  <2>1. n \in 0..N /\ n # 0 OBVIOUS
  <2>2. Def(bytes, N)[n] = bytes[n - 1] + Size(s[n]) BY <2>1
  <2>3. bytes[n] = Def(bytes, N)[n] BY <1>6, <2>1
  <2> HIDE DEF Def
  <2> QED BY <2>2, <2>3
<1> QED BY <1>5, <1>7, <1>8

\* One more event costs its own size.
LEMMA BytesAppend ==
    ASSUME NEW s, NEW e, NEW N \in Nat, s = [i \in 1..N |-> s[i]]
    PROVE  TranscriptBytes(Append(s, e)) = TranscriptBytes(s) + Size(e)
<1> DEFINE r == Append(s, e)
<1>1. /\ Len(s) = N /\ Len(r) = N + 1
      /\ r = [i \in 1..(N + 1) |-> IF i = N + 1 THEN e ELSE s[i]]
  BY AppendIs
<1> HIDE DEF r
<1>2. PICK f : /\ f[0] = 0 /\ \A n \in 1..N : f[n] = f[n - 1] + Size(s[n])
               /\ TranscriptBytes(s) = f[N]
  BY <1>1, BytesTrace
<1>3. PICK g : /\ g[0] = 0 /\ \A n \in 1..(N + 1) : g[n] = g[n - 1] + Size(r[n])
               /\ TranscriptBytes(r) = g[N + 1]
  <2>1. Len(r) \in Nat BY <1>1
  <2> QED BY <1>1, <2>1, BytesTrace
<1> DEFINE T == {n \in Nat : n <= N => f[n] = g[n]}
<1>4. 0 \in T BY <1>2, <1>3
<1>5. ASSUME NEW n \in 1..N, n - 1 \in T PROVE n \in T
  <2>1. f[n - 1] = g[n - 1] /\ n \in 1..(N + 1) /\ r[n] = s[n] BY <1>1, <1>5
  <2>2. f[n] = f[n - 1] + Size(s[n]) /\ g[n] = g[n - 1] + Size(r[n])
    BY <1>2, <1>3, <2>1
  <2> QED BY <2>1, <2>2
<1>6. \A n \in 0..N : n \in T
  <2> HIDE DEF T
  <2> QED BY <1>4, <1>5, NatSetTo
<1>7. f[N] = g[N] /\ r[N + 1] = e BY <1>1, <1>6
<1>8. g[N + 1] = g[(N + 1) - 1] + Size(r[N + 1])
  <2>1. N + 1 \in 1..(N + 1) OBVIOUS
  <2> QED BY <1>3, <2>1
<1>9. (N + 1) - 1 = N OBVIOUS
<1>10. g[N + 1] = f[N] + Size(e) BY <1>7, <1>8, <1>9
<1> QED BY <1>2, <1>3, <1>10 DEF r

\* An empty transcript costs nothing.
LEMMA BytesEmpty == TranscriptBytes(<<>>) = 0
<1>1. Len(<<>>) = 0 OBVIOUS
<1> QED BY <1>1, BytesTrace

-----------------------------------------------------------------------------
(* The schema of the events.                                               *)

\* The table, read: what run() records is closed.
LEMMA SchemaOf ==
    ASSUME NEW name, NEW meta,
           \/ /\ DOMAIN meta = {}
              /\ name \in {"process_start", "initialize_request", "initialized_notification",
                           "tools_list_request", "deadline", "cancelled", "shutdown_start",
                           "shutdown_terminate", "shutdown_kill", "shutdown_complete",
                           "shutdown_unreaped", "transcript_limit"}
           \/ DOMAIN meta = {"response"} /\ name \in {"initialize_response", "tools_list_response"}
           \/ DOMAIN meta = {"surface"} /\ name = "surface_captured"
           \/ /\ DOMAIN meta = {"turn", "bytes"}
              /\ name \in {"provider_turn_start", "provider_turn_response"}
           \/ /\ DOMAIN meta = {"proposal"}
              /\ name \in {"proposal_rejected", "proposal_duplicate", "skipped"}
           \/ /\ DOMAIN meta = {"action", "response"}
              /\ name \in {"mcp_request", "mcp_response", "evidence_validated"}
           \/ DOMAIN meta = {"action", "proposal"} /\ name = "authorized"
           \/ DOMAIN meta = {"failure"} /\ name = "failure"
           \/ DOMAIN meta = {"outcome"} /\ name = "outcome"
    PROVE  SchemaHolds(Event(name, meta))
BY DEF SchemaHolds, Schema, Event

\* A closed event has finitely many fields.
LEMMA SizeIsNat ==
    ASSUME NEW e, SchemaHolds(e)
    PROVE  Size(e) \in Nat
<1>1. IsFiniteSet(DOMAIN e.meta)
  <2>1. \A a, b : IsFiniteSet({a}) /\ IsFiniteSet({a, b})
    <3> TAKE a, b
    <3>1. IsFiniteSet({}) /\ IsFiniteSet({a}) BY FS_EmptySet, FS_Singleton
    <3>2. IsFiniteSet({a} \cup {b}) BY <3>1, FS_AddElement
    <3>3. {a, b} = {a} \cup {b} OBVIOUS
    <3> QED BY <3>1, <3>2, <3>3
  <2>2. ASSUME NEW row \in Schema PROVE IsFiniteSet(row.fields)
    <3>1. /\ IsFiniteSet({}) /\ IsFiniteSet({"response"}) /\ IsFiniteSet({"surface"})
          /\ IsFiniteSet({"turn", "bytes"}) /\ IsFiniteSet({"proposal"})
          /\ IsFiniteSet({"action", "response"}) /\ IsFiniteSet({"action", "proposal"})
          /\ IsFiniteSet({"failure"}) /\ IsFiniteSet({"failure", "action"})
          /\ IsFiniteSet({"outcome"})
      BY <2>1, FS_EmptySet
    <3>2. \/ row.fields = {} \/ row.fields = {"response"} \/ row.fields = {"surface"}
          \/ row.fields = {"turn", "bytes"} \/ row.fields = {"proposal"}
          \/ row.fields = {"action", "response"} \/ row.fields = {"action", "proposal"}
          \/ row.fields = {"failure"} \/ row.fields = {"failure", "action"}
          \/ row.fields = {"outcome"}
      BY DEF Schema
    <3> QED BY <3>1, <3>2, Zenon
  <2>3. IsFiniteSet({"failure"}) BY <2>1
  <2> QED BY <2>2, <2>3 DEF SchemaHolds
<1>2. Cardinality(DOMAIN e.meta) \in Nat BY <1>1, FS_CardinalityType
<1> QED BY <1>2 DEF Size

-----------------------------------------------------------------------------
(* One add.                                                                *)

\* Events that cite what was recorded before them.
Citing == {"authorized", "mcp_request", "mcp_response", "evidence_validated"}

\* An event of another kind cites nothing.
LEMMA ProvenanceFree ==
    ASSUME NEW s, NEW i, s[i].event \notin Citing
    PROVE  Provenance(s, i)
BY DEF Provenance, Citing

\* What an event may cite is not changed by what is recorded later.
LEMMA ProvenanceKept ==
    ASSUME NEW s, NEW r, NEW N \in Nat, NEW i \in 1..N, \A j \in 1..N : r[j] = s[j],
           Provenance(s, i)
    PROVE  Provenance(r, i)
<1>1. r[i] = s[i] OBVIOUS
<1>2. \A j \in 1..i - 1 : r[j] = s[j] OBVIOUS
<1>3. \A name : Earlier(r, i, name) = Earlier(s, i, name) BY <1>2 DEF Earlier
<1>4. \A name : \A j \in Earlier(s, i, name) : r[j] = s[j] BY <1>2 DEF Earlier
<1> QED BY <1>1, <1>3, <1>4 DEF Provenance

\* An event more, and room kept or the transcript cut.
LEMMA SoundAppend ==
    ASSUME NEW t, Sound(t), ~t.limited, NEW x, SchemaHolds(x),
           NEW u, u = [events |-> Append(t.events, x), limited |-> u.limited,
                       raised |-> t.raised, count |-> t.count, bytes |-> t.bytes],
           u.limited \in BOOLEAN, u.limited <=> x = Terminal,
           ~u.limited => HasRoom(t, u.events),
           Provenance(u.events, Len(t.events) + 1)
    PROVE  Sound(u)
<1> DEFINE s == t.events
           r == u.events
<1>0. PICK N \in Nat : N = Len(s) BY DEF Sound
<1>1. s = [i \in 1..N |-> s[i]] BY <1>0 DEF Sound
<1>2. /\ r = Append(s, x) /\ u.raised = t.raised /\ u.count = t.count
      /\ u.bytes = t.bytes
  OBVIOUS
<1>3. /\ Len(r) = N + 1
      /\ r = [i \in 1..(N + 1) |-> IF i = N + 1 THEN x ELSE s[i]]
      /\ TranscriptBytes(r) = TranscriptBytes(s) + Size(x)
  BY <1>1, <1>2, AppendIs, BytesAppend
<1>4. DOMAIN s = 1..N BY <1>1
<1>5. /\ t.raised \in BOOLEAN /\ t.count \in Nat /\ t.bytes \in Nat
      /\ TranscriptBytes(s) \in Nat /\ N < t.count
      /\ TranscriptBytes(s) + Size(Terminal) <= t.bytes
      /\ \A i \in 1..N : SchemaHolds(s[i]) /\ Provenance(s, i)
      /\ {i \in 1..N : s[i] = Terminal} = {}
  BY <1>0, <1>4 DEF Sound, ParseBoundedTranscript
<1>6. Size(x) \in Nat /\ Size(Terminal) \in Nat
  <2>1. SchemaHolds(Terminal) BY SchemaOf DEF Terminal, Plain
  <2> QED BY <2>1, SizeIsNat
<1>7. Provenance(r, N + 1) BY <1>0
<1> HIDE DEF s, r
<1>8. /\ DOMAIN r = 1..(N + 1) /\ r[N + 1] = x /\ \A i \in 1..N : r[i] = s[i]
      /\ r = [i \in 1..(N + 1) |-> r[i]]
  BY <1>3
<1>9. \A i \in 1..(N + 1) : SchemaHolds(r[i]) /\ Provenance(r, i)
  <2>1. \A i \in 1..N : SchemaHolds(r[i]) BY <1>5, <1>8
  <2>2. \A i \in 1..N : Provenance(r, i) BY <1>5, <1>8, ProvenanceKept
  <2>3. SchemaHolds(r[N + 1]) BY <1>8
  <2>4. \A i \in 1..(N + 1) : i \in 1..N \/ i = N + 1 OBVIOUS
  <2> QED BY <1>7, <2>1, <2>2, <2>3, <2>4, Zenon
<1>10. {i \in 1..(N + 1) : r[i] = Terminal} = IF u.limited THEN {N + 1} ELSE {}
  <2>1. \A i \in 1..N : r[i] # Terminal BY <1>5, <1>8
  <2>2. \A i \in 1..(N + 1) : i \in 1..N \/ i = N + 1 OBVIOUS
  <2>3. N + 1 \in 1..(N + 1) OBVIOUS
  <2>4. CASE u.limited
    <3>1. r[N + 1] = Terminal BY <1>8, <2>4
    <3>2. {i \in 1..(N + 1) : r[i] = Terminal} = {N + 1}
      BY <2>1, <2>2, <2>3, <3>1, Zenon
    <3> QED BY <2>4, <3>2
  <2>5. CASE ~u.limited
    <3>1. r[N + 1] # Terminal BY <1>8, <2>5
    <3>2. {i \in 1..(N + 1) : r[i] = Terminal} = {} BY <2>1, <2>2, <3>1, Zenon
    <3> QED BY <2>5, <3>2
  <2> QED BY <2>4, <2>5
<1>11. /\ N + 1 <= t.count /\ TranscriptBytes(r) <= t.bytes
       /\ ~u.limited => /\ N + 1 < t.count
                        /\ TranscriptBytes(r) + Size(Terminal) <= t.bytes
  <2>1. CASE u.limited BY <1>3, <1>5, <1>6, <2>1
  <2>2. CASE ~u.limited
    <3>1. Len(r) < t.count /\ TranscriptBytes(Append(r, Terminal)) <= t.bytes
      BY <2>2 DEF HasRoom, r
    <3>2. TranscriptBytes(Append(r, Terminal)) = TranscriptBytes(r) + Size(Terminal)
      BY <1>8, BytesAppend
    <3>3. TranscriptBytes(r) \in Nat BY <1>3, <1>5, <1>6
    <3> QED BY <1>3, <1>5, <1>6, <2>2, <3>1, <3>2, <3>3
  <2> QED BY <2>1, <2>2
<1>12. ParseBoundedTranscript(u)
  BY <1>2, <1>3, <1>8, <1>9, <1>10, <1>11 DEF ParseBoundedTranscript, r
<1>13. TranscriptBytes(r) \in Nat /\ N + 1 \in Nat BY <1>3, <1>5, <1>6
<1> QED
  BY <1>2, <1>3, <1>5, <1>8, <1>11, <1>12, <1>13 DEF Sound, r

\* Redaction keeps an event's name and its fields.
LEMMA RedactedIs ==
    ASSUME NEW name, NEW meta
    PROVE  \E m : /\ Redacted(Event(name, meta)) = Event(name, m)
                  /\ DOMAIN m = DOMAIN meta /\ m = [k \in DOMAIN meta |-> m[k]]
                  /\ "failure" \notin DOMAIN meta => \A k \in DOMAIN meta : m[k] = meta[k]
<1> DEFINE m == [k \in DOMAIN meta |->
                    IF k = "failure" /\ meta[k] \in Suspicious THEN "redacted" ELSE meta[k]]
<1>1. Redacted(Event(name, meta)) = Event(name, m) BY DEF Redacted, Event
<1>2. DOMAIN m = DOMAIN meta /\ m = [k \in DOMAIN meta |-> m[k]] OBVIOUS
<1>3. "failure" \notin DOMAIN meta => \A k \in DOMAIN meta : m[k] = meta[k] OBVIOUS
<1> HIDE DEF m
<1> QED BY <1>1, <1>2, <1>3

\* Whether an add() raised says nothing of what is recorded.
LEMMA SoundRaised ==
    ASSUME NEW t, Sound(t), NEW b \in BOOLEAN
    PROVE  /\ Sound([t EXCEPT !.raised = b])
           /\ [t EXCEPT !.raised = b].events = t.events
           /\ [t EXCEPT !.raised = b].limited = t.limited
           /\ [t EXCEPT !.raised = b].raised = b
<1> DEFINE u == [t EXCEPT !.raised = b]
<1>1. t = [events |-> t.events, limited |-> t.limited, raised |-> t.raised,
           count |-> t.count, bytes |-> t.bytes]
  BY DEF Sound
<1>2. /\ u = [events |-> t.events, limited |-> t.limited, raised |-> b,
              count |-> t.count, bytes |-> t.bytes]
  BY <1>1
<1> HIDE DEF u
<1>3. /\ u.events = t.events /\ u.limited = t.limited /\ u.raised = b
      /\ u.count = t.count /\ u.bytes = t.bytes
  BY <1>2
<1>4. ParseBoundedTranscript(u) BY <1>3 DEF Sound, ParseBoundedTranscript
<1>5. Sound(u) BY <1>2, <1>3, <1>4 DEF Sound
<1> QED BY <1>3, <1>5 DEF u

\* The event e may be the next one.
Recordable(t, e) ==
    /\ e = Event(e.event, e.meta) /\ e.event # "transcript_limit"
    /\ ~t.limited /\ ~t.raised /\ ~Refused(e) =>
           Provenance(Append(t.events, Redacted(e)), Len(t.events) + 1)

\* What add(e) makes of t: what was recorded stays, at its place; what is new
\* is the event or the cut.
Added(t, e, u) ==
    /\ Sound(u) /\ Len(t.events) <= Len(u.events)
    /\ \A i \in 1..Len(t.events) : u.events[i] = t.events[i]
    /\ \A i \in 1..Len(u.events) : \/ i \in 1..Len(t.events)
                                   \/ u.events[i] \in {Redacted(e), Terminal}
    /\ t.limited => u.limited
    /\ ~Refused(e) /\ ~t.raised =>
           /\ ~u.raised
           /\ ~u.limited => \E i \in 1..Len(u.events) : u.events[i] = Redacted(e)

\* add() leaves the transcript, records the event or cuts the transcript, and
\* the transcript stays sound when the event may be recorded.
LEMMA AddEffect ==
    ASSUME NEW t, Sound(t), NEW e, Recordable(t, e)
    PROVE  /\ Sound(Add(t, e))
           /\ \/ Add(t, e) = t /\ (t.raised \/ t.limited)
              \/ Add(t, e) = [t EXCEPT !.raised = TRUE] /\ Refused(e) /\ ~t.limited
              \/ /\ Add(t, e) = [t EXCEPT !.events = Append(t.events, Redacted(e))]
                 /\ ~t.limited
              \/ /\ Add(t, e) = [t EXCEPT !.events = Append(t.events, Terminal),
                                          !.limited = TRUE]
                 /\ ~t.limited
<1> DEFINE x == Redacted(e)
           candidate == Append(t.events, x)
<1>1. PICK m : x = Event(e.event, m) /\ DOMAIN m = DOMAIN e.meta
  <2>1. e = Event(e.event, e.meta) BY DEF Recordable
  <2>2. \E m : Redacted(Event(e.event, e.meta)) = Event(e.event, m) /\ DOMAIN m = DOMAIN e.meta
    BY RedactedIs
  <2> QED BY <2>1, <2>2
<1>2. x.event = e.event /\ DOMAIN x.meta = DOMAIN e.meta
  BY <1>1 DEF Event
<1>3. x # Terminal BY <1>2 DEF Terminal, Plain, Event, Recordable
<1>4. SchemaHolds(e) => SchemaHolds(x) BY <1>2 DEF SchemaHolds
<1>5. SchemaHolds(Terminal) BY SchemaOf DEF Terminal, Plain
<1> HIDE DEF x
<1>6. CASE t.raised \/ t.limited
  <2>1. Add(t, e) = t BY <1>6 DEF Add
  <2> QED BY <1>6, <2>1
<1>7. CASE ~(t.raised \/ t.limited) /\ Refused(e)
  <2>1. Add(t, e) = [t EXCEPT !.raised = TRUE] BY <1>7 DEF Add
  <2>2. Sound([t EXCEPT !.raised = TRUE]) BY SoundRaised
  <2> QED BY <1>7, <2>1, <2>2
<1>8. CASE ~(t.raised \/ t.limited) /\ ~Refused(e) /\ HasRoom(t, candidate)
  <2> DEFINE u == [t EXCEPT !.events = candidate]
  <2>1. Add(t, e) = u BY <1>8 DEF Add, x
  <2>2. /\ u = [events |-> Append(t.events, x), limited |-> u.limited,
                raised |-> t.raised, count |-> t.count, bytes |-> t.bytes]
        /\ u.events = candidate /\ u.limited = FALSE
    BY <1>8 DEF Sound
  <2>3. SchemaHolds(x) BY <1>4, <1>8 DEF Refused
  <2>4. Provenance(candidate, Len(t.events) + 1) BY <1>8 DEF x, Recordable
  <2> HIDE DEF u
  <2>5. Sound(u) BY <1>3, <1>8, <2>2, <2>3, <2>4, SoundAppend
  <2> QED BY <1>8, <2>1, <2>5 DEF u, x
<1>9. CASE ~(t.raised \/ t.limited) /\ ~Refused(e) /\ ~HasRoom(t, candidate)
  <2> DEFINE u == [t EXCEPT !.events = Append(t.events, Terminal), !.limited = TRUE]
  <2>1. Add(t, e) = u BY <1>9 DEF Add, x
  <2>2. /\ u = [events |-> Append(t.events, Terminal), limited |-> u.limited,
                raised |-> t.raised, count |-> t.count, bytes |-> t.bytes]
        /\ u.limited = TRUE /\ u.events = Append(t.events, Terminal)
    <3>1. t = [events |-> t.events, limited |-> t.limited, raised |-> t.raised,
               count |-> t.count, bytes |-> t.bytes]
      BY DEF Sound
    <3>2. u = [events |-> Append(t.events, Terminal), limited |-> TRUE,
               raised |-> t.raised, count |-> t.count, bytes |-> t.bytes]
      <4>1. DOMAIN t = {"events", "limited", "raised", "count", "bytes"} BY <3>1
      <4>2. /\ DOMAIN u = DOMAIN t /\ u = [k \in DOMAIN t |-> u[k]]
            /\ u["events"] = Append(t.events, Terminal) /\ u["limited"] = TRUE
            /\ u["raised"] = t.raised /\ u["count"] = t.count /\ u["bytes"] = t.bytes
        BY <4>1
      <4> HIDE DEF u
      <4> QED BY <4>1, <4>2
    <3> HIDE DEF u
    <3> QED BY <3>2
  <2>3. Provenance(u.events, Len(t.events) + 1)
    <3>1. Len(t.events) \in Nat /\ t.events = [i \in 1..Len(t.events) |-> t.events[i]]
      BY DEF Sound
    <3>2. u.events[Len(t.events) + 1] = Terminal BY <2>2, <3>1, AppendIs
    <3>3. Terminal.event \notin Citing BY DEF Terminal, Plain, Event, Citing
    <3> HIDE DEF u
    <3> QED BY <3>2, <3>3, ProvenanceFree
  <2> HIDE DEF u
  <2>4. Sound(u) BY <1>5, <1>9, <2>2, <2>3, SoundAppend
  <2> QED BY <1>9, <2>1, <2>4 DEF u
<1> QED BY <1>6, <1>7, <1>8, <1>9

\* What add() does, in the terms the steps of the run need.
LEMMA AddKeeps ==
    ASSUME NEW t, Sound(t), NEW e, Recordable(t, e)
    PROVE  Added(t, e, Add(t, e))
<1> DEFINE u == Add(t, e)
<1> SUFFICES Added(t, e, u) OBVIOUS
<1>1. PICK N \in Nat : N = Len(t.events) /\ t.events = [i \in 1..N |-> t.events[i]]
  BY DEF Sound
<1>2. /\ t.limited \in BOOLEAN /\ t.raised \in BOOLEAN
      /\ t = [events |-> t.events, limited |-> t.limited, raised |-> t.raised,
              count |-> t.count, bytes |-> t.bytes]
  BY DEF Sound
<1>3. /\ Sound(u)
      /\ \/ u = t /\ (t.raised \/ t.limited)
         \/ u = [t EXCEPT !.raised = TRUE] /\ Refused(e) /\ ~t.limited
         \/ u = [t EXCEPT !.events = Append(t.events, Redacted(e))] /\ ~t.limited
         \/ /\ u = [t EXCEPT !.events = Append(t.events, Terminal), !.limited = TRUE]
            /\ ~t.limited
  BY AddEffect
<1> HIDE DEF u
<1>4. \A x : LET r == Append(t.events, x) IN
             /\ Len(r) = N + 1 /\ r[N + 1] = x /\ \A i \in 1..N : r[i] = t.events[i]
  <2> TAKE x
  <2> DEFINE r == Append(t.events, x)
  <2>1. Len(r) = N + 1 /\ r = [i \in 1..(N + 1) |-> IF i = N + 1 THEN x ELSE t.events[i]]
    BY <1>1, AppendIs
  <2> HIDE DEF r
  <2>2. r[N + 1] = x /\ \A i \in 1..N : r[i] = t.events[i] BY <2>1
  <2> QED BY <2>1, <2>2 DEF r
<1>5. \A i \in 1..(N + 1) : i \in 1..N \/ i = N + 1 OBVIOUS
<1>6. CASE u = t /\ (t.raised \/ t.limited) BY <1>1, <1>2, <1>3, <1>6 DEF Added
<1>7. CASE u = [t EXCEPT !.raised = TRUE] /\ Refused(e) /\ ~t.limited
  <2>1. u.events = t.events BY <1>2, <1>7, SoundRaised
  <2> QED BY <1>1, <1>3, <1>7, <2>1 DEF Added
<1>8. ASSUME NEW x, u.events = Append(t.events, x), x \in {Redacted(e), Terminal},
             ~t.limited, u.raised = t.raised, u.limited \/ x = Redacted(e)
      PROVE  Added(t, e, u)
  <2>1. /\ Len(u.events) = N + 1 /\ u.events[N + 1] = x
        /\ \A i \in 1..N : u.events[i] = t.events[i]
    BY <1>4, <1>8
  <2>2. N <= N + 1 /\ N + 1 \in 1..(N + 1) OBVIOUS
  <2> QED BY <1>1, <1>3, <1>5, <1>8, <2>1, <2>2 DEF Added
<1>9. CASE u = [t EXCEPT !.events = Append(t.events, Redacted(e))] /\ ~t.limited
  <2>1. /\ u.events = Append(t.events, Redacted(e)) /\ u.raised = t.raised
        /\ u.limited = t.limited
    BY <1>2, <1>9
  <2> QED BY <1>3, <1>8, <1>9, <2>1
<1>10. CASE /\ u = [t EXCEPT !.events = Append(t.events, Terminal), !.limited = TRUE]
            /\ ~t.limited
  <2>1. DOMAIN t = {"events", "limited", "raised", "count", "bytes"} BY <1>2
  <2>2. u.events = Append(t.events, Terminal) /\ u.raised = t.raised /\ u.limited = TRUE
    BY <1>10, <2>1
  <2> QED BY <1>3, <1>8, <1>10, <2>2
<1> QED BY <1>3, <1>6, <1>7, <1>9, <1>10

-----------------------------------------------------------------------------
(* Adds of events that cite nothing.                                       *)

Uncited(e) == e = Event(e.event, e.meta) /\ e.event \notin Citing \cup {"transcript_limit"}

\* u is t with some more events, none of which cites an action.
Grown(t, u) ==
    /\ Sound(u) /\ Len(t.events) <= Len(u.events)
    /\ \A i \in 1..Len(t.events) : u.events[i] = t.events[i]
    /\ \A i \in 1..Len(u.events) : i \in 1..Len(t.events) \/ u.events[i].event \notin Citing
    /\ t.limited => u.limited

\* Growth may be none at all.
LEMMA GrownSame == ASSUME NEW t, Sound(t) PROVE Grown(t, t)
BY DEF Grown, Sound

\* Growth adds up.
LEMMA GrownOn ==
    ASSUME NEW t, NEW u, NEW v, Sound(t), Grown(t, u), Grown(u, v)
    PROVE  Grown(t, v)
<1>1. Len(t.events) \in Nat /\ Len(u.events) \in Nat /\ Len(v.events) \in Nat
  BY DEF Grown, Sound
<1>2. 1..Len(t.events) \subseteq 1..Len(u.events) /\ Len(t.events) <= Len(v.events)
  BY <1>1 DEF Grown
<1>3. \A i \in 1..Len(t.events) : v.events[i] = t.events[i] BY <1>2 DEF Grown
<1>4. \A i \in 1..Len(v.events) : i \in 1..Len(t.events) \/ v.events[i].event \notin Citing
  BY DEF Grown
<1> QED BY <1>2, <1>3, <1>4 DEF Grown

\* Clearing the mark of a raise changes nothing that is recorded.
LEMMA GrownReset ==
    ASSUME NEW t, NEW u, Grown(t, u)
    PROVE  Grown(t, [u EXCEPT !.raised = FALSE]) /\ ~[u EXCEPT !.raised = FALSE].raised
<1>1. Sound(u) BY DEF Grown
<1> QED BY <1>1, SoundRaised DEF Grown

\* What was recorded, or cut, stays so while the transcript grows.
LEMMA RecordsKept ==
    ASSUME NEW t, NEW u, NEW name, Sound(t), Grown(t, u),
           t.limited \/ Records(t, name)
    PROVE  u.limited \/ Records(u, name)
<1>1. /\ Len(t.events) \in Nat /\ Len(u.events) \in Nat
      /\ DOMAIN t.events = 1..Len(t.events) /\ DOMAIN u.events = 1..Len(u.events)
  BY DEF Grown, Sound
<1>2. 1..Len(t.events) \subseteq 1..Len(u.events) BY <1>1 DEF Grown
<1> QED BY <1>1, <1>2 DEF Grown, Records

\* add() of an event that cites nothing.
LEMMA AddUncited ==
    ASSUME NEW t, Sound(t), NEW e, Uncited(e)
    PROVE  /\ Grown(t, Add(t, e))
           /\ ~Refused(e) /\ ~t.raised =>
                 /\ ~Add(t, e).raised
                 /\ Add(t, e).limited \/ Records(Add(t, e), e.event)
<1> DEFINE u == Add(t, e)
<1>1. PICK m : Redacted(e) = Event(e.event, m)
  <2>1. e = Event(e.event, e.meta) BY DEF Uncited
  <2>2. \E m : Redacted(Event(e.event, e.meta)) = Event(e.event, m) BY RedactedIs
  <2> QED BY <2>1, <2>2
<1>2. Redacted(e).event = e.event /\ Terminal.event \notin Citing
  BY <1>1 DEF Event, Terminal, Plain, Citing
<1>3. PICK N \in Nat : N = Len(t.events) /\ t.events = [i \in 1..N |-> t.events[i]]
  BY DEF Sound
<1> DEFINE r == Append(t.events, Redacted(e))
<1>4. r[Len(t.events) + 1] = Redacted(e) BY <1>3, AppendIs
<1> HIDE DEF r
<1>5. Provenance(r, Len(t.events) + 1)
  <2>1. r[Len(t.events) + 1].event \notin Citing BY <1>2, <1>4 DEF Uncited
  <2> QED BY <2>1, ProvenanceFree
<1>6. Added(t, e, u)
  <2>1. Recordable(t, e) BY <1>5 DEF Recordable, Uncited, r
  <2> QED BY <2>1, AddKeeps
<1> HIDE DEF u
<1>7. Grown(t, u) BY <1>2, <1>6 DEF Grown, Uncited, Added
<1>8. DOMAIN u.events = 1..Len(u.events) BY <1>6 DEF Sound, Added
<1>9. ~Refused(e) /\ ~t.raised => ~u.raised /\ (u.limited \/ Records(u, e.event))
  BY <1>2, <1>6, <1>8 DEF Records, Added
<1> QED BY <1>7, <1>9 DEF u

\* Several adds; an event is recorded when none up to it is refused.
LEMMA AddAllUncited ==
    ASSUME NEW t, Sound(t), NEW events, Len(events) \in Nat,
           \A i \in 1..Len(events) : Uncited(events[i])
    PROVE  /\ Grown(t, AddAll(t, events))
           /\ ~t.raised /\ (\A i \in 1..Len(events) : ~Refused(events[i])) =>
                 ~AddAll(t, events).raised
           /\ ~t.raised =>
                 \A i \in 1..Len(events) :
                     \/ \E j \in 1..i : Refused(events[j])
                     \/ AddAll(t, events).limited
                     \/ Records(AddAll(t, events), events[i].event)
<1>1. PICK h : /\ h[0] = t
               /\ \A n \in 1..Len(events) : h[n] = Add(h[n - 1], events[n])
               /\ AddAll(t, events) = h[Len(events)]
  BY AddTrace
<1>2. PICK N \in Nat : N = Len(events) OBVIOUS
<1> DEFINE S == {n \in 0..N : Sound(h[n]) /\ Grown(t, h[n])}
<1>3. 0 \in S BY <1>1, GrownSame
<1>4. ASSUME NEW n \in 1..N, n - 1 \in S PROVE n \in S /\ Grown(h[n - 1], h[n])
  <2>1. Sound(h[n - 1]) /\ Grown(t, h[n - 1]) BY <1>4
  <2>2. h[n] = Add(h[n - 1], events[n]) /\ Uncited(events[n]) BY <1>1, <1>2
  <2>3. Grown(h[n - 1], h[n]) BY <2>1, <2>2, AddUncited
  <2>4. Grown(t, h[n]) BY <2>1, <2>3, GrownOn
  <2>5. Sound(h[n]) BY <2>3 DEF Grown
  <2>6. n \in 0..N OBVIOUS
  <2> QED BY <2>3, <2>4, <2>5, <2>6
<1>5. \A n \in 0..N : n \in S
  <2> HIDE DEF S
  <2> QED BY <1>3, <1>4, NatSetTo
<1>6. Grown(t, AddAll(t, events))
  <2>1. N \in 0..N OBVIOUS
  <2> QED BY <1>1, <1>2, <1>5, <2>1
<1> DEFINE Unrefused(i) == \A j \in 1..i : ~Refused(events[j])
           T == {n \in 0..N : /\ Unrefused(n) => ~h[n].raised
                              /\ \A i \in 1..n : Unrefused(i) =>
                                     h[n].limited \/ Records(h[n], events[i].event)}
<1>7. ASSUME ~t.raised PROVE N \in T
  <2>1. 0 \in T BY <1>1, <1>7
  <2>2. ASSUME NEW n \in 1..N, n - 1 \in T PROVE n \in T
    <3>1. n - 1 \in 0..N /\ n \in 0..N /\ \A i \in 1..n : i \in 1..n - 1 \/ i = n OBVIOUS
    <3>2. /\ Sound(h[n - 1]) /\ h[n] = Add(h[n - 1], events[n]) /\ Uncited(events[n])
          /\ Grown(h[n - 1], h[n])
      BY <1>1, <1>2, <1>4, <1>5, <3>1
    <3>3. Unrefused(n) => ~h[n].raised /\ (h[n].limited \/ Records(h[n], events[n].event))
      <4> HAVE Unrefused(n)
      <4>1. Unrefused(n - 1) /\ ~Refused(events[n]) OBVIOUS
      <4>2. ~h[n - 1].raised BY <2>2, <4>1
      <4> QED BY <3>2, <4>1, <4>2, AddUncited
    <3>4. \A i \in 1..n - 1 : Unrefused(i) => h[n].limited \/ Records(h[n], events[i].event)
      <4> TAKE i \in 1..n - 1
      <4> HAVE Unrefused(i)
      <4>1. h[n - 1].limited \/ Records(h[n - 1], events[i].event) BY <2>2
      <4> QED BY <3>2, <4>1, RecordsKept
    <3> HIDE DEF Unrefused
    <3> QED BY <3>1, <3>3, <3>4
  <2>3. \A n \in 0..N : n \in T
    <3> HIDE DEF T
    <3> QED BY <2>1, <2>2, NatSetTo
  <2>4. N \in 0..N OBVIOUS
  <2> HIDE DEF T
  <2> QED BY <2>3, <2>4
<1> QED BY <1>1, <1>2, <1>6, <1>7

\* A single add, written as a list.
LEMMA AddOne ==
    ASSUME NEW t, Sound(t), ~t.raised, NEW e, Uncited(e), ~Refused(e)
    PROVE  /\ Grown(t, AddAll(t, <<e>>)) /\ ~AddAll(t, <<e>>).raised
           /\ AddAll(t, <<e>>).limited \/ Records(AddAll(t, <<e>>), e.event)
<1> DEFINE events == <<e>>
<1>1. Len(events) = 1 /\ events[1] = e /\ 1 \in 1..1 /\ \A i \in 1..1 : i = 1 OBVIOUS
<1> HIDE DEF events
<1>2. \A i \in 1..Len(events) : Uncited(events[i]) /\ ~Refused(events[i]) BY <1>1
<1>3. Len(events) \in Nat BY <1>1
<1>4. /\ Grown(t, AddAll(t, events)) /\ ~AddAll(t, events).raised
      /\ \A i \in 1..Len(events) :
             \/ \E j \in 1..i : Refused(events[j])
             \/ AddAll(t, events).limited
             \/ Records(AddAll(t, events), events[i].event)
  BY <1>2, <1>3, AddAllUncited
<1> QED BY <1>1, <1>2, <1>4 DEF events

-----------------------------------------------------------------------------
(* The events run() records.                                               *)

\* Events without metadata are never refused.
LEMMA PlainEvents ==
    ASSUME NEW name \in {"process_start", "initialize_request", "initialized_notification",
                         "tools_list_request", "deadline", "cancelled", "shutdown_start",
                         "shutdown_terminate", "shutdown_kill", "shutdown_complete",
                         "shutdown_unreaped"}
    PROVE  Uncited(Plain(name)) /\ ~Refused(Plain(name)) /\ Plain(name).event = name
<1>1. SchemaHolds(Plain(name)) BY SchemaOf DEF Plain
<1>2. Uncited(Plain(name)) BY DEF Uncited, Plain, Event, Citing
<1>3. "proposal" \notin DOMAIN Plain(name).meta BY DEF Plain, Event
<1> QED BY <1>1, <1>2, <1>3 DEF Refused, Plain, Event

\* A failure is never refused, whatever its class.
LEMMA FailureEvent ==
    ASSUME NEW class
    PROVE  /\ Uncited(Failure(class)) /\ ~Refused(Failure(class))
           /\ Failure(class).event = "failure"
<1>1. SchemaHolds(Failure(class)) BY SchemaOf DEF Failure
<1>2. Uncited(Failure(class)) BY DEF Uncited, Failure, Event, Citing
<1>3. "proposal" \notin DOMAIN Failure(class).meta BY DEF Failure, Event
<1> QED BY <1>1, <1>2, <1>3 DEF Refused, Failure, Event

\* An event about a proposal cites no action (its id may be too long).
LEMMA ProposalEvent ==
    ASSUME NEW name \in {"proposal_rejected", "proposal_duplicate", "skipped"}, NEW c
    PROVE  Uncited(Event(name, [proposal |-> c]))
BY DEF Uncited, Event, Citing

\* The other events of a run are never refused.
LEMMA OtherEvents ==
    /\ \A n : LET e == Event("initialize_response", [response |-> n])
              IN  Uncited(e) /\ ~Refused(e)
    /\ \A n : LET e == Event("tools_list_response", [response |-> n])
              IN  Uncited(e) /\ ~Refused(e)
    /\ LET e == Event("surface_captured", [surface |-> "surface"])
       IN  Uncited(e) /\ ~Refused(e)
    /\ \A name \in {"provider_turn_start", "provider_turn_response"} :
           Uncited(TurnEvent(name)) /\ ~Refused(TurnEvent(name))
    /\ \A o : LET e == Event("outcome", [outcome |-> o])
              IN  Uncited(e) /\ ~Refused(e)
<1>1. \A name, meta :
          /\ name \notin Citing \cup {"transcript_limit"} => Uncited(Event(name, meta))
          /\ SchemaHolds(Event(name, meta)) /\ "proposal" \notin DOMAIN meta =>
                 ~Refused(Event(name, meta))
  BY DEF Uncited, Refused, Event
<1>2. \A n : LET m == [response |-> n] IN
             /\ DOMAIN m = {"response"}
             /\ SchemaHolds(Event("initialize_response", m))
             /\ SchemaHolds(Event("tools_list_response", m))
  <2> TAKE n
  <2> DEFINE m == [response |-> n]
  <2>1. DOMAIN m = {"response"} OBVIOUS
  <2> HIDE DEF m
  <2>2. SchemaHolds(Event("initialize_response", m)) BY <2>1, SchemaOf
  <2>3. SchemaHolds(Event("tools_list_response", m)) BY <2>1, SchemaOf
  <2> QED BY <2>1, <2>2, <2>3 DEF m
<1>3. LET m == [surface |-> "surface"] IN
      DOMAIN m = {"surface"} /\ SchemaHolds(Event("surface_captured", m))
  BY SchemaOf
<1>4. \A name \in {"provider_turn_start", "provider_turn_response"} :
      LET m == [turn |-> turn, bytes |-> 0] IN
      DOMAIN m = {"turn", "bytes"} /\ SchemaHolds(Event(name, m))
  <2> TAKE name \in {"provider_turn_start", "provider_turn_response"}
  <2> DEFINE m == [turn |-> turn, bytes |-> 0]
  <2>1. DOMAIN m = {"turn", "bytes"} OBVIOUS
  <2> HIDE DEF m
  <2>2. SchemaHolds(Event(name, m)) BY <2>1, SchemaOf
  <2> QED BY <2>1, <2>2 DEF m
<1>5. \A o : LET m == [outcome |-> o] IN
             DOMAIN m = {"outcome"} /\ SchemaHolds(Event("outcome", m))
  <2> TAKE o
  <2> DEFINE m == [outcome |-> o]
  <2>1. DOMAIN m = {"outcome"} OBVIOUS
  <2> HIDE DEF m
  <2>2. SchemaHolds(Event("outcome", m)) BY <2>1, SchemaOf
  <2> QED BY <2>1, <2>2 DEF m
<1> QED BY <1>1, <1>2, <1>3, <1>4, <1>5 DEF TurnEvent, Citing

-----------------------------------------------------------------------------
(* The ends of run() add events that cite nothing.                         *)

\* _outcome() up to its close().
LEMMA ReturnGrows ==
    ASSUME NEW t, NEW o, Sound(t), ~t.raised, Return(t, o)
    PROVE  Grown(t, transcript') /\ ~transcript'.raised
<1>1. transcript' = AddAll(t, <<Plain("shutdown_start")>>) BY DEF Return
<1>2. Uncited(Plain("shutdown_start")) /\ ~Refused(Plain("shutdown_start"))
  BY PlainEvents
<1> QED BY <1>1, <1>2, AddOne

\* The handler of run() for what a step raised.
LEMMA OuterGrows ==
    ASSUME NEW t, NEW class, Sound(t), ~t.raised, Outer(t, class)
    PROVE  Grown(t, transcript') /\ ~transcript'.raised
<1>1. ASSUME NEW e, Uncited(e), ~Refused(e), NEW o, Return(AddAll(t, <<e>>), o)
      PROVE  Grown(t, transcript') /\ ~transcript'.raised
  <2>1. Grown(t, AddAll(t, <<e>>)) /\ ~AddAll(t, <<e>>).raised BY <1>1, AddOne
  <2>2. Sound(AddAll(t, <<e>>)) BY <2>1 DEF Grown
  <2>3. Grown(AddAll(t, <<e>>), transcript') /\ ~transcript'.raised
    BY <1>1, <2>1, <2>2, ReturnGrows
  <2> QED BY <2>1, <2>3, GrownOn
<1>2. /\ Uncited(Plain("cancelled")) /\ ~Refused(Plain("cancelled"))
      /\ Uncited(Plain("deadline")) /\ ~Refused(Plain("deadline"))
      /\ Uncited(Failure(class)) /\ ~Refused(Failure(class))
  BY PlainEvents, FailureEvent
<1>3. \/ Return(AddAll(t, <<Plain("cancelled")>>), "cancelled")
      \/ Return(AddAll(t, <<Plain("deadline")>>), "deadline")
      \/ Return(AddAll(t, <<Failure(class)>>), "failed")
  BY Zenon DEF Outer
<1> QED BY <1>1, <1>2, <1>3

\* The same when an event on the way may have been refused.
LEMMA ReturnCheckedGrows ==
    ASSUME NEW t, NEW u, NEW o, Sound(t), Grown(t, u), ReturnChecked(u, o)
    PROVE  Grown(t, transcript') /\ ~transcript'.raised
<1>1. CASE u.raised
  <2> DEFINE v == [u EXCEPT !.raised = FALSE]
  <2>1. Grown(t, v) /\ ~v.raised BY GrownReset
  <2>2. Outer(v, "local_validation_failure") BY <1>1 DEF ReturnChecked
  <2> HIDE DEF v
  <2>3. Sound(v) BY <2>1 DEF Grown
  <2>4. Grown(v, transcript') /\ ~transcript'.raised BY <2>1, <2>2, <2>3, OuterGrows
  <2> QED BY <2>1, <2>4, GrownOn
<1>2. CASE ~u.raised
  <2>1. Return(u, o) /\ Sound(u) BY <1>2 DEF ReturnChecked, Grown
  <2>2. Grown(u, transcript') /\ ~transcript'.raised BY <1>2, <2>1, ReturnGrows
  <2> QED BY <2>2, GrownOn
<1> QED BY <1>1, <1>2

\* An outcome that a refused event replaces is a failure.
LEMMA CheckedOutcome ==
    ASSUME NEW t, NEW o, ReturnChecked(t, o)
    PROVE  outcome' \in {o, "failed"}
BY DEF ReturnChecked, Outer, Return

\* A call that fails is recorded as a failure before anything can be refused.
LEMMA InnerReports ==
    ASSUME NEW class, Sound(transcript), ~transcript.raised, batch \in Seq(Proposals),
           batch # <<>>, Inner(class)
    PROVE  /\ Grown(transcript, transcript') /\ ~transcript'.raised
           /\ outcome' \in {"failed", "cancelled"}
           /\ transcript'.limited \/ Records(transcript', "failure")
<1> DEFINE rest == SkippedAll(Tail(batch))
           events == <<Failure(class)>> \o rest
           u == AddAll(transcript, events)
<1>1. PICK n \in Nat : Len(Tail(batch)) = n /\ DOMAIN Tail(batch) = 1..n OBVIOUS
<1>2. rest = [i \in 1..n |-> Skipped(Tail(batch)[i])] BY <1>1 DEF SkippedAll
<1>3. /\ Len(events) = n + 1 /\ events[1] = Failure(class)
      /\ \A i \in 2..(n + 1) : events[i] = Skipped(Tail(batch)[i - 1])
  <2> DEFINE X == {Failure(class)} \cup {rest[i] : i \in 1..n}
  <2>1. rest \in Seq(X) /\ Len(rest) = n
    <3>1. \A i \in 1..n : rest[i] \in X OBVIOUS
    <3> HIDE DEF X, rest
    <3>2. rest \in [1..n -> X] BY <1>2, <3>1
    <3> QED BY <3>2
  <2>2. <<Failure(class)>> \in Seq(X) /\ Len(<<Failure(class)>>) = 1 OBVIOUS
  <2>3. \A i \in 1..n : rest[i] = Skipped(Tail(batch)[i]) BY <1>2
  <2> HIDE DEF rest, X
  <2>4. Len(events) = n + 1 /\ events[1] = Failure(class) BY <2>1, <2>2
  <2>5. ASSUME NEW i \in 2..(n + 1) PROVE events[i] = Skipped(Tail(batch)[i - 1])
    <3>1. events[i] = rest[i - 1] BY <2>1, <2>2
    <3>2. i - 1 \in 1..n OBVIOUS
    <3> QED BY <2>3, <3>1, <3>2
  <2> QED BY <2>4, <2>5
<1>4. ReturnChecked(u, IF class = "cancelled" THEN "cancelled" ELSE "failed")
  BY DEF Inner
<1> HIDE DEF events
<1>5. \A i \in 1..Len(events) : Uncited(events[i])
  <2>1. \A i \in 1..(n + 1) : i = 1 \/ i \in 2..(n + 1) OBVIOUS
  <2>2. \A p : Uncited(Skipped(p)) BY ProposalEvent DEF Skipped
  <2> QED BY <1>3, <2>1, <2>2, FailureEvent
<1>6. 1 \in 1..Len(events) /\ Len(events) \in Nat BY <1>3
<1>7. ~Refused(events[1]) /\ events[1].event = "failure" BY <1>3, FailureEvent
<1>8. /\ Grown(transcript, u)
      /\ \A i \in 1..Len(events) : \/ \E j \in 1..i : Refused(events[j])
                                   \/ u.limited \/ Records(u, events[i].event)
  BY <1>5, <1>6, AddAllUncited
<1>9. u.limited \/ Records(u, "failure")
  <2>1. \A j \in 1..1 : j = 1 OBVIOUS
  <2> HIDE DEF u
  <2> QED BY <1>6, <1>7, <1>8, <2>1
<1> HIDE DEF u
<1>10. Grown(transcript, transcript') /\ ~transcript'.raised
  BY <1>4, <1>8, ReturnCheckedGrows
<1>11. outcome' \in {"failed", "cancelled"} BY <1>4, CheckedOutcome
<1>12. Sound(u) BY <1>8 DEF Grown
<1>13. Grown(u, transcript') BY <1>4, <1>12, GrownSame, ReturnCheckedGrows
<1> QED BY <1>9, <1>10, <1>11, <1>12, <1>13, RecordsKept

-----------------------------------------------------------------------------
(* Events that cite an action.                                             *)

\* Redaction changes failure classes only.
LEMMA RedactedSame ==
    ASSUME NEW name, NEW meta, meta = [k \in DOMAIN meta |-> meta[k]],
           "failure" \notin DOMAIN meta
    PROVE  Redacted(Event(name, meta)) = Event(name, meta)
<1>1. PICK m : /\ Redacted(Event(name, meta)) = Event(name, m)
               /\ DOMAIN m = DOMAIN meta /\ m = [k \in DOMAIN meta |-> m[k]]
               /\ "failure" \notin DOMAIN meta => \A k \in DOMAIN meta : m[k] = meta[k]
  BY RedactedIs
<1>2. m = meta BY <1>1
<1> QED BY <1>1, <1>2

\* What a next event may cite, in terms of the N events before it.
MayCite(s, N, x) ==
    \/ /\ x.event = "authorized"
       /\ \A j \in 1..N : s[j].event = "authorized" => s[j].meta.action # x.meta.action
    \/ /\ x.event = "mcp_request"
       /\ \E j \in 1..N : s[j].event = "authorized" /\ s[j].meta.action = x.meta.action
       /\ \A j \in 1..N : s[j].event = "mcp_request" =>
                              /\ s[j].meta.action # x.meta.action
                              /\ s[j].meta.response # x.meta.response
    \/ /\ x.event = "mcp_response"
       /\ \E j \in 1..N : s[j].event = "mcp_request" /\ s[j].meta = x.meta
       /\ \A j \in 1..N : s[j].event = "mcp_response" => s[j].meta # x.meta
    \/ /\ x.event = "evidence_validated"
       /\ \E j \in 1..N : s[j].event = "mcp_response" /\ s[j].meta = x.meta
       /\ \A j \in 1..N : s[j].event = "evidence_validated" => s[j].meta # x.meta

\* An event that may cite what it cites can be appended.
LEMMA ProvenanceNew ==
    ASSUME NEW s, NEW N \in Nat, s = [i \in 1..N |-> s[i]], NEW x, MayCite(s, N, x)
    PROVE  Provenance(Append(s, x), N + 1)
<1> DEFINE r == Append(s, x)
<1>1. r = [i \in 1..(N + 1) |-> IF i = N + 1 THEN x ELSE s[i]] BY AppendIs
<1> HIDE DEF r
<1>2. r[N + 1] = x /\ \A j \in 1..N : r[j] = s[j] BY <1>1
<1>3. (N + 1) - 1 = N OBVIOUS
<1>4. \A name : \A j : j \in Earlier(r, N + 1, name) <=> j \in 1..N /\ s[j].event = name
  BY <1>2, <1>3 DEF Earlier
<1>5. \A name : \A j \in Earlier(r, N + 1, name) : r[j] = s[j] BY <1>2, <1>4
<1>6. CASE x.event = "authorized"
  <2>1. \A j \in 1..N : s[j].event = "authorized" => s[j].meta.action # x.meta.action
    BY <1>6 DEF MayCite
  <2>2. ~\E j \in Earlier(r, N + 1, "authorized") : r[j].meta.action = x.meta.action
    BY <1>4, <1>5, <2>1
  <2> QED BY <1>2, <1>6, <2>2 DEF Provenance, r
<1>7. CASE x.event = "mcp_request"
  <2>1. /\ \E j \in 1..N : s[j].event = "authorized" /\ s[j].meta.action = x.meta.action
        /\ \A j \in 1..N : s[j].event = "mcp_request" =>
                               /\ s[j].meta.action # x.meta.action
                               /\ s[j].meta.response # x.meta.response
    BY <1>7 DEF MayCite
  <2>2. \E j \in Earlier(r, N + 1, "authorized") : r[j].meta.action = x.meta.action
    BY <1>4, <1>5, <2>1
  <2>3. ~\E j \in Earlier(r, N + 1, "mcp_request") : r[j].meta.action = x.meta.action
    BY <1>4, <1>5, <2>1
  <2>4. \A j \in Earlier(r, N + 1, "mcp_request") : r[j].meta.response # x.meta.response
    BY <1>4, <1>5, <2>1
  <2> QED BY <1>2, <1>7, <2>2, <2>3, <2>4 DEF Provenance, r
<1>8. CASE x.event = "mcp_response"
  <2>1. /\ \E j \in 1..N : s[j].event = "mcp_request" /\ s[j].meta = x.meta
        /\ \A j \in 1..N : s[j].event = "mcp_response" => s[j].meta # x.meta
    BY <1>8 DEF MayCite
  <2>2. /\ \E j \in Earlier(r, N + 1, "mcp_request") : r[j].meta = x.meta
        /\ ~\E j \in Earlier(r, N + 1, "mcp_response") : r[j].meta = x.meta
    BY <1>4, <1>5, <2>1
  <2> QED BY <1>2, <1>8, <2>2 DEF Provenance, r
<1>9. CASE x.event = "evidence_validated"
  <2>1. /\ \E j \in 1..N : s[j].event = "mcp_response" /\ s[j].meta = x.meta
        /\ \A j \in 1..N : s[j].event = "evidence_validated" => s[j].meta # x.meta
    BY <1>9 DEF MayCite
  <2>2. /\ \E j \in Earlier(r, N + 1, "mcp_response") : r[j].meta = x.meta
        /\ ~\E j \in Earlier(r, N + 1, "evidence_validated") : r[j].meta = x.meta
    BY <1>4, <1>5, <2>1
  <2> QED BY <1>2, <1>9, <2>2 DEF Provenance, r
<1> QED BY <1>6, <1>7, <1>8, <1>9 DEF MayCite

\* Two adds, one after the other.
LEMMA AddTwo ==
    ASSUME NEW t, NEW a, NEW b
    PROVE  AddAll(t, <<a, b>>) = Add(Add(t, a), b)
<1> DEFINE events == <<a, b>>
<1>1. Len(events) = 2 /\ events[1] = a /\ events[2] = b OBVIOUS
<1> HIDE DEF events
<1>2. Len(events) \in Nat BY <1>1
<1>3. PICK h : /\ h[0] = t
               /\ \A n \in 1..Len(events) : h[n] = Add(h[n - 1], events[n])
               /\ AddAll(t, events) = h[Len(events)]
  BY <1>2, AddTrace
<1>4. h[1] = Add(h[1 - 1], a) /\ h[2] = Add(h[2 - 1], b)
  <2>1. 1 \in 1..2 /\ 2 \in 1..2 OBVIOUS
  <2> QED BY <1>1, <1>3, <2>1
<1>5. 1 - 1 = 0 /\ 2 - 1 = 1 OBVIOUS
<1> QED BY <1>1, <1>3, <1>4, <1>5 DEF events

\* add() of an event that cites an action.
LEMMA CiteOne ==
    ASSUME NEW t, Sound(t), NEW name \in Citing, NEW meta,
           meta = [k \in DOMAIN meta |-> meta[k]], "failure" \notin DOMAIN meta,
           ~t.limited /\ ~t.raised /\ ~Refused(Event(name, meta)) =>
               MayCite(t.events, Len(t.events), Event(name, meta))
    PROVE  /\ Added(t, Event(name, meta), Add(t, Event(name, meta)))
           /\ Redacted(Event(name, meta)) = Event(name, meta)
<1> DEFINE e == Event(name, meta)
<1>1. Redacted(e) = e BY RedactedSame
<1>2. e.event = name /\ e.meta = meta /\ name # "transcript_limit" BY DEF Event, Citing
<1>3. Len(t.events) \in Nat /\ t.events = [i \in 1..Len(t.events) |-> t.events[i]]
  BY DEF Sound
<1> HIDE DEF e
<1>4. ~t.limited /\ ~t.raised /\ ~Refused(e) =>
          Provenance(Append(t.events, Redacted(e)), Len(t.events) + 1)
  BY <1>1, <1>3, ProvenanceNew DEF e
<1>5. Recordable(t, e) BY <1>2, <1>4 DEF Recordable, e
<1>6. Added(t, e, Add(t, e)) BY <1>5, AddKeeps
<1> QED BY <1>1, <1>6 DEF e

\* Two events that cite an action, one after the other.
LEMMA AddedTwice ==
    ASSUME NEW t, NEW u, NEW v, NEW a, NEW b, Sound(t), Added(t, a, u), Added(u, b, v),
           Redacted(a) = a, Redacted(b) = b
    PROVE  /\ Sound(v)
           /\ t.limited => v.limited
           /\ Len(t.events) <= Len(v.events)
           /\ \A i \in 1..Len(t.events) : v.events[i] = t.events[i]
           /\ \A i \in 1..Len(v.events) :
                  i \in 1..Len(t.events) \/ v.events[i] \in {a, b, Terminal}
           /\ ~Refused(a) /\ ~Refused(b) /\ ~t.raised =>
                  ~v.raised /\ (~v.limited => \E i \in 1..Len(v.events) : v.events[i] = b)
<1>1. Len(t.events) \in Nat /\ Len(u.events) \in Nat /\ Len(v.events) \in Nat
  BY DEF Added, Sound
<1>2. /\ 1..Len(t.events) \subseteq 1..Len(u.events)
      /\ 1..Len(u.events) \subseteq 1..Len(v.events) /\ Len(t.events) <= Len(v.events)
  BY <1>1 DEF Added
<1>3. \A i \in 1..Len(t.events) : v.events[i] = t.events[i] BY <1>2 DEF Added
<1>4. \A i \in 1..Len(v.events) :
          i \in 1..Len(t.events) \/ v.events[i] \in {a, b, Terminal}
  <2> TAKE i \in 1..Len(v.events)
  <2>1. i \in 1..Len(u.events) \/ v.events[i] \in {b, Terminal} BY DEF Added
  <2>2. i \in 1..Len(u.events) =>
            v.events[i] = u.events[i] /\ (i \in 1..Len(t.events) \/ u.events[i] \in {a, Terminal})
    BY DEF Added
  <2> QED BY <2>1, <2>2
<1>5. ~Refused(a) /\ ~Refused(b) /\ ~t.raised =>
          ~v.raised /\ (~v.limited => \E i \in 1..Len(v.events) : v.events[i] = b)
  BY DEF Added
<1> QED BY <1>2, <1>3, <1>4, <1>5 DEF Added

\* What Authorize records of the proposal p: on a refusal of the first event
\* nothing; else both events, in this order, or as much of them as fits.
LEMMA AuthorizeRecords ==
    ASSUME Sound(transcript), ~transcript.raised, NEW act, NEW call, NEW id \in Nat,
           \A i \in DOMAIN transcript.events :
               LET e == transcript.events[i] IN
               /\ e.event \in {"authorized", "mcp_request"} => e.meta.action # act
               /\ e.event = "mcp_request" => e.meta.response # id,
           NEW a, a = Event("authorized", [action |-> act, proposal |-> call]),
           NEW b, b = Event("mcp_request", [action |-> act, response |-> id]),
           NEW v, v = AddAll(transcript, <<a, b>>)
    PROVE  /\ Sound(v)
           /\ v.raised => Grown(transcript, v)
           /\ ~v.raised =>
                /\ transcript.limited => v.limited
                /\ \A i \in 1..Len(v.events) :
                       \/ i \in DOMAIN transcript.events /\ v.events[i] = transcript.events[i]
                       \/ v.events[i] \in {a, b, Terminal}
                /\ ~v.limited => \E i \in 1..Len(v.events) : v.events[i] = b
<1> DEFINE t == transcript
           u == Add(t, a)
<1>1. v = Add(u, b) BY AddTwo
<1>2. PICK N \in Nat : N = Len(t.events) /\ t.events = [i \in 1..N |-> t.events[i]]
  BY DEF Sound
<1>3. DOMAIN t.events = 1..N BY <1>2
<1>4. /\ a.event = "authorized" /\ a.meta = [action |-> act, proposal |-> call]
      /\ b.event = "mcp_request" /\ b.meta = [action |-> act, response |-> id]
      /\ a.meta.action = act /\ b.meta.action = act /\ b.meta.response = id
      /\ DOMAIN a.meta = {"action", "proposal"} /\ DOMAIN b.meta = {"action", "response"}
  BY DEF Event
<1>5. /\ a = Event("authorized", a.meta) /\ a.meta = [k \in DOMAIN a.meta |-> a.meta[k]]
      /\ b = Event("mcp_request", b.meta) /\ b.meta = [k \in DOMAIN b.meta |-> b.meta[k]]
      /\ "failure" \notin DOMAIN a.meta /\ "failure" \notin DOMAIN b.meta
  BY <1>4
<1>6. ~Refused(b)
  <2>1. SchemaHolds(Event("mcp_request", b.meta)) BY <1>4, SchemaOf
  <2> QED BY <1>4, <1>5, <2>1 DEF Refused
<1>7. Added(t, a, u) /\ Redacted(a) = a
  <2>1. MayCite(t.events, Len(t.events), a)
    <3>1. \A j \in 1..N : t.events[j].event = "authorized"
                         => t.events[j].meta.action # act
      BY <1>3
    <3>2. MayCite(t.events, N, a) BY <1>4, <3>1 DEF MayCite
    <3> QED BY <1>2, <3>2
  <2>2. "authorized" \in Citing BY DEF Citing
  <2> HIDE DEF u
  <2>3. /\ Added(t, Event("authorized", a.meta), Add(t, Event("authorized", a.meta)))
        /\ Redacted(Event("authorized", a.meta)) = Event("authorized", a.meta)
    BY <1>5, <2>1, <2>2, CiteOne
  <2> QED BY <1>5, <2>3 DEF u
<1> HIDE DEF u, t
<1>8. Sound(u) BY <1>7 DEF Added
<1>9. PICK M \in Nat : M = Len(u.events) /\ u.events = [i \in 1..M |-> u.events[i]]
  BY <1>8 DEF Sound
<1>10. \A i \in 1..M : \/ i \in 1..N /\ u.events[i] = t.events[i]
                       \/ u.events[i] \in {a, Terminal}
  BY <1>2, <1>7, <1>9 DEF Added
<1>11. Terminal.event = "transcript_limit" BY DEF Terminal, Plain, Event
<1>12. ~u.limited /\ ~u.raised => MayCite(u.events, M, b)
  <2> HAVE ~u.limited /\ ~u.raised
  <2>1. ~Refused(a)
    <3> SUFFICES ASSUME Refused(a) PROVE FALSE OBVIOUS
    <3>1. ~t.limited BY <1>7 DEF Added
    <3>2. u = [t EXCEPT !.raised = TRUE] BY <3>1 DEF u, Add, t
    <3>3. u.raised BY <3>2, SoundRaised DEF t
    <3> QED BY <3>3
  <2>2. \E j \in 1..M : u.events[j] = a BY <1>7, <1>9, <2>1 DEF Added, t
  <2>3. \E j \in 1..M : u.events[j].event = "authorized" /\ u.events[j].meta.action = b.meta.action
    BY <1>4, <2>2
  <2>4. ASSUME NEW j \in 1..M, u.events[j].event = "mcp_request"
        PROVE  u.events[j].meta.action # act /\ u.events[j].meta.response # id
    <3>1. j \in 1..N /\ u.events[j] = t.events[j] BY <1>4, <1>10, <1>11, <2>4
    <3> QED BY <1>3, <2>4, <3>1 DEF t
  <2> QED BY <1>4, <2>3, <2>4 DEF MayCite
<1>13. Added(u, b, v) /\ Redacted(b) = b
  <2>1. "mcp_request" \in Citing BY DEF Citing
  <2>2. ~u.limited /\ ~u.raised /\ ~Refused(Event("mcp_request", b.meta)) =>
            MayCite(u.events, Len(u.events), Event("mcp_request", b.meta))
    BY <1>5, <1>9, <1>12
  <2>3. /\ Added(u, Event("mcp_request", b.meta), Add(u, Event("mcp_request", b.meta)))
        /\ Redacted(Event("mcp_request", b.meta)) = Event("mcp_request", b.meta)
    BY <1>5, <1>8, <2>1, <2>2, CiteOne
  <2> QED BY <1>1, <1>5, <2>3
<1>14. Sound(t) BY DEF t
<1>15. /\ Sound(v)
       /\ t.limited => v.limited
       /\ \A i \in 1..Len(t.events) : v.events[i] = t.events[i]
       /\ \A i \in 1..Len(v.events) :
              i \in 1..Len(t.events) \/ v.events[i] \in {a, b, Terminal}
       /\ ~Refused(a) /\ ~Refused(b) /\ ~t.raised =>
              ~v.raised /\ (~v.limited => \E i \in 1..Len(v.events) : v.events[i] = b)
  BY <1>7, <1>13, <1>14, AddedTwice
<1>16. CASE Refused(a)
  <2>1. u = t \/ u = [t EXCEPT !.raised = TRUE] BY <1>16 DEF u, Add, t
  <2>2. (u.raised \/ u.limited) /\ u.events = t.events /\ Grown(t, u)
    <3>1. CASE u = t
      <4>1. t.raised \/ t.limited
        <5> SUFFICES ASSUME ~(t.raised \/ t.limited) PROVE FALSE OBVIOUS
        <5>1. u = [t EXCEPT !.raised = TRUE] BY <1>16 DEF u, Add, t
        <5>2. u.raised BY <5>1, SoundRaised DEF t
        <5> QED BY <3>1, <5>2
      <4> QED BY <1>14, <3>1, <4>1, GrownSame
    <3>2. CASE u = [t EXCEPT !.raised = TRUE]
      <4>1. Sound(u) /\ u.raised = TRUE /\ u.events = t.events /\ u.limited = t.limited
        BY <1>14, <3>2, SoundRaised
      <4> QED BY <1>2, <4>1 DEF Grown
    <3> QED BY <2>1, <3>1, <3>2
  <2>3. v = u BY <1>1, <2>2 DEF Add
  <2> QED BY <1>2, <1>3, <1>15, <2>2, <2>3, <1>16 DEF t, Grown
<1>17. CASE ~Refused(a)
  <2>1. ~v.raised BY <1>6, <1>15, <1>17 DEF t
  <2> QED BY <1>2, <1>3, <1>6, <1>15, <1>17, <2>1 DEF t
<1> QED BY <1>16, <1>17

\* What an accepted answer records.
LEMMA EvidenceRecords ==
    ASSUME Sound(transcript), ~transcript.raised, NEW act, NEW id,
           \A i \in DOMAIN transcript.events :
               LET e == transcript.events[i] IN
               e.event \in {"mcp_response", "evidence_validated"} => e.meta.action # act,
           ~transcript.limited =>
               \E i \in DOMAIN transcript.events :
                   transcript.events[i] =
                       Event("mcp_request", [action |-> act, response |-> id]),
           NEW a, a = Event("mcp_response", [action |-> act, response |-> id]),
           NEW b, b = Event("evidence_validated", [action |-> act, response |-> id]),
           NEW v, v = AddAll(transcript, <<a, b>>)
    PROVE  /\ Sound(v) /\ ~v.raised
           /\ \A i \in 1..Len(v.events) :
                  \/ i \in DOMAIN transcript.events /\ v.events[i] = transcript.events[i]
                  \/ v.events[i] \in {a, b, Terminal}
<1> DEFINE t == transcript
           u == Add(t, a)
<1>1. v = Add(u, b) BY AddTwo
<1>2. PICK N \in Nat : N = Len(t.events) /\ t.events = [i \in 1..N |-> t.events[i]]
  BY DEF Sound
<1>3. DOMAIN t.events = 1..N BY <1>2
<1>4. /\ a.event = "mcp_response" /\ a.meta = [action |-> act, response |-> id]
      /\ b.event = "evidence_validated" /\ b.meta = a.meta
      /\ a.meta.action = act /\ DOMAIN a.meta = {"action", "response"}
  BY DEF Event
<1>5. /\ a = Event("mcp_response", a.meta) /\ b = Event("evidence_validated", b.meta)
      /\ a.meta = [k \in DOMAIN a.meta |-> a.meta[k]]
      /\ b.meta = [k \in DOMAIN b.meta |-> b.meta[k]]
      /\ "failure" \notin DOMAIN a.meta /\ "failure" \notin DOMAIN b.meta
  BY <1>4
<1>6. ~Refused(a) /\ ~Refused(b)
  <2>1. /\ SchemaHolds(Event("mcp_response", a.meta))
        /\ SchemaHolds(Event("evidence_validated", b.meta))
    BY <1>4, SchemaOf
  <2> QED BY <1>4, <1>5, <2>1 DEF Refused
<1>7. Added(t, a, u) /\ Redacted(a) = a
  <2>1. ~t.limited => MayCite(t.events, Len(t.events), a)
    <3> HAVE ~t.limited
    <3>1. \E j \in 1..N : t.events[j].event = "mcp_request" /\ t.events[j].meta = a.meta
      BY <1>3, <1>4 DEF Event
    <3>2. \A j \in 1..N : t.events[j].event = "mcp_response" => t.events[j].meta # a.meta
      BY <1>3, <1>4
    <3> QED BY <1>2, <1>4, <3>1, <3>2 DEF MayCite
  <2>2. "mcp_response" \in Citing BY DEF Citing
  <2> HIDE DEF u
  <2>3. /\ Added(t, Event("mcp_response", a.meta), Add(t, Event("mcp_response", a.meta)))
        /\ Redacted(Event("mcp_response", a.meta)) = Event("mcp_response", a.meta)
    BY <1>5, <2>1, <2>2, CiteOne
  <2> QED BY <1>5, <2>3 DEF u
<1> HIDE DEF u, t
<1>8. Sound(u) BY <1>7 DEF Added
<1>9. PICK M \in Nat : M = Len(u.events) /\ u.events = [i \in 1..M |-> u.events[i]]
  BY <1>8 DEF Sound
<1>10. \A i \in 1..M : \/ i \in 1..N /\ u.events[i] = t.events[i]
                       \/ u.events[i] \in {a, Terminal}
  BY <1>2, <1>7, <1>9 DEF Added
<1>11. Terminal.event = "transcript_limit" BY DEF Terminal, Plain, Event
<1>12. ~u.limited => MayCite(u.events, M, b)
  <2> HAVE ~u.limited
  <2>1. \E j \in 1..M : u.events[j] = a BY <1>6, <1>7, <1>9 DEF Added, t
  <2>2. \E j \in 1..M : u.events[j].event = "mcp_response" /\ u.events[j].meta = b.meta
    BY <1>4, <2>1
  <2>3. ASSUME NEW j \in 1..M, u.events[j].event = "evidence_validated"
        PROVE  u.events[j].meta # b.meta
    <3>1. j \in 1..N /\ u.events[j] = t.events[j] BY <1>4, <1>10, <1>11, <2>3
    <3>2. u.events[j].meta.action # act BY <1>3, <2>3, <3>1 DEF t
    <3> QED BY <1>4, <3>2
  <2> QED BY <1>4, <2>2, <2>3 DEF MayCite
<1>13. Added(u, b, v) /\ Redacted(b) = b
  <2>1. "evidence_validated" \in Citing BY DEF Citing
  <2>2. ~u.limited /\ ~u.raised /\ ~Refused(Event("evidence_validated", b.meta)) =>
            MayCite(u.events, Len(u.events), Event("evidence_validated", b.meta))
    BY <1>5, <1>9, <1>12
  <2>3. /\ Added(u, Event("evidence_validated", b.meta),
                 Add(u, Event("evidence_validated", b.meta)))
        /\ Redacted(Event("evidence_validated", b.meta)) = Event("evidence_validated", b.meta)
    BY <1>5, <1>8, <2>1, <2>2, CiteOne
  <2> QED BY <1>1, <1>5, <2>3
<1>14. Sound(t) /\ ~t.raised BY DEF t
<1>15. /\ Sound(v)
       /\ \A i \in 1..Len(t.events) : v.events[i] = t.events[i]
       /\ \A i \in 1..Len(v.events) :
              i \in 1..Len(t.events) \/ v.events[i] \in {a, b, Terminal}
       /\ ~v.raised
  BY <1>6, <1>7, <1>13, <1>14, AddedTwice
<1> QED BY <1>2, <1>3, <1>15 DEF t

-----------------------------------------------------------------------------
(* The steps of the run.                                                   *)

\* Growth by events that cite nothing keeps every event traced.
LEMMA TracedGrown ==
    ASSUME Sound(transcript), Traced, Grown(transcript, transcript'),
           actions \subseteq actions', evidence' = evidence, ~Calling',
           Busy' => Busy /\ LastId \in Int /\ LastId' \in Int /\ LastId <= LastId'
    PROVE  Traced'
<1>1. /\ DOMAIN transcript.events = 1..Len(transcript.events)
      /\ DOMAIN transcript'.events = 1..Len(transcript'.events)
  BY DEF Sound, Grown
<1>2. ASSUME NEW i \in DOMAIN transcript'.events PROVE Traces(transcript.events[i])'
  <2>1. PICK e : e = transcript'.events[i] OBVIOUS
  <2>2. CASE e.event \notin Citing BY <2>1, <2>2 DEF Traces, Citing
  <2>3. CASE i \in DOMAIN transcript.events /\ e = transcript.events[i]
    <3>1. Traces(e) BY <2>3 DEF Traced
    <3>2. Traces(e)' BY <3>1 DEF Traces
    <3> QED BY <2>1, <3>2 DEF Traces
  <2> QED BY <1>1, <2>1, <2>2, <2>3 DEF Grown
<1> QED BY <1>2 DEF Traced

\* run() turns to close().
LEMMA TurnsToClose ==
    ASSUME TranscriptInv, Busy, Grown(transcript, transcript'), ~transcript'.raised,
           pc' = "close", ret' = "outcome", actions \subseteq actions',
           UNCHANGED <<evidence, child, process>>,
           Len(sent') # Len(evidence') =>
               /\ outcome' \in {"failed", "cancelled"}
               /\ transcript'.limited \/ Records(transcript', "failure")
    PROVE  TranscriptInv'
<1>1. ~Busy' /\ ~Calling' BY DEF Busy, Closing, Calling
<1>2. Traced' BY <1>1, TracedGrown DEF TranscriptInv
<1>3. Sound(transcript') BY DEF Grown
<1>4. Sound(transcript)' BY <1>3 DEF Sound, ParseBoundedTranscript
<1>5. Reported' BY DEF Reported, Records
<1>6. Held' BY DEF TranscriptInv, Held, Closing, UnreapedAfterRequest, Busy
<1> QED BY <1>2, <1>4, <1>5, <1>6 DEF TranscriptInv

\* run() goes on.
LEMMA GoesOn ==
    ASSUME TranscriptInv, Busy, Busy', Sound(transcript'), ~transcript'.raised, Traced',
           ret' = ret, pc' \in {"idle", "start", "started"} => nextId' = 1,
           child' = "running" => process'
    PROVE  TranscriptInv'
<1>1. Sound(transcript)' BY DEF Sound, ParseBoundedTranscript
<1>2. Reported' BY DEF Reported, Busy
<1>3. ret' # "startup" BY DEF TranscriptInv, Held, Busy
<1>4. Held' BY <1>3 DEF Held, UnreapedAfterRequest, Busy, Closing
<1> QED BY <1>1, <1>2, <1>4 DEF TranscriptInv

\* While run() goes on, only the call waited for has no evidence.
LEMMA Balanced ==
    ASSUME Account, Busy, ~Waiting
    PROVE  Len(sent) = Len(evidence)
BY DEF Account, Balance, Shapes

\* While run() goes on, a running child is held.
LEMMA HeldBusy ==
    ASSUME TranscriptInv, Busy
    PROVE  child = "running" => process
BY DEF TranscriptInv, Held, Busy, Closing

\* Whatever a request raises, run() turns to close() and has said so.
LEMMA RaiseStep ==
    ASSUME SessionInv, TranscriptInv, NEW class, Raise(class),
           pc \in {"start", "execute", "send", "write", "wait", "drain"},
           UNCHANGED <<actions, evidence, child, process>>,
           method # "tools/call" => sent' = sent
    PROVE  TranscriptInv'
<1>1. Busy /\ Account BY DEF Busy, Closing, SessionInv
<1>2. Sound(transcript) /\ ~transcript.raised BY DEF TranscriptInv
<1>3. pc' = "close" /\ ret' = "outcome" BY RaiseCloses
<1>4. CASE method = "tools/call"
  <2>1. Inner(class) BY <1>4 DEF Raise
  <2>2. batch \in Seq(Proposals) /\ batch # <<>>
    BY <1>1, <1>4 DEF Account, Shapes, Prepared, Calling, HandshakeFirst
  <2>3. /\ Grown(transcript, transcript') /\ ~transcript'.raised
        /\ outcome' \in {"failed", "cancelled"}
        /\ transcript'.limited \/ Records(transcript', "failure")
    BY <1>2, <2>1, <2>2, InnerReports
  <2> QED BY <1>1, <1>3, <2>3, TurnsToClose
<1>5. CASE method # "tools/call"
  <2>1. Outer(transcript, class) BY <1>5 DEF Raise
  <2>2. Grown(transcript, transcript') /\ ~transcript'.raised BY <1>2, <2>1, OuterGrows
  <2>3. Len(sent') = Len(evidence') BY <1>1, <1>5, Balanced DEF Waiting
  <2> QED BY <1>1, <1>3, <2>2, <2>3, TurnsToClose
<1> QED BY <1>4, <1>5

\* run() decides to end while every call has its evidence.
LEMMA EndStep ==
    ASSUME SessionInv, TranscriptInv, pc \in {"notify", "notifying", "turn", "provider", "exec", "budget",
                                             "authorize"},
           Grown(transcript, transcript'), ~transcript'.raised,
           pc' = "close", ret' = "outcome", actions \subseteq actions',
           UNCHANGED <<sent, evidence, child, process>>
    PROVE  TranscriptInv'
<1>1. Busy /\ ~Waiting /\ Account BY DEF Busy, Closing, Waiting, SessionInv
<1>2. Len(sent') = Len(evidence') BY <1>1, Balanced
<1> QED BY <1>1, <1>2, TurnsToClose

\* Steps that add events citing nothing, or none, and go on with no call at hand.
LEMMA PlainStep ==
    ASSUME SessionInv, TranscriptInv, Busy, Busy', ~Calling, ~Calling', Grown(transcript, transcript'),
           ~transcript'.raised, UNCHANGED <<actions, evidence, ret>>,
           nextId' \in Nat, nextId <= nextId',
           pc' \in {"idle", "start", "started"} => nextId' = 1,
           child' = "running" => process'
    PROVE  TranscriptInv'
<1>1. nextId \in Nat BY DEF SessionInv, Account, Shapes
<1>2. LastId' = nextId' - 1 BY DEF LastId
<1>3. LastId = nextId - 1 BY DEF LastId
<1>4. LastId \in Int /\ LastId' \in Int /\ LastId <= LastId'
  <2>1. PICK m \in Nat, n \in Nat : m = nextId /\ n = nextId' BY <1>1
  <2>2. m <= n BY <2>1
  <2>3. m - 1 \in Int /\ n - 1 \in Int /\ m - 1 <= n - 1
    <3> HIDE <2>1
    <3> QED BY ONLY <2>2, m \in Nat, n \in Nat
  <2> QED BY <1>2, <1>3, <2>1, <2>3
<1>5. Traced' BY <1>4, TracedGrown DEF TranscriptInv
<1>6. Sound(transcript') BY DEF Grown
<1> QED BY <1>5, <1>6, GoesOn

\* Authorize records the authorization and the request, and goes on to execute().
LEMMA AuthorizeTraced ==
    ASSUME SessionInv, TranscriptInv, Authorize
    PROVE  TranscriptInv'
<1>1. PICK act, call, id, a, b, v :
          /\ act = Head(batch).act /\ call = Head(batch).call /\ id = nextId
          /\ a = Event("authorized", [action |-> act, proposal |-> call])
          /\ b = Event("mcp_request", [action |-> act, response |-> id])
          /\ v = AddAll(transcript, <<a, b>>)
  OBVIOUS
<1>2. /\ pc = "authorize" /\ batch # <<>> /\ actions' = actions \cup {act}
      /\ UNCHANGED <<batch, evidence, sent, nextId, child, process>>
  BY <1>1 DEF Authorize, client, outside, SessionInv, Account, Prepared
<1>3. \/ v.raised /\ Outer([v EXCEPT !.raised = FALSE], "local_validation_failure")
      \/ /\ ~v.raised /\ transcript' = v /\ method' = "tools/call" /\ pc' = "execute"
         /\ ret' = ret
  BY <1>1 DEF Authorize
<1>4. /\ Busy /\ ~Calling /\ id \in Nat /\ act = batch[1].act /\ act \notin actions
  <2>1. nextId \in Nat /\ batch \in Seq(Proposals) BY DEF SessionInv, Account, Shapes
  <2>2. Len(batch) \in Nat /\ Len(batch) > 0 /\ Head(batch) = batch[1] BY <1>2, <2>1
  <2>3. batch[1].act \notin actions
    BY <1>2, <2>2 DEF SessionInv, Account, Prepared, NewFrom
  <2> QED BY <1>1, <1>2, <2>1, <2>2, <2>3 DEF Busy, Closing, Calling
<1>5. LastId = id - 1 BY <1>1, <1>4 DEF LastId
<1>6. Sound(transcript) /\ ~transcript.raised /\ Traced BY DEF TranscriptInv
<1>7. \A i \in DOMAIN transcript.events :
          LET e == transcript.events[i] IN
          /\ e.event \in {"authorized", "mcp_request"} => e.meta.action # act
          /\ e.event = "mcp_request" => e.meta.response # id
  <2> TAKE i \in DOMAIN transcript.events
  <2>1. PICK e : e = transcript.events[i] OBVIOUS
  <2>2. Traces(e) BY <1>6, <2>1 DEF Traced
  <2>3. e.event \in {"authorized", "mcp_request"} => e.meta.action # act
    BY <1>4, <2>2 DEF Traces
  <2>4. e.event = "mcp_request" => e.meta.response # id
    BY <1>4, <1>5, <2>2 DEF Traces
  <2> QED BY <2>1, <2>3, <2>4
<1>8. /\ Sound(v)
      /\ v.raised => Grown(transcript, v)
      /\ ~v.raised =>
           /\ transcript.limited => v.limited
           /\ \A i \in 1..Len(v.events) :
                  \/ i \in DOMAIN transcript.events /\ v.events[i] = transcript.events[i]
                  \/ v.events[i] \in {a, b, Terminal}
           /\ ~v.limited => \E i \in 1..Len(v.events) : v.events[i] = b
  BY <1>1, <1>4, <1>6, <1>7, AuthorizeRecords
<1>9. /\ a.event = "authorized" /\ a.meta.action = act
      /\ b.event = "mcp_request" /\ b.meta.action = act /\ b.meta.response = id
      /\ Terminal.event = "transcript_limit"
  BY <1>1 DEF Event, Terminal, Plain
<1>10. CASE v.raised
  <2> DEFINE w == [v EXCEPT !.raised = FALSE]
  <2>1. Grown(transcript, w) /\ ~w.raised BY <1>8, <1>10, GrownReset
  <2>2. Outer(w, "local_validation_failure") BY <1>3, <1>10
  <2> HIDE DEF w
  <2>3. Sound(w) BY <2>1 DEF Grown
  <2>4. Grown(w, transcript') /\ ~transcript'.raised BY <2>1, <2>2, <2>3, OuterGrows
  <2>5. Grown(transcript, transcript') BY <1>6, <2>1, <2>4, GrownOn
  <2>6. pc' = "close" /\ ret' = "outcome" BY <2>2, OuterCloses
  <2> QED BY <1>2, <2>4, <2>5, <2>6, EndStep
<1>11. CASE ~v.raised
  <2>1. transcript' = v /\ method' = "tools/call" /\ pc' = "execute" /\ ret' = ret
    BY <1>3, <1>11
  <2>2. Busy' /\ Calling' /\ LastId' = id
    BY <1>1, <1>2, <2>1 DEF Busy, Calling, Closing, LastId
  <2>3. DOMAIN v.events = 1..Len(v.events) BY <1>8 DEF Sound
  <2>4. ASSUME NEW i \in DOMAIN transcript'.events PROVE Traces(transcript.events[i])'
    <3>1. PICK e : e = transcript'.events[i] /\ e = v.events[i] BY <2>1
    <3>2. \/ i \in DOMAIN transcript.events /\ e = transcript.events[i]
          \/ e \in {a, b, Terminal}
      BY <1>8, <1>11, <2>1, <2>3, <3>1
    <3>3. CASE e \in {a, b, Terminal}
      <4>1. e.event \in {"authorized", "mcp_request"} => e.meta.action \in actions'
        BY <1>2, <1>9, <3>3
      <4>2. e.event = "mcp_request" => e.meta.response \in Nat /\ e.meta.response <= LastId'
        BY <1>4, <1>9, <2>2, <3>3
      <4>3. e.event \notin {"mcp_response", "evidence_validated"} BY <1>9, <3>3
      <4> QED BY <3>1, <4>1, <4>2, <4>3 DEF Traces
    <3>4. CASE i \in DOMAIN transcript.events /\ e = transcript.events[i]
      <4>1. Traces(e) BY <1>6, <3>4 DEF Traced
      <4>2. /\ e.event \in {"authorized", "mcp_request"} => e.meta.action \in actions'
            /\ e.event \in {"mcp_response", "evidence_validated"} =>
                   \E k \in DOMAIN evidence' : evidence'[k].act = e.meta.action
        BY <1>2, <4>1 DEF Traces
      <4>3. e.event = "mcp_request" => e.meta.response \in Nat /\ e.meta.response <= LastId'
        BY <1>4, <1>5, <2>2, <4>1 DEF Traces
      <4> QED BY <3>1, <4>2, <4>3 DEF Traces
    <3> QED BY <3>2, <3>3, <3>4
  <2>5. ~transcript'.limited =>
            \E i \in DOMAIN transcript'.events :
                transcript'.events[i] =
                    Event("mcp_request", [action |-> batch'[1].act, response |-> LastId'])
    <3>1. b = Event("mcp_request", [action |-> batch'[1].act, response |-> LastId'])
      BY <1>1, <1>2, <1>4, <2>2
    <3> QED BY <1>8, <1>11, <2>1, <2>3, <3>1
  <2>6. Traced' BY <2>4, <2>5 DEF Traced
  <2> QED BY <1>2, <1>4, <1>8, <1>11, <2>1, <2>2, <2>6, GoesOn, HeldBusy
<1> QED BY <1>10, <1>11
\* The events of the transcript stay traced, as they are, when the ledger grows.
LEMMA TracesKept ==
    ASSUME NEW e, Traces(e), actions \subseteq actions',
           \A k \in DOMAIN evidence : k \in DOMAIN evidence' /\ evidence'[k] = evidence[k],
           Busy' => Busy /\ LastId' = LastId
    PROVE  Traces(e)'
<1>1. /\ e.event \in {"authorized", "mcp_request"} => e.meta.action \in actions'
      /\ e.event \in {"mcp_response", "evidence_validated"} =>
             \E k \in DOMAIN evidence' : evidence'[k].act = e.meta.action
  BY DEF Traces
<1>2. Busy' /\ e.event = "mcp_request" => e.meta.response \in Nat /\ e.meta.response <= LastId'
  BY DEF Traces
<1> QED BY <1>1, <1>2 DEF Traces

\* A sequence and what is appended to it, whatever that is.
LEMMA AppendOn ==
    ASSUME NEW S, NEW s \in Seq(S), NEW e
    PROVE  /\ DOMAIN s = 1..Len(s) /\ Len(s) \in Nat
           /\ DOMAIN Append(s, e) = 1..(Len(s) + 1) /\ Append(s, e)[Len(s) + 1] = e
           /\ \A k \in 1..Len(s) : Append(s, e)[k] = s[k]
<1>1. s \in Seq(S \cup {e}) OBVIOUS
<1> QED BY <1>1

\* The answer to the call at hand is recorded with what it answers.
LEMMA AcceptTraced ==
    ASSUME SessionInv, TranscriptInv, NEW r, pc = "drain", method = "tools/call", Accept(r),
           UNCHANGED <<method, ret, nextId, child, process>>
    PROVE  TranscriptInv'
<1>1. PICK act, id, a, b, v, new :
          /\ act = Head(batch).act /\ id = nextId - 1
          /\ a = Event("mcp_response", [action |-> act, response |-> id])
          /\ b = Event("evidence_validated", [action |-> act, response |-> id])
          /\ v = AddAll(transcript, <<a, b>>)
          /\ new = [act |-> act, id |-> id, from |-> r.id]
  OBVIOUS
<1>2. /\ evidence' = Append(evidence, new) /\ transcript' = v
      /\ pc' = "exec" /\ actions' = actions
  BY <1>1 DEF Accept, Cited
<1>3. /\ batch \in Seq(Proposals) /\ nextId \in Nat
      /\ sent \in Seq([act : Actions, id : Nat])
      /\ evidence \in Seq([act : Actions, id : Nat, from : Nat])
  BY DEF SessionInv, Account, Shapes
<1>4. Busy /\ Calling /\ Waiting /\ LastId = id
  BY <1>1 DEF Busy, Closing, Calling, Waiting, LastId
<1>5. Busy' /\ ~Calling' /\ LastId' = id BY <1>1, <1>2 DEF Busy, Closing, Calling, LastId
<1>6. batch # <<>> /\ act = batch[1].act
  BY <1>1, <1>3, <1>4 DEF SessionInv, Account, Prepared
<1>7. \A k \in DOMAIN evidence : evidence[k].act # act
  <2>1. Len(evidence) \in Nat /\ Len(sent) = Len(evidence) + 1
    BY <1>3, <1>4 DEF SessionInv, Account, Balance
  <2>2. sent[Len(sent)].act = act
    BY <1>4, <1>6 DEF SessionInv, Account, Sendings
  <2>3. ASSUME NEW k \in DOMAIN evidence, evidence[k].act = act PROVE FALSE
    <3>1. k \in DOMAIN sent /\ sent[k].act = act BY <2>3 DEF SessionInv, Account, Answers
    <3>2. Len(sent) \in DOMAIN sent /\ k # Len(sent) BY <1>3, <2>1
    <3> QED BY <2>2, <3>1, <3>2 DEF SessionInv, Account, AtMostOnce
  <2> QED BY <2>3
<1>8. Sound(transcript) /\ ~transcript.raised /\ Traced BY DEF TranscriptInv
<1>9. \A i \in DOMAIN transcript.events :
          LET e == transcript.events[i] IN
          e.event \in {"mcp_response", "evidence_validated"} => e.meta.action # act
  <2> TAKE i \in DOMAIN transcript.events
  <2>1. PICK e : e = transcript.events[i] OBVIOUS
  <2>2. Traces(e) BY <1>8, <2>1 DEF Traced
  <2> QED BY <1>7, <2>1, <2>2 DEF Traces
<1>10. ~transcript.limited =>
           \E i \in DOMAIN transcript.events :
               transcript.events[i] =
                   Event("mcp_request", [action |-> act, response |-> id])
  BY <1>4, <1>6, <1>8 DEF Traced
<1>11. /\ Sound(v) /\ ~v.raised
       /\ \A i \in 1..Len(v.events) :
              \/ i \in DOMAIN transcript.events /\ v.events[i] = transcript.events[i]
              \/ v.events[i] \in {a, b, Terminal}
  BY <1>1, <1>8, <1>9, <1>10, EvidenceRecords
<1>12. DOMAIN v.events = 1..Len(v.events) BY <1>11 DEF Sound
<1>13. /\ a.event = "mcp_response" /\ a.meta.action = act
       /\ b.event = "evidence_validated" /\ b.meta.action = act
       /\ Terminal.event = "transcript_limit"
  BY <1>1 DEF Event, Terminal, Plain
<1>14. /\ \A k \in DOMAIN evidence : k \in DOMAIN evidence' /\ evidence'[k] = evidence[k]
       /\ \E k \in DOMAIN evidence' : evidence'[k].act = act
  <2>1. new.act = act BY <1>1
  <2>2. /\ DOMAIN evidence = 1..Len(evidence) /\ Len(evidence) \in Nat
        /\ DOMAIN evidence' = 1..(Len(evidence) + 1) /\ evidence'[Len(evidence) + 1] = new
        /\ \A k \in 1..Len(evidence) : evidence'[k] = evidence[k]
    BY <1>2, <1>3, AppendOn
  <2>3. \A k \in DOMAIN evidence : k \in DOMAIN evidence' /\ evidence'[k] = evidence[k]
    BY <2>2
  <2>4. Len(evidence) + 1 \in DOMAIN evidence' BY <2>2
  <2> QED BY <2>1, <2>2, <2>3, <2>4
<1>15. ASSUME NEW i \in DOMAIN transcript'.events PROVE Traces(transcript.events[i])'
  <2>1. PICK e : e = transcript'.events[i] /\ e = v.events[i] BY <1>2
  <2>2. CASE e \in {a, b, Terminal}
    <3>1. e.event \notin {"authorized", "mcp_request"} BY <1>13, <2>2
    <3>2. e.event \in {"mcp_response", "evidence_validated"} => e.meta.action = act
      BY <1>13, <2>2
    <3> QED BY <1>14, <2>1, <3>1, <3>2 DEF Traces
  <2>3. CASE i \in DOMAIN transcript.events /\ e = transcript.events[i]
    <3>1. Traces(e) BY <1>8, <2>3 DEF Traced
    <3>2. Traces(e)' BY <1>2, <1>4, <1>5, <1>14, <3>1, TracesKept
    <3> QED BY <2>1, <3>2 DEF Traces
  <2> QED BY <1>2, <1>11, <1>12, <2>1, <2>2, <2>3
<1>16. Traced' BY <1>5, <1>15 DEF Traced
<1>17. child' = "running" => process' BY <1>4, HeldBusy
<1> QED BY <1>2, <1>4, <1>5, <1>11, <1>16, <1>17, GoesOn

\* Steps that leave the transcript and the ledger alone: the write of the call
\* at hand, and what the client's surroundings do.
LEMMA TracedFrame ==
    ASSUME Traced, UNCHANGED <<transcript, actions, evidence>>,
           Busy' => Busy /\ LastId' = LastId,
           Calling' => Calling /\ batch'[1] = batch[1] /\ LastId' = LastId
    PROVE  Traced'
<1>1. ASSUME NEW i \in DOMAIN transcript'.events PROVE Traces(transcript.events[i])'
  <2>1. PICK e : e = transcript'.events[i] /\ e = transcript.events[i] OBVIOUS
  <2>2. Traces(e) BY <2>1 DEF Traced
  <2>3. Traces(e)' BY <2>2, TracesKept
  <2> QED BY <2>1, <2>3 DEF Traces
<1> QED BY <1>1 DEF Traced

\* The child, the clock and the canceller do not touch the transcript.
LEMMA SurroundingsStep ==
    ASSUME SessionInv, TranscriptInv,
           UNCHANGED <<pc, method, ret, mode, outcome, transcript, actions, batch, evidence,
                       sent, process, nextId>>,
           child' = "running" => child = "running"
    PROVE  TranscriptInv'
<1>1. (Busy' <=> Busy) /\ (Calling' <=> Calling) BY DEF Busy, Calling, Closing
<1>2. LastId' = LastId BY <1>1 DEF LastId
<1>3. Traced' BY <1>1, <1>2, TracedFrame DEF TranscriptInv
<1>4. Sound(transcript)' BY DEF TranscriptInv, Sound, ParseBoundedTranscript
<1>5. Reported' BY DEF TranscriptInv, Reported, Records
<1>6. Held' BY <1>1 DEF TranscriptInv, Held, UnreapedAfterRequest, Records
<1> QED BY <1>3, <1>4, <1>5, <1>6 DEF TranscriptInv

\* The call at hand moves on, to its request, its write and its answer, or
\* another request does: the transcript is as it was.
LEMMA SendStep ==
    ASSUME SessionInv, TranscriptInv,
           \/ Send \/ Write \/ WaitGoesOn
           \/ Execute /\ pc' = "send" /\ UNCHANGED <<method, ret, transcript>>
    PROVE  TranscriptInv'
<1>1. /\ pc \in {"execute", "send", "write", "wait"}
      /\ pc' \in {"send", "write", "wait", "drain"}
      /\ \/ pc = "execute" /\ pc' = "send" /\ nextId' = nextId
         \/ pc = "send" /\ pc' = "write" /\ nextId' = nextId + 1
         \/ pc = "write" /\ pc' = "wait" /\ nextId' = nextId
         \/ pc = "wait" /\ pc' = "drain" /\ nextId' = nextId
      /\ UNCHANGED <<method, ret, transcript, batch, actions, evidence, child, process>>
  <2>1. CASE Send BY <2>1 DEF Send, outside, client, work
  <2>2. CASE Write BY <2>2 DEF Write, outside, client, work
  <2>3. CASE WaitGoesOn BY <2>3 DEF WaitGoesOn, outside, client, work
  <2>4. CASE Execute /\ pc' = "send" /\ UNCHANGED <<method, ret, transcript>>
    <3>1. pc = "execute" /\ UNCHANGED <<work, client, outside>> BY <2>4 DEF Execute
    <3> QED BY <2>4, <3>1 DEF work, client, outside
  <2> QED BY <2>1, <2>2, <2>3, <2>4
<1>2. nextId \in Nat BY DEF SessionInv, Account, Shapes
<1>3. Busy /\ Busy' /\ (Calling' <=> Calling) BY <1>1 DEF Busy, Calling, Closing
<1>4. child' = "running" => process' BY <1>1, <1>3, HeldBusy
<1>5. Sound(transcript) /\ ~transcript.raised /\ Traced BY DEF TranscriptInv
<1>6. CASE Calling
  <2>1. PICK m \in Nat : m = nextId BY <1>2
  <2>2. LastId' = LastId
    <3>1. (m + 1) - 1 = m OBVIOUS
    <3>2. CASE pc = "send"
      BY <1>1, <1>3, <1>6, <2>1, <3>1, <3>2 DEF LastId
    <3>3. CASE pc # "send" BY <1>1, <1>3, <1>6, <3>3 DEF LastId
    <3> QED BY <3>2, <3>3
  <2>3. Traced' BY <1>1, <1>3, <1>5, <2>2, TracedFrame
  <2> QED BY <1>1, <1>3, <1>4, <1>5, <2>3, GoesOn
<1>7. CASE ~Calling
  <2>1. Grown(transcript, transcript') BY <1>1, <1>5, GrownSame
  <2>2. nextId' \in Nat /\ nextId <= nextId' BY <1>1, <1>2
  <2> QED BY <1>1, <1>3, <1>4, <1>5, <1>7, <2>1, <2>2, PlainStep
<1> QED BY <1>6, <1>7

-----------------------------------------------------------------------------
(* The lists of events that run() records at once.                         *)

\* An event that cites nothing in front of others.
LEMMA FrontAndRest ==
    ASSUME NEW e, NEW n \in Nat, NEW rest, rest = [i \in 1..n |-> rest[i]],
           Uncited(e), \A i \in 1..n : Uncited(rest[i])
    PROVE  /\ Len(<<e>> \o rest) \in Nat
           /\ \A i \in 1..Len(<<e>> \o rest) : Uncited((<<e>> \o rest)[i])
<1> DEFINE X == {e} \cup {rest[i] : i \in 1..n}
<1>1. rest \in Seq(X) /\ Len(rest) = n
  <2>1. \A i \in 1..n : rest[i] \in X OBVIOUS
  <2> HIDE DEF X
  <2>2. rest \in [1..n -> X] BY <2>1
  <2> QED BY <2>2
<1>2. <<e>> \in Seq(X) OBVIOUS
<1>3. \A x \in X : Uncited(x) OBVIOUS
<1> HIDE DEF X
<1>4. <<e>> \o rest \in Seq(X) BY <1>1, <1>2
<1>5. PICK s \in Seq(X) : s = <<e>> \o rest BY <1>4
<1>6. Len(s) \in Nat /\ \A i \in 1..Len(s) : Uncited(s[i]) BY <1>3
<1> QED BY <1>5, <1>6

\* What is recorded of a refused proposal and those after it.
LEMMA RefusalEvents ==
    ASSUME NEW s \in Seq(Proposals), NEW i \in DOMAIN s
    PROVE  /\ Len(Refusal(s, i)) \in Nat
           /\ \A k \in 1..Len(Refusal(s, i)) : Uncited(Refusal(s, i)[k])
<1>1. i \in Nat OBVIOUS
<1> DEFINE A == Event("proposal_duplicate", [proposal |-> s[i].call])
           B == Event("proposal_rejected", [proposal |-> s[i].call])
           after == SubSeq(s, i + 1, Len(s))
<1>2. Uncited(A) /\ Uncited(B) BY ProposalEvent
<1>3. \A p : Uncited(Skipped(p)) BY ProposalEvent DEF Skipped
<1>4. \/ Refusal(s, i) = <<A>>
      \/ Refusal(s, i) = <<B>> \o SkippedAll(after)
      \/ Refusal(s, i) = <<B>> \o <<>>
  BY DEF Refusal
<1>5. after \in Seq(Proposals) BY <1>1
<1> HIDE DEF A, B, after
<1>6. PICK n \in Nat : Len(after) = n /\ DOMAIN after = 1..n BY <1>5
<1>7. /\ SkippedAll(after) = [k \in 1..n |-> SkippedAll(after)[k]]
      /\ \A k \in 1..n : Uncited(SkippedAll(after)[k])
  BY <1>3, <1>6 DEF SkippedAll
<1>8. CASE Refusal(s, i) = <<A>>
  <2>1. Len(<<A>>) = 1 /\ \A k \in 1..1 : <<A>>[k] = A OBVIOUS
  <2> QED BY <1>2, <1>8, <2>1
<1>9. CASE Refusal(s, i) = <<B>> \o SkippedAll(after)
  BY <1>2, <1>7, <1>9, FrontAndRest
<1>10. CASE Refusal(s, i) = <<B>> \o <<>>
  <2>1. <<B>> \o <<>> = <<B>> OBVIOUS
  <2>2. Len(<<B>>) = 1 /\ \A k \in 1..1 : <<B>>[k] = B OBVIOUS
  <2> QED BY <1>2, <1>10, <2>1, <2>2
<1> QED BY <1>4, <1>8, <1>9, <1>10

\* Of several refused proposals the first is reported.
LEMMA FirstRefused ==
    ASSUME NEW T, T \subseteq Nat, T # {}
    PROVE  Min(T) \in T
<1> DEFINE R == {ss \in Nat \X Nat : ss[1] < ss[2]}
<1>1. IsWellFoundedOn(R, Nat) BY NatLessThanWellFounded DEF OpToRel
<1>2. \E x \in T : \A y \in T : <<y, x>> \notin R
  <2> HIDE DEF R
  <2> QED BY <1>1, WFMin
<1>3. PICK x \in T : \A y \in T : <<y, x>> \notin R BY <1>2
<1>4. ASSUME NEW y \in T PROVE x <= y
  <2>1. x \in Nat /\ y \in Nat OBVIOUS
  <2>2. ~(y < x) BY <1>3, <2>1
  <2> QED BY <2>1, <2>2
<1> QED BY <1>4 DEF Min

\* What is recorded of the handshake and the captured surface.
LEMMA CapturedEvents ==
    /\ Len(Captured) = 5
    /\ \A i \in 1..5 : Uncited(Captured[i]) /\ ~Refused(Captured[i])
<1> DEFINE e1 == Event("initialize_response", [response |-> 1])
           e2 == Plain("initialized_notification")
           e3 == Plain("tools_list_request")
           e4 == Event("tools_list_response", [response |-> nextId - 1])
           e5 == Event("surface_captured", [surface |-> "surface"])
<1>1. /\ Uncited(e1) /\ ~Refused(e1) /\ Uncited(e4) /\ ~Refused(e4)
      /\ Uncited(e5) /\ ~Refused(e5)
  BY OtherEvents
<1>2. Uncited(e2) /\ ~Refused(e2) /\ Uncited(e3) /\ ~Refused(e3) BY PlainEvents
<1>3. Captured = <<e1, e2, e3, e4, e5>> BY DEF Captured
<1> HIDE DEF e1, e2, e3, e4, e5
<1>4. /\ Len(<<e1, e2, e3, e4, e5>>) = 5
      /\ \A i \in 1..5 : i \in {1, 2, 3, 4, 5}
      /\ <<e1, e2, e3, e4, e5>>[1] = e1 /\ <<e1, e2, e3, e4, e5>>[2] = e2
      /\ <<e1, e2, e3, e4, e5>>[3] = e3 /\ <<e1, e2, e3, e4, e5>>[4] = e4
      /\ <<e1, e2, e3, e4, e5>>[5] = e5
  OBVIOUS
<1> QED BY <1>1, <1>2, <1>3, <1>4

\* The last events: what close() did, and the outcome.
LEMMA LastEvents ==
    ASSUME mode \in {"none", "terminate", "kill", "unreaped"}, NEW last,
           Uncited(last), ~Refused(last)
    PROVE  LET s == Append(Shutdown, last) IN
           /\ Len(s) \in Nat
           /\ \A i \in 1..Len(s) : Uncited(s[i]) /\ ~Refused(s[i])
           /\ mode = "unreaped" => \E i \in 1..Len(s) : s[i].event = "shutdown_unreaped"
<1> DEFINE T == Plain("shutdown_terminate")
           K == Plain("shutdown_kill")
           C == Plain("shutdown_complete")
           U == Plain("shutdown_unreaped")
           good == {T, K, C, U, last}
<1>1. /\ Uncited(T) /\ ~Refused(T) /\ Uncited(K) /\ ~Refused(K)
      /\ Uncited(C) /\ ~Refused(C) /\ Uncited(U) /\ ~Refused(U)
      /\ U.event = "shutdown_unreaped"
  BY PlainEvents
<1>2. \A x \in good : Uncited(x) /\ ~Refused(x) BY <1>1
<1>3. /\ mode = "none" => Shutdown = <<C>>
      /\ mode = "terminate" => Shutdown = <<T, C>>
      /\ mode = "kill" => Shutdown = <<T, K, C>>
      /\ mode = "unreaped" => Shutdown = <<T, K, U>>
  BY DEF Shutdown
<1> HIDE DEF T, K, C, U
<1>4. last \in good /\ Shutdown \in Seq(good)
  <2>1. T \in good /\ K \in good /\ C \in good /\ U \in good /\ last \in good OBVIOUS
  <2> HIDE DEF good
  <2>2. /\ <<C>> \in Seq(good) /\ <<T, C>> \in Seq(good) /\ <<T, K, C>> \in Seq(good)
        /\ <<T, K, U>> \in Seq(good)
    BY <2>1
  <2> QED BY <1>3, <2>1, <2>2
<1>5. Append(Shutdown, last) \in Seq(good) BY <1>4
<1>6. PICK s \in Seq(good) : s = Append(Shutdown, last) BY <1>5
<1>7. mode = "unreaped" => 3 \in 1..Len(s) /\ s[3] = U
  <2>1. <<T, K, U>> \in Seq(good) /\ Len(<<T, K, U>>) = 3 /\ <<T, K, U>>[3] = U OBVIOUS
  <2> HIDE DEF good
  <2>2. Len(Append(<<T, K, U>>, last)) = 4 /\ Append(<<T, K, U>>, last)[3] = U
    BY <1>4, <2>1
  <2> QED BY <1>3, <1>6, <2>2
<1>8. Len(s) \in Nat /\ \A i \in 1..Len(s) : s[i] \in good OBVIOUS
<1> HIDE DEF good
<1> QED BY <1>1, <1>2, <1>6, <1>7, <1>8
-----------------------------------------------------------------------------
(* The rest of the steps.                                                  *)

\* Run, Popen, Started, TurnDone and CallGoesOn.
LEMMA QuietSteps ==
    ASSUME SessionInv, TranscriptInv, Run \/ Popen \/ Started \/ TurnDone \/ CallGoesOn
    PROVE  TranscriptInv'
<1> USE DEF client, outside, work
<1>1. Sound(transcript) /\ ~transcript.raised /\ Traced /\ Held BY DEF TranscriptInv
<1>2. nextId \in Nat /\ Account BY DEF SessionInv, Account, Shapes
<1>3. CASE Run
  <2>1. /\ pc = "idle" /\ pc' = "start"
        /\ UNCHANGED <<actions, evidence, ret, nextId, child, process>>
    BY <1>3 DEF Run
  <2>2. Busy /\ Busy' /\ ~Calling /\ ~Calling' BY <2>1 DEF Busy, Calling, Closing
  <2> DEFINE a == Plain("process_start")
             b == Plain("initialize_request")
  <2>3. Uncited(a) /\ ~Refused(a) /\ Uncited(b) /\ ~Refused(b) BY PlainEvents
  <2>4. transcript' = AddAll(transcript, <<a, b>>) BY <1>3 DEF Run
  <2> HIDE DEF a, b
  <2>5. /\ Len(<<a, b>>) = 2 /\ <<a, b>>[1] = a /\ <<a, b>>[2] = b
        /\ \A i \in 1..2 : i = 1 \/ i = 2
    OBVIOUS
  <2>6. /\ Len(<<a, b>>) \in Nat
        /\ \A i \in 1..Len(<<a, b>>) : Uncited(<<a, b>>[i]) /\ ~Refused(<<a, b>>[i])
    BY <2>3, <2>5
  <2>7. Grown(transcript, transcript') /\ ~transcript'.raised
    BY <1>1, <2>4, <2>6, AddAllUncited
  <2>8. nextId' = 1 BY <1>1, <2>1 DEF Held
  <2>9. child' = "running" => process' BY <2>1, <2>2, HeldBusy
  <2> QED BY <1>2, <2>1, <2>2, <2>7, <2>8, <2>9, PlainStep
<1>4. CASE Popen
  <2>1. /\ pc = "start" /\ pc' = "started" /\ process'
        /\ UNCHANGED <<transcript, actions, evidence, ret, nextId>>
    BY <1>4 DEF Popen
  <2>2. Busy /\ Busy' /\ ~Calling /\ ~Calling' BY <2>1 DEF Busy, Calling, Closing
  <2>3. Grown(transcript, transcript') BY <1>1, <2>1, GrownSame
  <2>4. nextId' = 1 BY <1>1, <2>1 DEF Held
  <2> QED BY <1>1, <1>2, <2>1, <2>2, <2>3, <2>4, PlainStep
<1>5. CASE Started /\ ~expired
  <2>1. /\ pc = "started" /\ pc' = "send" /\ method' = method
        /\ UNCHANGED <<transcript, actions, evidence, ret, nextId, child, process>>
    BY <1>5 DEF Started
  <2>2. method # "tools/call" BY <1>2, <2>1 DEF Account, HandshakeFirst
  <2>3. Busy /\ Busy' /\ ~Calling /\ ~Calling' BY <2>1, <2>2 DEF Busy, Calling, Closing
  <2>4. Grown(transcript, transcript') BY <1>1, <2>1, GrownSame
  <2>5. child' = "running" => process' BY <2>1, <2>3, HeldBusy
  <2> QED BY <1>1, <1>2, <2>1, <2>3, <2>4, <2>5, PlainStep
<1>6. CASE Started /\ expired
  <2>1. /\ pc = "started" /\ pc' = "close" /\ ret' = "startup"
        /\ UNCHANGED <<transcript, actions, evidence, sent, nextId, child, process>>
    BY <1>6 DEF Started
  <2>2. Busy /\ ~Busy' /\ ~Waiting /\ ~Calling'
    BY <2>1 DEF Busy, Waiting, Calling, Closing
  <2>3. Len(sent') = Len(evidence') BY <1>2, <2>1, <2>2, Balanced
  <2>4. Traced' BY <1>1, <2>1, <2>2, TracedFrame
  <2>5. Sound(transcript)' BY <1>1, <2>1 DEF Sound, ParseBoundedTranscript
  <2>6. Reported' BY <2>3 DEF Reported
  <2>7. nextId' = 1 BY <1>1, <2>1 DEF Held
  <2>8. Held' BY <2>1, <2>2, <2>7 DEF Held, UnreapedAfterRequest, Closing
  <2> QED BY <1>1, <2>1, <2>4, <2>5, <2>6, <2>8 DEF TranscriptInv
<1>7. CASE TurnDone \/ CallGoesOn
  <2>1. /\ pc = "exec" /\ pc' \in {"turn", "budget"}
        /\ UNCHANGED <<transcript, actions, evidence, ret, nextId, child, process>>
    BY <1>7 DEF TurnDone, CallGoesOn
  <2>2. Busy /\ Busy' /\ ~Calling /\ ~Calling' BY <2>1 DEF Busy, Calling, Closing
  <2>3. Grown(transcript, transcript') BY <1>1, <2>1, GrownSame
  <2>4. child' = "running" => process' BY <2>1, <2>2, HeldBusy
  <2> QED BY <1>1, <1>2, <2>1, <2>2, <2>3, <2>4, PlainStep
<1> QED BY <1>3, <1>4, <1>5, <1>6, <1>7

\* What is raised on the way to an answer.
LEMMA RaisedSteps ==
    ASSUME SessionInv, TranscriptInv,
           \/ StartFails \/ SendTooLate \/ SendTooLarge \/ WriteBroken
           \/ WaitCancelled \/ WaitExited \/ WaitTimeout
    PROVE  TranscriptInv'
<1> USE DEF client, outside, work
<1>1. /\ \E class : Raise(class)
      /\ pc \in {"start", "send", "write", "wait"}
      /\ UNCHANGED <<actions, evidence, child, process>>
      /\ sent' = sent \/ WriteBroken
  BY DEF StartFails, SendTooLate, SendTooLarge, WriteBroken, WaitCancelled, WaitExited,
         WaitTimeout
<1>2. method # "tools/call" => sent' = sent BY <1>1 DEF WriteBroken, Issued
<1> QED BY <1>1, <1>2, RaiseStep

\* execute() goes on to its request, or refuses what it was given.
LEMMA ExecuteTraced ==
    ASSUME SessionInv, TranscriptInv, Execute
    PROVE  TranscriptInv'
<1>1. CASE Inner("local_authorization_failure") /\ UNCHANGED <<work, client, outside>>
  <2>1. pc = "execute" BY DEF Execute
  <2>2. method = "tools/call" BY <2>1 DEF SessionInv, Account, HandshakeFirst
  <2> QED BY <1>1, <2>1, <2>2, RaiseStep DEF Raise, work, client, outside
<1>2. CASE pc' = "send" /\ UNCHANGED <<method, ret, transcript>> BY <1>2, SendStep
<1> QED BY <1>1, <1>2 DEF Execute

\* A read: nothing yet, an answer accepted, or one rejected.
LEMMA DrainTraced ==
    ASSUME SessionInv, TranscriptInv, NEW k, Drain(k)
    PROVE  TranscriptInv'
<1> DEFINE read == SubSeq(pipe, 1, k)
           lines == SelectSeq(read, LAMBDA x : x # Half)
           r == lines[1]
           verdict == IF \E i \in DOMAIN lines : lines[i].body = "huge"
                      THEN "oversized_response" ELSE Verdict(r)
<1>1. pc = "drain" /\ UNCHANGED <<nextId, child, process>> BY DEF Drain, outside
<1>2. Sound(transcript) /\ ~transcript.raised BY DEF TranscriptInv
<1>3. CASE pc' = "wait" /\ UNCHANGED <<method, ret, mode, outcome, transcript, work>>
  <2>1. Busy /\ Busy' /\ (Calling' <=> Calling) BY <1>1, <1>3 DEF Busy, Calling, Closing
  <2>2. LastId' = LastId BY <1>1, <1>3 DEF LastId
  <2>3. Traced' BY <1>3, <2>1, <2>2, TracedFrame DEF TranscriptInv, work
  <2>4. child' = "running" => process' BY <1>1, <2>1, HeldBusy
  <2> QED BY <1>2, <1>3, <2>1, <2>3, <2>4, GoesOn
<1>4. CASE Raise(verdict) /\ UNCHANGED work
  BY <1>1, <1>4, RaiseStep DEF work
<1>5. CASE Accept(r) /\ UNCHANGED <<method, ret>>
  <2> HIDE DEF r
  <2>1. CASE method = "tools/call" BY <1>1, <1>5, <2>1, AcceptTraced
  <2>2. CASE method # "tools/call"
    <3>1. /\ pc' \in {"notify", "send", "turn"} /\ UNCHANGED work
          /\ transcript' = transcript \/ transcript' = AddAll(transcript, Captured)
      BY <1>5, <2>2 DEF Accept
    <3>2. Busy /\ Busy' /\ ~Calling /\ ~Calling'
      BY <1>1, <1>5, <2>2, <3>1 DEF Busy, Calling, Closing
    <3>3. Grown(transcript, transcript') /\ ~transcript'.raised
      <4>1. CASE transcript' = transcript BY <1>2, <4>1, GrownSame
      <4>2. CASE transcript' = AddAll(transcript, Captured)
        BY <1>2, <4>2, CapturedEvents, AddAllUncited
      <4> QED BY <3>1, <4>1, <4>2
    <3>4. nextId \in Nat BY DEF SessionInv, Account, Shapes
    <3>5. child' = "running" => process' BY <1>1, <3>2, HeldBusy
    <3>6. UNCHANGED <<actions, evidence, ret>> BY <1>5, <3>1 DEF work
    <3>7. nextId' \in Nat /\ nextId <= nextId' BY <1>1, <3>4
    <3> QED BY <3>1, <3>2, <3>3, <3>5, <3>6, <3>7, PlainStep
  <2> QED BY <2>1, <2>2
<1> QED BY <1>3, <1>4, <1>5 DEF Drain

\* The notification, a turn, the provider's answers and the looks before a call:
\* they go on, or turn to close().
LEMMA TurnSteps ==
    ASSUME SessionInv, TranscriptInv, SessionAssumption,
           \/ Notify \/ NotifyWrite \/ Turn
           \/ CallCancelled \/ CallBudget \/ AuthorizeRefuses
           \/ \E class \in ProviderFailures : ProviderFails(class)
           \/ \E final \in BOOLEAN : ProviderEnds(final)
           \/ \E s \in Offers : ProviderProposes(s)
    PROVE  TranscriptInv'
<1> USE DEF client, outside, work
<1>1. Sound(transcript) /\ ~transcript.raised BY DEF TranscriptInv
<1>2. nextId \in Nat /\ batch \in Seq(Proposals) BY DEF SessionInv, Account, Shapes
<1>3. /\ pc \in {"notify", "notifying", "turn", "provider", "exec", "budget", "authorize"}
      /\ UNCHANGED <<actions, evidence, sent, nextId, child, process>>
  BY DEF Notify, NotifyWrite, Turn, CallCancelled, CallBudget, AuthorizeRefuses,
         ProviderFails, ProviderEnds, ProviderProposes
<1>4. ASSUME Grown(transcript, transcript'), ~transcript'.raised, pc' = "close",
             ret' = "outcome"
      PROVE  TranscriptInv'
  BY <1>3, <1>4, EndStep
<1>5. ASSUME Grown(transcript, transcript'), ~transcript'.raised,
             pc' \in {"send", "notifying", "provider", "exec", "authorize"}, ret' = ret,
             pc' = "send" => method' # "tools/call"
      PROVE  TranscriptInv'
  <2>1. Busy /\ Busy' /\ ~Calling /\ ~Calling' BY <1>3, <1>5 DEF Busy, Calling, Closing
  <2>2. child' = "running" => process' BY <1>3, <2>1, HeldBusy
  <2>3. nextId' \in Nat /\ nextId <= nextId' BY <1>2, <1>3
  <2> QED BY <1>3, <1>5, <2>1, <2>2, <2>3, PlainStep
<1>6. ASSUME NEW class, Outer(transcript, class) PROVE TranscriptInv'
  BY <1>1, <1>4, <1>6, OuterGrows, OuterCloses
<1>7. ASSUME NEW u, Grown(transcript, u), NEW o \in Outcomes, ReturnChecked(u, o)
      PROVE  TranscriptInv'
  BY <1>1, <1>4, <1>7, ReturnCheckedGrows, ReturnCheckedCloses
<1>8. ASSUME NEW u, Grown(transcript, u), ~u.raised, NEW o, Return(u, o)
      PROVE  TranscriptInv'
  <2>1. Sound(u) BY <1>8 DEF Grown
  <2>2. Grown(u, transcript') /\ ~transcript'.raised BY <1>8, <2>1, ReturnGrows
  <2>3. Grown(transcript, transcript') BY <1>1, <1>8, <2>2, GrownOn
  <2>4. pc' = "close" /\ ret' = "outcome" BY <1>8 DEF Return
  <2> QED BY <1>4, <2>2, <2>3, <2>4
<1>9. ASSUME NEW o, Return(transcript, o) PROVE TranscriptInv'
  BY <1>1, <1>8, <1>9, GrownSame
<1>10. /\ Grown(transcript, Answered) /\ ~Answered.raised
       /\ Grown(transcript, Add(transcript, TurnEvent("provider_turn_start")))
       /\ ~Add(transcript, TurnEvent("provider_turn_start")).raised
  <2>1. \A name \in {"provider_turn_start", "provider_turn_response"} :
            Uncited(TurnEvent(name)) /\ ~Refused(TurnEvent(name))
    BY OtherEvents
  <2> QED BY <1>1, <2>1, AddUncited DEF Answered
<1>11. CASE Notify \/ NotifyWrite \/ AuthorizeRefuses
  <2>1. \/ \E class : Outer(transcript, class)
        \/ /\ pc' \in {"send", "notifying"} /\ UNCHANGED <<ret, transcript>>
           /\ pc' = "send" => method' = "tools/list"
    BY <1>11 DEF Notify, NotifyWrite, AuthorizeRefuses
  <2> QED BY <1>1, <1>5, <1>6, <2>1, GrownSame
<1>12. CASE Turn
  <2>1. \/ \E o : Return(transcript, o)
        \/ \E class : Outer(transcript, class)
        \/ /\ transcript' = Add(transcript, TurnEvent("provider_turn_start"))
           /\ pc' = "provider" /\ ret' = ret
    BY <1>12 DEF Turn
  <2> QED BY <1>5, <1>6, <1>9, <1>10, <2>1
<1>13. CASE \E class \in ProviderFailures : ProviderFails(class)
  BY <1>6, <1>13 DEF ProviderFails
<1>14. CASE \E final \in BOOLEAN : ProviderEnds(final)
  <2>1. \/ \E o : Return(transcript, o)
        \/ Return(Answered, "final")
    BY <1>14 DEF ProviderEnds
  <2> QED BY <1>8, <1>9, <1>10, <2>1
<1>15. CASE \E s \in Offers : ProviderProposes(s)
  <2>1. PICK s \in Offers : ProviderProposes(s) BY <1>15
  <2>2. s \in Seq(Proposals) BY DEF SessionAssumption
  <2> DEFINE refused == {i \in DOMAIN s : ~Acceptable(s, i)}
             first == Min(refused)
             o == IF s[first].act \in Actions THEN "duplicate" ELSE "rejected"
  <2>3. \/ Return(transcript, "deadline") \/ Return(Answered, "rejected")
        \/ /\ refused # {}
           /\ ReturnChecked(AddAll(Answered, Refusal(s, first)), o)
        \/ transcript' = Answered /\ pc' = "exec" /\ ret' = ret
    BY <2>1 DEF ProviderProposes
  <2>4. CASE refused # {} /\ ReturnChecked(AddAll(Answered, Refusal(s, first)), o)
    <3>1. refused \subseteq Nat BY <2>2
    <3>2. first \in refused
      <4> HIDE DEF refused
      <4> QED BY <2>4, <3>1, FirstRefused
    <3>3. first \in DOMAIN s BY <3>2
    <3>4. o \in Outcomes BY DEF Outcomes
    <3> HIDE DEF first, refused, o
    <3>5. Sound(Answered) BY <1>10 DEF Grown
    <3>6. Grown(Answered, AddAll(Answered, Refusal(s, first)))
      BY <2>2, <3>3, <3>5, RefusalEvents, AddAllUncited
    <3>7. Grown(transcript, AddAll(Answered, Refusal(s, first)))
      BY <1>1, <1>10, <3>6, GrownOn
    <3> QED BY <1>7, <2>4, <3>4, <3>7
  <2> HIDE DEF refused, first, o
  <2> QED BY <1>5, <1>8, <1>9, <1>10, <2>3, <2>4
<1>16. CASE CallCancelled \/ CallBudget
  <2>1. ASSUME NEW name \in {"cancelled", "deadline"}
        PROVE  Grown(transcript, AddAll(transcript, <<Plain(name), Skipped(Head(batch))>>))
    <3>1. PICK a, b : a = Plain(name) /\ b = Skipped(Head(batch)) OBVIOUS
    <3>2. Uncited(a) /\ Uncited(b) BY <3>1, PlainEvents, ProposalEvent DEF Skipped
    <3>3. /\ Len(<<a, b>>) = 2 /\ <<a, b>>[1] = a /\ <<a, b>>[2] = b
          /\ \A i \in 1..2 : i = 1 \/ i = 2
      OBVIOUS
    <3>4. Len(<<a, b>>) \in Nat /\ \A i \in 1..Len(<<a, b>>) : Uncited(<<a, b>>[i])
      BY <3>2, <3>3
    <3>5. Grown(transcript, AddAll(transcript, <<a, b>>)) BY <1>1, <3>4, AddAllUncited
    <3> QED BY <3>1, <3>5
  <2>2. \/ \E name \in {"cancelled", "deadline"} :
               ReturnChecked(AddAll(transcript, <<Plain(name), Skipped(Head(batch))>>), name)
        \/ pc' = "authorize" /\ UNCHANGED <<ret, transcript>>
    BY <1>16 DEF CallCancelled, CallBudget
  <2>3. {"cancelled", "deadline"} \subseteq Outcomes BY DEF Outcomes
  <2> QED BY <1>1, <1>5, <1>7, <2>1, <2>2, <2>3, GrownSame
<1> QED BY <1>11, <1>12, <1>13, <1>14, <1>15, <1>16

\* close() and what its callers do with its verdict.
LEMMA CloseSteps ==
    ASSUME SessionInv, TranscriptInv, CloseBegin \/ CloseTerminate \/ CloseKill
    PROVE  TranscriptInv'
<1> USE DEF client, outside, work
<1>1. Sound(transcript) /\ ~transcript.raised /\ Traced /\ Reported /\ Held
  BY DEF TranscriptInv
<1>2. /\ pc \in {"close", "terminating", "killing"}
      /\ pc' \in {"terminating", "killing", "closed"}
      /\ UNCHANGED <<ret, outcome, transcript, actions, evidence, sent, nextId, child, process>>
  BY DEF CloseBegin, CloseTerminate, CloseKill
<1>3. ~Busy /\ ~Busy' /\ ~Calling' BY <1>2 DEF Busy, Calling, Closing
<1>4. Traced' BY <1>1, <1>2, <1>3, TracedFrame
<1>5. Sound(transcript)' BY <1>1, <1>2 DEF Sound, ParseBoundedTranscript
<1>6. Reported' BY <1>1, <1>2 DEF Reported, Closing, Records
<1>7. child = "running" /\ nextId > 1 => process BY <1>1, <1>2 DEF Held
<1>8. child = "running" /\ nextId > 1 /\ pc' = "closed" => mode' = "unreaped"
  BY <1>7 DEF CloseBegin, CloseTerminate, CloseKill
<1>9. Held' BY <1>1, <1>2, <1>3, <1>7, <1>8 DEF Held, UnreapedAfterRequest, Closing
<1> QED BY <1>1, <1>2, <1>4, <1>5, <1>6, <1>9 DEF TranscriptInv

\* close() is over: start() reports the exit, _outcome() the verdict.
LEMMA ClosedStep ==
    ASSUME SessionInv, TranscriptInv, Closed
    PROVE  TranscriptInv'
<1> USE DEF client, outside, work
<1>1. Sound(transcript) /\ ~transcript.raised /\ Traced /\ Reported /\ Held
  BY DEF TranscriptInv
<1>2. pc = "closed" /\ UNCHANGED <<actions, evidence, sent, nextId, child>>
  BY DEF Closed
<1>3. ASSUME Grown(transcript, transcript'), pc' \in {"close", "done"} PROVE Traced'
  <2>1. ~Busy' /\ ~Calling' BY <1>3 DEF Busy, Calling, Closing
  <2> QED BY <1>1, <1>2, <1>3, <2>1, TracedGrown
<1>4. CASE ret = "startup"
  <2>1. Outer(transcript, "mcp_process_exit") BY <1>4 DEF Closed
  <2>2. pc' = "close" /\ ret' = "outcome" BY <2>1, OuterCloses
  <2>3. Grown(transcript, transcript') /\ ~transcript'.raised BY <1>1, <2>1, OuterGrows
  <2>4. Sound(transcript') BY <2>3 DEF Grown
  <2>5. Sound(transcript)' BY <2>4 DEF Sound, ParseBoundedTranscript
  <2>6. Len(sent') = Len(evidence') BY <1>1, <1>2, <1>4 DEF Reported, Closing
  <2>7. Reported' BY <2>6 DEF Reported
  <2>8. nextId' = 1 BY <1>1, <1>2, <1>4 DEF Held
  <2>9. Held' BY <2>2, <2>8 DEF Held, UnreapedAfterRequest, Busy, Closing
  <2> QED BY <1>3, <2>2, <2>3, <2>5, <2>7, <2>9 DEF TranscriptInv
<1>5. CASE ret # "startup"
  <2> DEFINE last == Event("outcome", [outcome |-> outcome])
             s == Append(Shutdown, last)
  <2>1. transcript' = AddAll(transcript, s) /\ pc' = "done" /\ UNCHANGED <<ret, outcome>>
    BY <1>5 DEF Closed
  <2>2. ret = "outcome" /\ mode \in {"none", "terminate", "kill", "unreaped"}
    BY <1>5 DEF SessionInv, AgentTypeOK
  <2>3. Uncited(last) /\ ~Refused(last) BY OtherEvents
  <2> HIDE DEF last
  <2>4. /\ Len(s) \in Nat
        /\ \A i \in 1..Len(s) : Uncited(s[i]) /\ ~Refused(s[i])
        /\ mode = "unreaped" => \E i \in 1..Len(s) : s[i].event = "shutdown_unreaped"
    BY <2>2, <2>3, LastEvents
  <2> HIDE DEF s
  <2>5. /\ Grown(transcript, transcript') /\ ~transcript'.raised
        /\ \A i \in 1..Len(s) : \/ \E j \in 1..i : Refused(s[j])
                                \/ transcript'.limited \/ Records(transcript', s[i].event)
    BY <1>1, <2>1, <2>4, AddAllUncited
  <2>6. mode = "unreaped" => transcript'.limited \/ Records(transcript', "shutdown_unreaped")
    <3>1. \A i \in 1..Len(s) : \A j \in 1..i : j \in 1..Len(s) BY <2>4
    <3> QED BY <2>4, <2>5, <3>1
  <2>7. Sound(transcript') BY <2>5 DEF Grown
  <2>8. Sound(transcript)' BY <2>7 DEF Sound, ParseBoundedTranscript
  <2>9. Reported'
    <3>1. SUFFICES ASSUME Len(sent') # Len(evidence')
                   PROVE  /\ ret' = "outcome" /\ outcome' \in {"failed", "cancelled"}
                          /\ transcript'.limited \/ Records(transcript', "failure")
      BY DEF Reported, Records
    <3>2. /\ outcome \in {"failed", "cancelled"}
          /\ transcript.limited \/ Records(transcript, "failure")
      BY <1>1, <1>2, <3>1 DEF Reported, Closing
    <3>3. transcript'.limited \/ Records(transcript', "failure")
      BY <1>1, <2>5, <3>2, RecordsKept
    <3> QED BY <2>1, <2>2, <3>2, <3>3
  <2>10. UnreapedAfterRequest'
    <3>1. child = "running" /\ nextId > 1 => mode = "unreaped"
      BY <1>1, <1>2, <2>2 DEF Held
    <3>2. child' = "running" /\ nextId' > 1 =>
              transcript'.limited \/ Records(transcript', "shutdown_unreaped")
      BY <1>2, <2>6, <3>1
    <3> QED BY <3>2 DEF UnreapedAfterRequest, Records
  <2>11. Held' BY <2>1, <2>2, <2>10 DEF Held, Closing
  <2> QED BY <1>3, <2>1, <2>5, <2>8, <2>9, <2>11 DEF TranscriptInv
<1> QED BY <1>4, <1>5
-----------------------------------------------------------------------------
(* The inductive invariant and what follows from it.                       *)

\* A new transcript is sound under every pair of limits.
LEMMA TranscriptStart ==
    ASSUME SessionAssumption, Init
    PROVE  TranscriptInv
<1>1. PICK c \in Caps : transcript = BoundedTranscript(c[1], c[2]) BY DEF Init
<1>2. PICK n, m : n = c[1] /\ m = c[2] OBVIOUS
<1>3. n \in Nat /\ n > 0 /\ m \in Nat /\ m >= Size(Terminal)
  BY <1>2 DEF SessionAssumption
<1>4. transcript = [events |-> <<>>, limited |-> FALSE, raised |-> FALSE,
                    count |-> n, bytes |-> m]
  BY <1>1, <1>2 DEF BoundedTranscript
<1>5. /\ transcript.events = <<>> /\ transcript.limited = FALSE
      /\ transcript.raised = FALSE /\ transcript.count = n /\ transcript.bytes = m
  BY <1>4
<1>6. Len(<<>>) = 0 /\ DOMAIN <<>> = {} /\ <<>> = [i \in 1..0 |-> <<>>[i]] OBVIOUS
<1>7. TranscriptBytes(<<>>) = 0 BY BytesEmpty
<1>8. Size(Terminal) \in Nat
  <2>1. SchemaHolds(Terminal) BY SchemaOf DEF Terminal, Plain
  <2> QED BY <2>1, SizeIsNat
<1>9. ParseBoundedTranscript(transcript)
  <2>1. \A i \in DOMAIN transcript.events :
            SchemaHolds(transcript.events[i]) /\ Provenance(transcript.events, i)
    BY <1>5, <1>6
  <2>2. {i \in DOMAIN transcript.events : transcript.events[i] = Terminal} = {}
    BY <1>5, <1>6
  <2> QED BY <1>3, <1>5, <1>6, <1>7, <2>1, <2>2 DEF ParseBoundedTranscript
<1>10. Sound(transcript)
  <2>1. /\ Len(transcript.events) = 0
        /\ transcript.events = [i \in 1..Len(transcript.events) |-> transcript.events[i]]
    BY <1>5, <1>6
  <2>2. /\ Len(transcript.events) < transcript.count
        /\ TranscriptBytes(transcript.events) + Size(Terminal) <= transcript.bytes
    BY <1>3, <1>5, <1>7, <1>8, <2>1
  <2> QED BY <1>3, <1>4, <1>5, <1>7, <1>9, <2>1, <2>2 DEF Sound
<1>11. Traced BY <1>5, <1>6 DEF Traced, Calling, Init
<1>12. Reported BY DEF Init, Reported, Closing
<1>13. Held BY DEF Init, Held, UnreapedAfterRequest, Closing
<1> QED BY <1>5, <1>10, <1>11, <1>12, <1>13 DEF TranscriptInv

\* Every step keeps the inductive invariant.
LEMMA TranscriptStep ==
    ASSUME SessionAssumption, SessionInv, TranscriptInv, [Next]_vars
    PROVE  TranscriptInv'
<1>1. CASE Run \/ Popen \/ Started \/ TurnDone \/ CallGoesOn BY <1>1, QuietSteps
<1>2. CASE \/ StartFails \/ SendTooLate \/ SendTooLarge \/ WriteBroken
           \/ WaitCancelled \/ WaitExited \/ WaitTimeout
  BY <1>2, RaisedSteps
<1>3. CASE Send \/ Write \/ WaitGoesOn BY <1>3, SendStep
<1>4. CASE \E k \in 0..Len(pipe) : Drain(k) BY <1>4, DrainTraced
<1>10. CASE Execute BY <1>10, ExecuteTraced
<1>5. CASE \/ Notify \/ NotifyWrite \/ Turn
           \/ CallCancelled \/ CallBudget \/ AuthorizeRefuses
           \/ \E class \in ProviderFailures : ProviderFails(class)
           \/ \E final \in BOOLEAN : ProviderEnds(final)
           \/ \E s \in Offers : ProviderProposes(s)
  BY <1>5, TurnSteps
<1>6. CASE Authorize BY <1>6, AuthorizeTraced
<1>7. CASE CloseBegin \/ CloseTerminate \/ CloseKill BY <1>7, CloseSteps
<1>8. CASE Closed BY <1>8, ClosedStep
<1>9. CASE ChildStep \/ Tick \/ Cancel \/ Returned \/ UNCHANGED vars
  BY <1>9, SurroundingsStep
  DEF ChildStep, ChildWrites, ChildStalls, ChildResumes, ChildStopsReading, ChildExits,
      Tick, Cancel, Returned, vars, control, work, client, outside
<1> QED
  BY <1>1, <1>2, <1>3, <1>4, <1>5, <1>6, <1>7, <1>8, <1>9, <1>10 DEF Next, RunStep

\* The inductive invariant of the transcript holds in every reachable state,
\* for every offer of the provider, every limit of the transcript and every
\* behaviour of the child: BoundedTranscript.add() and run() keep it.
THEOREM TranscriptInvariance == Spec => []TranscriptInv
<1>1. Init => TranscriptInv BY TranscriptStart, SessionAssumption
<1>2. SessionInv /\ TranscriptInv /\ [Next]_vars => TranscriptInv'
  BY TranscriptStep, SessionAssumption
<1> QED BY <1>1, <1>2, SessionInvariance, PTL DEF Spec

\* Whatever run() returns, parse_bounded_transcript() accepts its transcript:
\* within both limits, every event closed, every citation established before,
\* and cut by exactly one last event or not at all.
THEOREM TranscriptParses == Spec => []TranscriptAccepted
<1>1. TranscriptInv => TranscriptAccepted
  BY DEF TranscriptInv, Sound, TranscriptAccepted
<1> QED BY <1>1, TranscriptInvariance, PTL

\* A run that may have acted without evidence ends "failed" or "cancelled", and
\* its transcript holds the failure unless it was cut.
THEOREM AmbiguityReported == Spec => []AmbiguityIsReported
<1>1. TranscriptInv => AmbiguityIsReported
  BY DEF TranscriptInv, Reported, AmbiguityIsReported, Closing
<1> QED BY <1>1, TranscriptInvariance, PTL

\* A child that outlives a run in which a request was sent is reported as not
\* reaped by close(), unless the transcript was cut.
THEOREM UnreapedReported == Spec => []UnreapedAfterRequest
<1>1. TranscriptInv => UnreapedAfterRequest BY DEF TranscriptInv, Held
<1> QED BY <1>1, TranscriptInvariance, PTL
=============================================================================
