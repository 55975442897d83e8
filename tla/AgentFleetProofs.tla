--------------------------- MODULE AgentFleetProofs ---------------------------
(***************************************************************************)
(* Proofs about the fleet and its execution controllers: any agents, any   *)
(* number of rounds, any limits.                                           *)
(*                                                                         *)
(* What the properties say of an agent is a relation (AgentOK) between its *)
(* controller and its history, so that it is proved once for each thing    *)
(* that can happen to an agent, whatever the others do.                    *)
(***************************************************************************)
EXTENDS AgentFleet, SequenceTheorems, FiniteSetTheorems, TLAPS

Results == {"executed", "failed"}
Controllers ==
  [attemptsInWindow : Seq(Times), consecutiveFailures : 0..(MaxConsecutiveFailures - 1),
   openUntilTimestamp : Nat]

\* The run of failures that ends at the i-th of the results r, and the trips.
Run(r, i) == Cardinality({j \in 1..i : \A k \in j..i : r[k] = "failed"})
Trip(r, i) == r[i] = "failed" /\ Run(r, i) % MaxConsecutiveFailures = 0
Trips(r) == {i \in DOMAIN r : Trip(r, i)}
LastTrip(r) == CHOOSE i \in Trips(r) : \A j \in Trips(r) : j <= i

\* s is the end of t.
EndOf(s, t) ==
  /\ Len(s) <= Len(t)
  /\ \A k \in 1..Len(s) : s[k] = t[Len(t) - Len(s) + k]

Remembers(c, st, rs, t) ==
  /\ EndOf(c.attemptsInWindow, st)
  /\ \A i \in 1..(Len(st) - Len(c.attemptsInWindow)) : st[i] < t - WindowMs
  /\ c.consecutiveFailures =
       IF Len(rs) = 0 THEN 0 ELSE Run(rs, Len(rs)) % MaxConsecutiveFailures
  /\ c.openUntilTimestamp = IF Trips(rs) = {} THEN 0 ELSE st[LastTrip(rs)] + CooldownMs

Limited(st) ==
  \A i \in 1..Len(st) :
    i + MaxActionsPerWindow \in 1..Len(st) => st[i + MaxActionsPerWindow] - st[i] > WindowMs

Holds(st, rs) ==
  \A i \in 1..Len(rs) : Trip(rs, i) /\ i < Len(st) => st[i + 1] >= st[i] + CooldownMs

\* An agent with controller c that began actions at st, of which rs are over.
AgentOK(c, st, rs, running, at, t) ==
  /\ c \in Controllers /\ st \in Seq(Times) /\ rs \in Seq(Results) /\ t \in Times
  /\ Len(st) = Len(rs) + (IF running THEN 1 ELSE 0)
  /\ \A i, j \in 1..Len(st) : i <= j => st[i] <= st[j]
  /\ \A i \in 1..Len(st) : st[i] <= t
  /\ running => at = st[Len(st)]
  /\ Remembers(c, st, rs, t)
  /\ Limited(st)
  /\ Holds(st, rs)

-----------------------------------------------------------------------------
(* Operators on numbers, sets and sequences.                               *)

\* A set of natural numbers that is not empty has a least element, ...
LEMMA LeastNat ==
  ASSUME NEW T, T \subseteq Nat, T # {}
  PROVE  \E m \in T : \A n \in T : m <= n
<1> DEFINE R == OpToRel(<, Nat)
<1>1. IsWellFoundedOn(R, Nat)
  BY NatLessThanWellFounded
<1>2. \A x \in Nat, y \in Nat : <<y, x>> \in R <=> y < x
  BY DEF OpToRel
<1> HIDE DEF R
<1>3. PICK m \in T : \A n \in T : ~(<<n, m>> \in R)
  BY <1>1, WFMin
<1>4. m \in Nat /\ \A n \in T : n \in Nat /\ ~(n < m)
  BY <1>2, <1>3
<1> QED
  BY <1>4

\* ... and one that is bounded has a greatest.
LEMMA GreatestNat ==
  ASSUME NEW n \in Nat, NEW T, T \subseteq 1..n, T # {}
  PROVE  \E m \in T : \A i \in T : i <= m
<1> DEFINE D == {n - i : i \in T}
<1>1. D \subseteq Nat /\ D # {}
  <2>1. \A i \in T : i \in Nat /\ i <= n
    OBVIOUS
  <2>2. \A i \in T : n - i \in Nat
    BY <2>1
  <2> QED
    BY <2>2
<1>2. PICK d \in D : \A e \in D : d <= e
  <2> HIDE DEF D
  <2> QED
    BY <1>1, LeastNat
<1>3. PICK m \in T : d = n - m
  BY <1>2
<1>4. ASSUME NEW i \in T PROVE i <= m
  <2>1. n - i \in D
    OBVIOUS
  <2>2. d <= n - i
    BY <1>2, <2>1
  <2> QED
    BY <1>3, <2>2
<1> QED
  BY <1>4

LEMMA Multiple ==
  ASSUME NEW M \in Nat \ {0}, NEW d \in Int, M * d < M, -M < M * d
  PROVE  d = 0
<1>1. d >= 1 => M * d >= M
  OBVIOUS
<1>2. d <= -1 => M * d <= -M
  OBVIOUS
<1> QED
  BY <1>1, <1>2

LEMMA ModNext ==
  ASSUME NEW r \in Nat, NEW M \in Nat \ {0}
  PROVE  /\ r % M \in 0..(M - 1)
         /\ (r + 1) % M = IF (r % M) + 1 >= M THEN 0 ELSE (r % M) + 1
<1> DEFINE q1 == r \div M
           m1 == r % M
           q2 == (r + 1) \div M
           m2 == (r + 1) % M
<1>1. /\ q1 \in Int /\ m1 \in 0..(M - 1) /\ r = M * q1 + m1
      /\ q2 \in Int /\ m2 \in 0..(M - 1) /\ r + 1 = M * q2 + m2
  OBVIOUS
<1> HIDE DEF q1, m1, q2, m2
<1>2. M * (q2 - q1) = m1 + 1 - m2
  BY <1>1
<1>3. CASE m1 + 1 >= M
  <2>1. M * (q2 - q1 - 1) = -m2
    BY <1>1, <1>2, <1>3
  <2>2. q2 - q1 - 1 = 0
    BY <1>1, <2>1, Multiple
  <2> QED
    BY <1>1, <1>3, <2>1, <2>2 DEF m1, m2
<1>4. CASE ~(m1 + 1 >= M)
  <2>1. q2 - q1 = 0
    BY <1>1, <1>2, <1>4, Multiple
  <2> QED
    BY <1>1, <1>2, <1>4, <2>1 DEF m1, m2
<1> QED
  BY <1>3, <1>4

\* IsSuffix compares the sequences from their ends.
LEMMA SuffixEnds ==
  ASSUME NEW S, NEW s \in Seq(S), NEW t \in Seq(S)
  PROVE  IsSuffix(s, t) <=> EndOf(s, t)
<1>1. /\ Reverse(s) \in Seq(S) /\ Len(Reverse(s)) = Len(s)
      /\ \A k \in 1..Len(s) : Reverse(s)[k] = s[Len(s) - k + 1]
  BY DEF Reverse
<1>2. /\ Reverse(t) \in Seq(S) /\ Len(Reverse(t)) = Len(t)
      /\ \A k \in 1..Len(t) : Reverse(t)[k] = t[Len(t) - k + 1]
  BY DEF Reverse
<1> DEFINE u == SubSeq(Reverse(s), 1, Len(s))
           v == SubSeq(Reverse(t), 1, Len(s))
<1>3. IsSuffix(s, t) <=> Len(s) <= Len(t) /\ u = v
  BY <1>1, <1>2 DEF IsSuffix, IsPrefix
<1>4. CASE Len(s) <= Len(t)
  <2>0. Len(s) \in Nat /\ Len(t) \in Nat
    OBVIOUS
  <2>1. /\ u \in Seq(S) /\ Len(u) = Len(s)
        /\ \A k \in 1..Len(s) : u[k] = Reverse(s)[k]
    BY <1>1, <2>0, SubSeqProperties
  <2>2. /\ v \in Seq(S) /\ Len(v) = Len(s)
        /\ \A k \in 1..Len(s) : v[k] = Reverse(t)[k]
    BY <1>2, <1>4, <2>0, SubSeqProperties
  <2> HIDE DEF u, v
  <2>3. u = v <=> \A k \in 1..Len(s) : u[k] = v[k]
    BY <2>1, <2>2, SeqEqual
  <2>4. \A k \in 1..Len(s) : u[k] = s[Len(s) - k + 1] /\ v[k] = t[Len(t) - k + 1]
    BY <1>1, <1>2, <1>4, <2>0, <2>1, <2>2
  <2>5. ASSUME u = v PROVE EndOf(s, t)
    <3>1. ASSUME NEW k \in 1..Len(s) PROVE s[k] = t[Len(t) - Len(s) + k]
      <4>1. Len(s) - k + 1 \in 1..Len(s)
        BY <2>0
      <4>2. s[Len(s) - (Len(s) - k + 1) + 1] = t[Len(t) - (Len(s) - k + 1) + 1]
        BY <2>4, <2>5, <4>1
      <4>3. /\ Len(s) - (Len(s) - k + 1) + 1 = k
            /\ Len(t) - (Len(s) - k + 1) + 1 = Len(t) - Len(s) + k
        BY <2>0
      <4> QED
        BY <4>2, <4>3
    <3> QED
      BY <1>4, <3>1 DEF EndOf
  <2>6. ASSUME EndOf(s, t) PROVE u = v
    <3>1. ASSUME NEW k \in 1..Len(s) PROVE u[k] = v[k]
      <4>1. Len(s) - k + 1 \in 1..Len(s)
        BY <2>0
      <4>2. s[Len(s) - k + 1] = t[Len(t) - Len(s) + (Len(s) - k + 1)]
        BY <2>6, <4>1 DEF EndOf
      <4>3. Len(t) - Len(s) + (Len(s) - k + 1) = Len(t) - k + 1
        BY <2>0
      <4> QED
        BY <2>4, <4>2, <4>3
    <3> QED
      BY <2>3, <3>1
  <2> QED
    BY <1>3, <1>4, <2>5, <2>6
<1>5. CASE ~(Len(s) <= Len(t))
  BY <1>3, <1>5 DEF EndOf
<1> QED
  BY <1>4, <1>5

\* Instants in order, filtered, are the last of them: those from the first at or
\* after the cutoff.
LEMMA SinceIsEnd ==
  ASSUME NEW s \in Seq(Times), NEW cutoff \in Int,
         \A i, j \in 1..Len(s) : i <= j => s[i] <= s[j]
  PROVE  \E m \in 0..Len(s) :
           /\ Since(s, cutoff) = SubSeq(s, m + 1, Len(s))
           /\ \A i \in 1..m : s[i] < cutoff
<1> DEFINE n == Len(s)
<1>0. n \in Nat /\ s \in [1..n -> Times] /\ \A i \in 1..n : s[i] \in Int
  <2>1. n \in Nat /\ s \in [1..n -> Times]
    BY LenProperties
  <2>2. \A x \in Times : x \in Int
    BY ConstantsAssumption DEF Times
  <2> QED
    BY <2>1, <2>2
<1>1. PICK m \in 0..n : /\ \A i \in 1..m : s[i] < cutoff
                        /\ \A i \in (m + 1)..n : s[i] >= cutoff
  <2> DEFINE T == {j \in 0..n : \A i \in (j + 1)..n : s[i] >= cutoff}
  <2>1. T \subseteq Nat
    OBVIOUS
  <2>2. n \in T
    BY <1>0
  <2>3. PICK m \in T : \A j \in T : m <= j
    <3> HIDE DEF T
    <3> QED
      BY <2>1, <2>2, LeastNat
  <2>4. m \in 0..n /\ \A i \in (m + 1)..n : s[i] >= cutoff
    BY <2>3
  <2>5. ASSUME NEW i \in 1..m PROVE s[i] < cutoff
    <3>1. m - 1 \in 0..n /\ m - 1 \notin T
      <4>1. m \in 1..n /\ m - 1 \in 0..n /\ ~(m <= m - 1)
        BY <1>0, <2>4
      <4> HIDE DEF T
      <4> QED
        BY <2>3, <4>1
    <3>2. PICK k \in ((m - 1) + 1)..n : ~(s[k] >= cutoff)
      BY <3>1
    <3>3. k = m
      BY <1>0, <2>4, <3>2
    <3>4. s[i] <= s[m] /\ i \in 1..n /\ m \in 1..n
      BY <1>0, <2>4
    <3> QED
      BY <1>0, <3>2, <3>3, <3>4
  <2> QED
    BY <2>4, <2>5
<1> DEFINE step(f, i) == IF i = 0 THEN <<>>
                         ELSE IF s[i] >= cutoff THEN Append(f[i - 1], s[i])
                         ELSE f[i - 1]
           kept == CHOOSE f : f = [i \in 0..n |-> step(f, i)]
           g == [i \in 0..n |-> SubSeq(s, m + 1, i)]
<1>2. ASSUME NEW i \in 0..n PROVE g[i] = step(g, i)
  <2>1. \A k \in 0..n : g[k] = SubSeq(s, m + 1, k)
    OBVIOUS
  <2> HIDE DEF g
  <2>2. CASE i <= m
    <3>1. \A k \in 0..n : k <= m => g[k] = <<>>
      BY <1>0, <2>1, SubSeqEmpty
    <3>2. i # 0 => ~(s[i] >= cutoff) /\ i - 1 \in 0..n /\ i - 1 <= m
      BY <1>0, <1>1, <2>2
    <3> QED
      BY <2>2, <3>1, <3>2
  <2>3. CASE ~(i <= m)
    <3>1. i \in (m + 1)..n /\ m + 1 \in 1..n /\ i - 1 \in 0..n /\ i # 0
      BY <1>0, <2>3
    <3>2. SubSeq(s, m + 1, i) = SubSeq(s, m + 1, i - 1) \o <<s[i]>>
      BY <3>1, SubSeqRecursiveSecond
    <3>3. SubSeq(s, m + 1, i - 1) \in Seq(Times)
      BY <1>0, <3>1, SubSeqProperties
    <3>4. Append(SubSeq(s, m + 1, i - 1), s[i]) = SubSeq(s, m + 1, i - 1) \o <<s[i]>>
      BY <1>0, <3>1, <3>3, AppendIsConcat
    <3>5. s[i] >= cutoff
      BY <1>1, <3>1
    <3> QED
      BY <2>1, <3>1, <3>2, <3>4, <3>5
  <2> QED
    BY <2>2, <2>3
<1>3. g = [i \in 0..n |-> step(g, i)]
  <2> DEFINE h == [i \in 0..n |-> step(g, i)]
  <2>1. DOMAIN h = 0..n /\ \A i \in 0..n : h[i] = step(g, i)
    OBVIOUS
  <2>2. h = [i \in 0..n |-> h[i]] /\ g = [i \in 0..n |-> g[i]]
    OBVIOUS
  <2> HIDE DEF h, g, step
  <2>3. \A i \in 0..n : g[i] = h[i]
    BY <1>2, <2>1
  <2>4. g = h
    BY <2>2, <2>3
  <2> QED
    BY <2>4 DEF h
<1> HIDE DEF g
<1>4. kept = [i \in 0..n |-> step(kept, i)]
  BY <1>3
<1> HIDE DEF kept
<1>5. \A i \in 0..n : kept[i] = step(kept, i)
  BY <1>4
<1> DEFINE U == {i \in 0..n : kept[i] # g[i]}
<1>6. U = {}
  <2>1. SUFFICES ASSUME U # {} PROVE FALSE
    OBVIOUS
  <2>2. U \subseteq Nat
    OBVIOUS
  <2>3. PICK i \in U : \A j \in U : i <= j
    <3> HIDE DEF U
    <3> QED
      BY <2>1, <2>2, LeastNat
  <2>4. i \in 0..n /\ kept[i] # g[i]
    BY <2>3
  <2>5. i # 0
    BY <1>2, <1>5, <2>4
  <2>6. i - 1 \in 0..n /\ i - 1 \notin U
    BY <1>0, <2>3, <2>4, <2>5
  <2>7. kept[i - 1] = g[i - 1]
    BY <2>6
  <2>8. step(kept, i) = step(g, i)
    BY <2>7
  <2> HIDE DEF step
  <2> QED
    BY <1>2, <1>5, <2>4, <2>8
<1>7. kept[n] = g[n]
  <2>1. n \notin U
    <3> HIDE DEF U
    <3> QED
      BY <1>6
  <2> QED
    BY <1>0, <2>1
<1>8. Since(s, cutoff) = kept[n]
  BY DEF Since, kept
<1>9. g[n] = SubSeq(s, m + 1, n)
  BY <1>0 DEF g
<1> QED
  BY <1>1, <1>7, <1>8, <1>9

-----------------------------------------------------------------------------
(* Runs of failures.                                                       *)

LEMMA RunTyped ==
  ASSUME NEW r, NEW i \in Nat
  PROVE  Run(r, i) \in Nat
<1> DEFINE T == {j \in 1..i : \A k \in j..i : r[k] = "failed"}
<1>1. IsFiniteSet(1..i) /\ T \in SUBSET (1..i)
  BY FS_Interval
<1>2. IsFiniteSet(T)
  BY <1>1, FS_Subset
<1> QED
  BY <1>2, FS_CardinalityType DEF Run

\* A result that follows leaves the runs before it as they were.
LEMMA RunsKept ==
  ASSUME NEW r \in Seq(Results), NEW x \in Results, NEW i \in 0..Len(r)
  PROVE  Run(Append(r, x), i) = Run(r, i)
<1> DEFINE q == Append(r, x)
<1>1. \A k \in 1..Len(r) : q[k] = r[k]
  BY AppendProperties
<1> HIDE DEF q
<1>2. \A j \in 1..i : \A k \in j..i : q[k] = r[k]
  BY <1>1
<1>3. {j \in 1..i : \A k \in j..i : q[k] = "failed"}
        = {j \in 1..i : \A k \in j..i : r[k] = "failed"}
  BY <1>2
<1> QED
  BY <1>3 DEF Run, q

LEMMA RunAfter ==
  ASSUME NEW r \in Seq(Results), NEW x \in Results
  PROVE  /\ x = "failed" => Run(Append(r, x), Len(r) + 1) = Run(r, Len(r)) + 1
         /\ x # "failed" => Run(Append(r, x), Len(r) + 1) = 0
<1> DEFINE q == Append(r, x)
           n == Len(r)
           T == {j \in 1..n : \A k \in j..n : r[k] = "failed"}
           U == {j \in 1..(n + 1) : \A k \in j..(n + 1) : q[k] = "failed"}
<1>1. n \in Nat /\ (\A k \in 1..n : q[k] = r[k]) /\ q[n + 1] = x
  BY AppendProperties, LenProperties
<1> HIDE DEF q, n
<1>2. Run(r, n) = Cardinality(T) /\ Run(q, n + 1) = Cardinality(U)
  BY DEF Run
<1>3. ASSUME x = "failed" PROVE Run(q, n + 1) = Run(r, n) + 1
  <2>1. U = T \union {n + 1}
    <3>1. \A j \in U : j \in T \union {n + 1}
      BY <1>1
    <3>2. \A j \in T : j \in U
      <4> TAKE j \in T
      <4>1. ASSUME NEW k \in j..(n + 1) PROVE q[k] = "failed"
        <5>1. CASE k = n + 1
          BY <1>1, <1>3, <5>1
        <5>2. CASE k # n + 1
          <6>1. k \in j..n /\ k \in 1..n
            BY <1>1, <5>2
          <6> QED
            BY <1>1, <6>1
        <5> QED
          BY <5>1, <5>2
      <4> QED
        BY <1>1, <4>1
    <3>3. n + 1 \in U
      BY <1>1, <1>3
    <3> QED
      BY <3>1, <3>2, <3>3
  <2>2. IsFiniteSet(T)
    <3>1. IsFiniteSet(1..n) /\ T \in SUBSET (1..n)
      BY <1>1, FS_Interval
    <3> QED
      BY <3>1, FS_Subset
  <2>3. n + 1 \notin T
    BY <1>1
  <2> HIDE DEF T, U
  <2>4. Cardinality(T \union {n + 1}) = Cardinality(T) + 1
    BY <2>2, <2>3, FS_AddElement
  <2> QED
    BY <1>2, <2>1, <2>4
<1>4. ASSUME x # "failed" PROVE Run(q, n + 1) = 0
  <2>1. U = {}
    BY <1>1, <1>4
  <2> QED
    BY <1>2, <2>1, FS_EmptySet
<1> QED
  BY <1>3, <1>4 DEF q, n

\* The trips after one more result.
LEMMA TripsAfter ==
  ASSUME NEW r \in Seq(Results), NEW x \in Results
  PROVE  /\ \A i \in 1..Len(r) : Trip(Append(r, x), i) <=> Trip(r, i)
         /\ Trips(Append(r, x)) =
              IF Trip(Append(r, x), Len(r) + 1) THEN Trips(r) \union {Len(r) + 1}
              ELSE Trips(r)
<1> DEFINE q == Append(r, x)
           n == Len(r)
<1>1. /\ n \in Nat /\ (\A k \in 1..n : q[k] = r[k])
      /\ DOMAIN r = 1..n /\ DOMAIN q = 1..(n + 1)
  BY AppendProperties, LenProperties
<1>2. \A i \in 1..n : Run(q, i) = Run(r, i)
  BY <1>1, RunsKept
<1> HIDE DEF q, n
<1>3. \A i \in 1..n : Trip(q, i) <=> Trip(r, i)
  BY <1>1, <1>2 DEF Trip
<1>4. Trips(q) = IF Trip(q, n + 1) THEN Trips(r) \union {n + 1} ELSE Trips(r)
  <2>1. \A i \in 1..(n + 1) : i \in 1..n \/ i = n + 1
    BY <1>1
  <2>2. n + 1 \in 1..(n + 1) /\ \A i \in 1..n : i \in 1..(n + 1)
    BY <1>1
  <2> QED
    BY <1>1, <1>3, <2>1, <2>2 DEF Trips
<1> QED
  BY <1>3, <1>4 DEF q, n

-----------------------------------------------------------------------------
(* What can happen to an agent.                                            *)

Numbers(c, st, rs, t) ==
  /\ Len(st) \in Nat /\ Len(rs) \in Nat /\ t \in Nat /\ t \in Times
  /\ st \in Seq(Times) /\ rs \in Seq(Results)
  /\ DOMAIN st = 1..Len(st) /\ DOMAIN rs = 1..Len(rs)
  /\ \A i \in 1..Len(st) : st[i] \in Nat
  /\ Len(c.attemptsInWindow) \in Nat /\ c.attemptsInWindow \in Seq(Times)
  /\ \A i \in 1..Len(c.attemptsInWindow) : c.attemptsInWindow[i] \in Nat
  /\ MaxActionsPerWindow \in Nat /\ WindowMs \in Nat /\ CooldownMs \in Nat
  /\ MaxConsecutiveFailures \in Nat \ {0}
  /\ Times \subseteq Nat

LEMMA AgentNumbers ==
  ASSUME NEW c, NEW st, NEW rs, NEW running, NEW at, NEW t,
         AgentOK(c, st, rs, running, at, t)
  PROVE  Numbers(c, st, rs, t)
<1>1. Times \subseteq Nat
  BY ConstantsAssumption DEF Times
<1>2. /\ st \in Seq(Times) /\ rs \in Seq(Results) /\ c.attemptsInWindow \in Seq(Times)
      /\ t \in Nat /\ t \in Times
  BY <1>1 DEF AgentOK, Controllers
<1>3. /\ \A i \in 1..Len(st) : st[i] \in Nat
      /\ \A i \in 1..Len(c.attemptsInWindow) : c.attemptsInWindow[i] \in Nat
  BY <1>1, <1>2, ElementOfSeq
<1> QED
  BY <1>1, <1>2, <1>3, LenProperties, ConstantsAssumption DEF Numbers

\* Time passes.
LEMMA AgentLater ==
  ASSUME NEW c, NEW st, NEW rs, NEW running \in BOOLEAN, NEW at, NEW t,
         AgentOK(c, st, rs, running, at, t), NEW u \in Times, t <= u
  PROVE  AgentOK(c, st, rs, running, at, u)
<1>0. Numbers(c, st, rs, t)
  BY AgentNumbers, Zenon
<1>1. u \in Nat
  BY ConstantsAssumption DEF Times
<1>2. \A i \in 1..Len(st) : st[i] <= u
  BY <1>0, <1>1 DEF AgentOK, Numbers
<1>3. Remembers(c, st, rs, u)
  <2>1. \A i \in 1..(Len(st) - Len(c.attemptsInWindow)) : st[i] < u - WindowMs
    <3> TAKE i \in 1..(Len(st) - Len(c.attemptsInWindow))
    <3>1. st[i] < t - WindowMs /\ i \in 1..Len(st)
      BY <1>0 DEF AgentOK, Remembers, Numbers
    <3> QED
      BY <1>0, <1>1, <3>1 DEF Numbers
  <2> QED
    BY <2>1 DEF AgentOK, Remembers
<1> QED
  BY <1>2, <1>3 DEF AgentOK

\* What has left the window is forgotten.
LEMMA AgentPruned ==
  ASSUME NEW c, NEW st, NEW rs, NEW running \in BOOLEAN, NEW at,
         AgentOK(c, st, rs, running, at, now)
  PROVE  AgentOK(Pruned(c), st, rs, running, at, now)
<1> DEFINE s == c.attemptsInWindow
           kept == Since(s, now - WindowMs)
           f == Len(st) - Len(s)
<1>0. Len(s) \in Nat /\ Len(st) \in Nat /\ now - WindowMs \in Int /\ s \in Seq(Times)
  <2>1. Numbers(c, st, rs, now)
    BY AgentNumbers, Zenon
  <2> QED
    BY <2>1 DEF Numbers
<1>1. f \in Nat /\ \A k \in 1..Len(s) : s[k] = st[f + k]
  <2>1. EndOf(s, st)
    BY DEF AgentOK, Remembers
  <2> HIDE DEF s
  <2>2. Len(s) <= Len(st) /\ \A k \in 1..Len(s) : s[k] = st[Len(st) - Len(s) + k]
    BY <2>1 DEF EndOf
  <2> QED
    BY <1>0, <2>2
<1> HIDE DEF s
<1>2. \A i, j \in 1..Len(s) : i <= j => s[i] <= s[j]
  <2> TAKE i, j \in 1..Len(s)
  <2>1. f + i \in 1..Len(st) /\ f + j \in 1..Len(st)
    BY <1>0, <1>1
  <2>2. i <= j => f + i <= f + j
    BY <1>0, <1>1
  <2>3. i <= j => st[f + i] <= st[f + j]
    BY <2>1, <2>2 DEF AgentOK
  <2> QED
    BY <1>1, <2>3
<1>3. PICK m \in 0..Len(s) :
        /\ kept = SubSeq(s, m + 1, Len(s))
        /\ \A i \in 1..m : s[i] < now - WindowMs
  BY <1>0, <1>2, SinceIsEnd
<1>4. /\ kept \in Seq(Times) /\ Len(kept) = Len(s) - m
      /\ \A k \in 1..Len(kept) : kept[k] = s[m + k]
  <2>1. \A i \in (m + 1)..Len(s) : s[i] \in Times
    BY <1>0, ElementOfSeq
  <2>2. /\ SubSeq(s, m + 1, Len(s)) \in Seq(Times)
        /\ Len(SubSeq(s, m + 1, Len(s))) =
             IF m + 1 <= Len(s) THEN Len(s) - (m + 1) + 1 ELSE 0
        /\ \A i \in 1..(Len(s) - (m + 1) + 1) :
             SubSeq(s, m + 1, Len(s))[i] = s[(m + 1) + i - 1]
    BY <1>0, <2>1, SubSeqProperties
  <2> HIDE DEF kept
  <2> QED
    BY <1>0, <1>3, <2>2
<1> HIDE DEF kept
<1> DEFINE d == Pruned(c)
<1>5. /\ d \in Controllers /\ d.attemptsInWindow = kept
      /\ d.consecutiveFailures = c.consecutiveFailures
      /\ d.openUntilTimestamp = c.openUntilTimestamp
  BY <1>4 DEF Pruned, kept, s, AgentOK, Controllers
<1> HIDE DEF d
<1>6. EndOf(d.attemptsInWindow, st)
  <2>1. ASSUME NEW k \in 1..Len(kept) PROVE kept[k] = st[Len(st) - Len(kept) + k]
    <3>1. m + k \in 1..Len(s) /\ f + (m + k) = Len(st) - Len(kept) + k
      BY <1>0, <1>4
    <3> QED
      BY <1>1, <1>4, <3>1
  <2>2. Len(kept) <= Len(st)
    BY <1>0, <1>1, <1>4
  <2> QED
    BY <1>5, <2>1, <2>2 DEF EndOf
<1>7. ASSUME NEW i \in 1..(Len(st) - Len(d.attemptsInWindow))
      PROVE  st[i] < now - WindowMs
  <2>1. i \in 1..(f + m)
    BY <1>0, <1>4, <1>5
  <2>2. CASE i <= f
    <3>1. i \in 1..(Len(st) - Len(s))
      BY <1>0, <2>1, <2>2
    <3> QED
      BY <3>1 DEF AgentOK, Remembers, s
  <2>3. CASE ~(i <= f)
    <3>1. i - f \in 1..m /\ i - f \in 1..Len(s) /\ f + (i - f) = i
      BY <1>0, <1>1, <2>1, <2>3
    <3> QED
      BY <1>1, <1>3, <3>1
  <2> QED
    BY <2>2, <2>3
<1>8. Remembers(d, st, rs, now)
  BY <1>5, <1>6, <1>7 DEF AgentOK, Remembers
<1>9. AgentOK(d, st, rs, running, at, now)
  BY <1>5, <1>8 DEF AgentOK
<1> QED
  BY <1>9 DEF d

\* The greatest of the trips is one of the results.
LEMMA LastTripFound ==
  ASSUME NEW rs \in Seq(Results), Trips(rs) # {}
  PROVE  /\ LastTrip(rs) \in Trips(rs) /\ LastTrip(rs) \in 1..Len(rs)
         /\ \A j \in Trips(rs) : j <= LastTrip(rs)
<1>1. Trips(rs) \subseteq 1..Len(rs) /\ Len(rs) \in Nat
  BY DEF Trips
<1>2. \E i \in Trips(rs) : \A j \in Trips(rs) : j <= i
  BY <1>1, GreatestNat
<1> QED
  BY <1>1, <1>2 DEF LastTrip

\* An admitted agent begins an action: the breaker is closed, and of the last
\* actions as many as the limit are not all in the window.
LEMMA AgentBegins ==
  ASSUME NEW c, NEW st, NEW rs, NEW at,
         AgentOK(c, st, rs, FALSE, at, now), Admits(c)
  PROVE  AgentOK(Attempted(c), Append(st, now), rs, TRUE, now, now)
<1> DEFINE s == c.attemptsInWindow
           q == Append(st, now)
           n == Len(st)
<1>0. /\ Len(s) \in Nat /\ n \in Nat /\ s \in Seq(Times) /\ st \in Seq(Times)
      /\ now \in Times /\ now \in Nat /\ Len(rs) = n /\ rs \in Seq(Results)
      /\ \A i \in 1..n : st[i] \in Nat
  <2>1. Numbers(c, st, rs, now)
    BY AgentNumbers, Zenon
  <2>2. Len(st) = Len(rs)
    BY <2>1 DEF AgentOK, Numbers
  <2> QED
    BY <2>1, <2>2 DEF Numbers
<1>1. /\ q \in Seq(Times) /\ Len(q) = n + 1 /\ q[n + 1] = now
      /\ \A i \in 1..n : q[i] = st[i]
  BY <1>0, AppendProperties
<1> HIDE DEF q
<1>2. Len(s) <= n /\ \A k \in 1..Len(s) : s[k] = st[n - Len(s) + k]
  BY DEF AgentOK, Remembers, EndOf
<1>3. \A i \in 1..(n - Len(s)) : st[i] < now - WindowMs
  BY DEF AgentOK, Remembers
<1>4. ~(now < c.openUntilTimestamp) /\ ~(Len(s) >= MaxActionsPerWindow)
  BY DEF Admits, Open, RateExceeded
<1> DEFINE d == Attempted(c)
           z == Append(s, now)
<1>5. /\ z \in Seq(Times) /\ Len(z) = Len(s) + 1 /\ z[Len(s) + 1] = now
      /\ \A i \in 1..Len(s) : z[i] = s[i]
  BY <1>0, AppendProperties
<1> HIDE DEF z
<1>6. /\ d \in Controllers /\ d.attemptsInWindow = z
      /\ d.consecutiveFailures = c.consecutiveFailures
      /\ d.openUntilTimestamp = c.openUntilTimestamp
  BY <1>5 DEF Attempted, z, AgentOK, Controllers
<1> DEFINE k0 == Len(s)
<1>a. k0 \in Nat /\ Len(z) = k0 + 1 /\ k0 <= n /\ z[k0 + 1] = now
      /\ (\A i \in 1..k0 : z[i] = s[i]) /\ \A k \in 1..k0 : s[k] = st[n - k0 + k]
  BY <1>0, <1>2, <1>5
<1> HIDE DEF d, n, k0, s
<1>7. EndOf(z, q)
  <2>1. ASSUME NEW k \in 1..(k0 + 1) PROVE z[k] = q[(n + 1) - (k0 + 1) + k]
    <3>1. CASE k \in 1..k0
      <4>1. (n + 1) - (k0 + 1) + k = n - k0 + k /\ n - k0 + k \in 1..n
        BY <1>0, <1>a, <3>1
      <4> QED
        BY <1>1, <1>a, <3>1, <4>1
    <3>2. CASE k = k0 + 1
      <4>1. (n + 1) - (k0 + 1) + k = n + 1
        BY <1>0, <1>a, <3>2
      <4> QED
        BY <1>1, <1>a, <3>2, <4>1
    <3> QED
      BY <1>a, <3>1, <3>2
  <2>2. Len(z) <= Len(q)
    BY <1>0, <1>1, <1>a
  <2> QED
    BY <1>1, <1>a, <2>1, <2>2 DEF EndOf
<1>8. \A i \in 1..(Len(q) - Len(z)) : q[i] < now - WindowMs
  <2>1. Len(q) - Len(z) = n - k0
    BY <1>0, <1>1, <1>a
  <2>2. ASSUME NEW i \in 1..(n - k0) PROVE q[i] < now - WindowMs
    <3>1. i \in 1..n
      BY <1>0, <1>a
    <3>2. st[i] < now - WindowMs
      BY <1>3 DEF k0
    <3> QED
      BY <1>1, <3>1, <3>2
  <2> QED
    BY <2>1, <2>2
<1> USE DEF n, s
<1>9. d.openUntilTimestamp = IF Trips(rs) = {} THEN 0 ELSE q[LastTrip(rs)] + CooldownMs
  <2>1. Trips(rs) # {} => q[LastTrip(rs)] = st[LastTrip(rs)]
    BY <1>0, <1>1, LastTripFound
  <2> QED
    BY <1>6, <2>1 DEF AgentOK, Remembers
<1>10. Remembers(d, q, rs, now)
  BY <1>6, <1>7, <1>8, <1>9 DEF AgentOK, Remembers
<1>11. Limited(q)
  <2> SUFFICES ASSUME NEW i \in 1..(n + 1), i + MaxActionsPerWindow \in 1..(n + 1)
               PROVE  q[i + MaxActionsPerWindow] - q[i] > WindowMs
    BY <1>1 DEF Limited
  <2>1. MaxActionsPerWindow \in Nat /\ WindowMs \in Nat /\ MaxActionsPerWindow # 0
    BY <1>0, <1>4, ConstantsAssumption
  <2>2. CASE i + MaxActionsPerWindow \in 1..n
    <3>1. i \in 1..n
      BY <1>0, <2>1, <2>2
    <3>2. st[i + MaxActionsPerWindow] - st[i] > WindowMs
      BY <2>2, <3>1 DEF AgentOK, Limited
    <3> QED
      BY <1>1, <2>2, <3>1, <3>2
  <2>3. CASE i + MaxActionsPerWindow = n + 1
    <3>1. i \in 1..(n - Len(s)) /\ i \in 1..n
      BY <1>0, <1>4, <2>1, <2>3
    <3>2. st[i] < now - WindowMs
      BY <1>3, <3>1
    <3> QED
      BY <1>0, <1>1, <2>1, <2>3, <3>1, <3>2
  <2> QED
    BY <1>0, <2>2, <2>3
<1>12. Holds(q, rs)
  <2> SUFFICES ASSUME NEW i \in 1..n, Trip(rs, i)
               PROVE  q[i + 1] >= q[i] + CooldownMs
    BY <1>0, <1>1 DEF Holds
  <2>1. CASE i < n
    <3>1. st[i + 1] >= st[i] + CooldownMs
      BY <1>0, <2>1 DEF AgentOK, Holds
    <3> QED
      BY <1>0, <1>1, <2>1, <3>1
  <2>2. CASE i = n
    <3>1. DOMAIN rs = 1..n
      BY <1>0, LenProperties
    <3>2. i \in Trips(rs)
      BY <3>1 DEF Trips
    <3>3. LastTrip(rs) = n
      BY <1>0, <2>2, <3>2, LastTripFound
    <3>4. c.openUntilTimestamp = st[n] + CooldownMs
      BY <3>2, <3>3 DEF AgentOK, Remembers
    <3>5. st[n] \in Nat /\ q[n] = st[n] /\ CooldownMs \in Nat
      BY <1>0, <1>1, <2>2, ConstantsAssumption
    <3> QED
      BY <1>0, <1>1, <1>4, <2>2, <3>4, <3>5
  <2> QED
    BY <1>0, <2>1, <2>2
<1>13. \A i, j \in 1..(n + 1) : i <= j => q[i] <= q[j]
  <2>1. \A i \in 1..n : st[i] <= now
    BY DEF AgentOK
  <2>2. \A i, j \in 1..n : i <= j => st[i] <= st[j]
    BY DEF AgentOK
  <2> TAKE i, j \in 1..(n + 1)
  <2>3. CASE j \in 1..n
    BY <1>0, <1>1, <2>2, <2>3
  <2>4. CASE j = n + 1 /\ i \in 1..n
    BY <1>0, <1>1, <2>1, <2>4
  <2>5. CASE j = n + 1 /\ i = n + 1
    BY <1>0, <1>1, <2>5
  <2> QED
    BY <1>0, <2>3, <2>4, <2>5
<1>14. \A i \in 1..(n + 1) : q[i] <= now
  <2>1. \A i \in 1..n : st[i] <= now
    BY DEF AgentOK
  <2> QED
    BY <1>0, <1>1, <2>1
<1>15. AgentOK(d, q, rs, TRUE, now, now)
  BY <1>0, <1>1, <1>6, <1>10, <1>11, <1>12, <1>13, <1>14 DEF AgentOK
<1> QED
  BY <1>15 DEF d, q

\* The failures counted are those of the run that ends the results.
LEMMA Counted ==
  ASSUME NEW c, NEW st, NEW rs, NEW running, NEW at, NEW t,
         AgentOK(c, st, rs, running, at, t)
  PROVE  /\ Run(rs, Len(rs)) \in Nat
         /\ c.consecutiveFailures = Run(rs, Len(rs)) % MaxConsecutiveFailures
<1>1. Numbers(c, st, rs, t)
  BY AgentNumbers, Zenon
<1>2. Run(rs, Len(rs)) \in Nat
  BY <1>1, RunTyped DEF Numbers
<1>3. c.consecutiveFailures =
        IF Len(rs) = 0 THEN 0 ELSE Run(rs, Len(rs)) % MaxConsecutiveFailures
  BY DEF AgentOK, Remembers
<1>4. ASSUME Len(rs) = 0 PROVE Run(rs, Len(rs)) % MaxConsecutiveFailures = 0
  <2>1. {j \in 1..0 : \A k \in j..0 : rs[k] = "failed"} = {}
    OBVIOUS
  <2>2. Run(rs, 0) = 0
    BY <2>1, FS_EmptySet DEF Run
  <2> QED
    BY <1>1, <1>4, <2>2 DEF Numbers
<1> QED
  BY <1>2, <1>3, <1>4

\* The history of an agent after an action is over.
LEMMA ResultAdded ==
  ASSUME NEW c, NEW st, NEW rs, NEW at, AgentOK(c, st, rs, TRUE, at, now),
         NEW x \in Results, NEW d \in Controllers,
         d.attemptsInWindow = c.attemptsInWindow,
         d.consecutiveFailures =
           Run(Append(rs, x), Len(rs) + 1) % MaxConsecutiveFailures,
         d.openUntilTimestamp =
           IF Trip(Append(rs, x), Len(rs) + 1) THEN st[Len(st)] + CooldownMs
           ELSE c.openUntilTimestamp
  PROVE  AgentOK(d, st, Append(rs, x), FALSE, at, now)
<1> DEFINE q == Append(rs, x)
           n == Len(rs)
<1>1. Numbers(c, st, rs, now)
  BY AgentNumbers, Zenon
<1>2. /\ n \in Nat /\ Len(st) = n + 1 /\ rs \in Seq(Results) /\ DOMAIN rs = 1..n
  BY <1>1 DEF AgentOK, Numbers
<1>3. /\ q \in Seq(Results) /\ Len(q) = n + 1 /\ q[n + 1] = x /\ DOMAIN q = 1..(n + 1)
  BY <1>2, AppendProperties, LenProperties
<1>4. /\ \A i \in 1..n : Trip(q, i) <=> Trip(rs, i)
      /\ Trips(q) = IF Trip(q, n + 1) THEN Trips(rs) \union {n + 1} ELSE Trips(rs)
  BY <1>2, TripsAfter
<1> HIDE DEF q, n
<1>5. d.openUntilTimestamp = IF Trips(q) = {} THEN 0 ELSE st[LastTrip(q)] + CooldownMs
  <2>1. CASE Trip(q, n + 1)
    <3>1. n + 1 \in Trips(q)
      BY <1>4, <2>1
    <3>2. LastTrip(q) \in 1..(n + 1) /\ n + 1 <= LastTrip(q)
      BY <1>3, <3>1, LastTripFound
    <3>3. LastTrip(q) = n + 1
      BY <1>2, <3>2
    <3> QED
      BY <1>2, <2>1, <3>1, <3>3 DEF q, n
  <2>2. CASE ~Trip(q, n + 1)
    <3>1. Trips(q) = Trips(rs)
      BY <1>4, <2>2
    <3>2. LastTrip(q) = LastTrip(rs)
      BY <3>1 DEF LastTrip
    <3>3. c.openUntilTimestamp =
            IF Trips(rs) = {} THEN 0 ELSE st[LastTrip(rs)] + CooldownMs
      BY DEF AgentOK, Remembers
    <3> QED
      BY <2>2, <3>1, <3>2, <3>3 DEF q, n
  <2> QED
    BY <2>1, <2>2
<1>6. Remembers(d, st, q, now)
  <2>1. Len(q) # 0
    BY <1>2, <1>3
  <2>2. d.consecutiveFailures =
          IF Len(q) = 0 THEN 0 ELSE Run(q, Len(q)) % MaxConsecutiveFailures
    BY <1>3, <2>1 DEF q, n
  <2>3. /\ EndOf(c.attemptsInWindow, st)
        /\ \A i \in 1..(Len(st) - Len(c.attemptsInWindow)) : st[i] < now - WindowMs
    BY DEF AgentOK, Remembers
  <2> QED
    BY <1>5, <2>2, <2>3 DEF Remembers
<1>7. Holds(st, q)
  <2> SUFFICES ASSUME NEW i \in 1..(n + 1), Trip(q, i), i < n + 1
               PROVE  st[i + 1] >= st[i] + CooldownMs
    BY <1>2, <1>3 DEF Holds
  <2>1. i \in 1..n
    BY <1>2
  <2>2. Holds(st, rs)
    BY DEF AgentOK
  <2> QED
    BY <1>2, <1>4, <2>1, <2>2 DEF Holds, n
<1>8. AgentOK(d, st, q, FALSE, at, now)
  <2>1. Len(st) = Len(q) + 0
    BY <1>2, <1>3
  <2> QED
    BY <1>3, <1>6, <1>7, <2>1 DEF AgentOK
<1> QED
  BY <1>8 DEF q

LEMMA AgentSucceeds ==
  ASSUME NEW c, NEW st, NEW rs, NEW at, AgentOK(c, st, rs, TRUE, at, now)
  PROVE  AgentOK(Succeeded(c), st, Append(rs, "executed"), FALSE, at, now)
<1> DEFINE d == Succeeded(c)
           q == Append(rs, "executed")
<1>1. Numbers(c, st, rs, now)
  BY AgentNumbers, Zenon
<1>2. /\ d \in Controllers /\ d.attemptsInWindow = c.attemptsInWindow
      /\ d.consecutiveFailures = 0 /\ d.openUntilTimestamp = c.openUntilTimestamp
  <2>1. c \in Controllers
    BY DEF AgentOK
  <2>2. 0 \in 0..(MaxConsecutiveFailures - 1)
    BY <1>1 DEF Numbers
  <2> QED
    BY <2>1, <2>2 DEF Succeeded, Controllers
<1>3. rs \in Seq(Results) /\ "executed" \in Results
  BY <1>1 DEF Numbers, Results
<1>4. Run(q, Len(rs) + 1) = 0
  BY <1>3, RunAfter
<1>5. Run(q, Len(rs) + 1) % MaxConsecutiveFailures = 0
  BY <1>1, <1>4 DEF Numbers
<1>6. ~Trip(q, Len(rs) + 1)
  <2>1. q[Len(rs) + 1] = "executed"
    BY <1>3, AppendProperties
  <2> QED
    BY <2>1 DEF Trip
<1> HIDE DEF d
<1>7. AgentOK(d, st, q, FALSE, at, now)
  BY <1>2, <1>3, <1>5, <1>6, ResultAdded
<1> QED
  BY <1>7 DEF d

\* The instant the breaker is given is that at which the action began.
LEMMA AgentFails ==
  ASSUME NEW c, NEW st, NEW rs, NEW at, AgentOK(c, st, rs, TRUE, at, now)
  PROVE  AgentOK(Failed(c, at), st, Append(rs, "failed"), FALSE, at, now)
<1> DEFINE d == Failed(c, at)
           q == Append(rs, "failed")
           M == MaxConsecutiveFailures
           failures == c.consecutiveFailures + 1
<1>1. Numbers(c, st, rs, now)
  BY AgentNumbers, Zenon
<1>2. rs \in Seq(Results) /\ "failed" \in Results /\ M \in Nat \ {0}
  BY <1>1 DEF Numbers, Results
<1>3. Run(rs, Len(rs)) \in Nat /\ c.consecutiveFailures = Run(rs, Len(rs)) % M
  BY Counted, Zenon
<1>4. Run(q, Len(rs) + 1) = Run(rs, Len(rs)) + 1
  BY <1>2, RunAfter
<1>5. Run(q, Len(rs) + 1) % M = IF failures >= M THEN 0 ELSE failures
  BY <1>2, <1>3, <1>4, ModNext
<1>6. failures \in 1..M
  BY <1>2 DEF AgentOK, Controllers
<1>7. Trip(q, Len(rs) + 1) <=> failures >= M
  <2>1. q[Len(rs) + 1] = "failed"
    BY <1>2, AppendProperties
  <2> QED
    BY <1>5, <1>6, <2>1 DEF Trip
<1>8. at = st[Len(st)] /\ at \in Nat /\ CooldownMs \in Nat
  <2>1. Len(st) \in 1..Len(st)
    BY <1>1 DEF AgentOK, Numbers
  <2> QED
    BY <1>1, <2>1 DEF AgentOK, Numbers
<1>9. CASE failures >= M
  <2>1. d = [c EXCEPT !.consecutiveFailures = 0, !.openUntilTimestamp = at + CooldownMs]
    BY <1>9 DEF Failed
  <2>2. /\ d \in Controllers /\ d.attemptsInWindow = c.attemptsInWindow
        /\ d.consecutiveFailures = 0 /\ d.openUntilTimestamp = at + CooldownMs
    <3>1. c \in Controllers
      BY DEF AgentOK
    <3>2. 0 \in 0..(M - 1) /\ at + CooldownMs \in Nat
      BY <1>2, <1>8
    <3> HIDE DEF d, M
    <3> QED
      BY <2>1, <3>1, <3>2 DEF Controllers, M
  <2> HIDE DEF d
  <2>3. AgentOK(d, st, q, FALSE, at, now)
    <3>1. /\ d.consecutiveFailures = Run(q, Len(rs) + 1) % M
          /\ d.openUntilTimestamp =
               IF Trip(q, Len(rs) + 1) THEN st[Len(st)] + CooldownMs
               ELSE c.openUntilTimestamp
      BY <1>5, <1>7, <1>8, <1>9, <2>2
    <3> QED
      BY <1>2, <2>2, <3>1, ResultAdded
  <2> QED
    BY <2>3 DEF d
<1>10. CASE ~(failures >= M)
  <2>1. d = [c EXCEPT !.consecutiveFailures = failures]
    BY <1>10 DEF Failed
  <2>2. /\ d \in Controllers /\ d.attemptsInWindow = c.attemptsInWindow
        /\ d.consecutiveFailures = failures /\ d.openUntilTimestamp = c.openUntilTimestamp
    BY <1>2, <1>6, <1>10, <2>1 DEF AgentOK, Controllers
  <2> HIDE DEF d
  <2>3. AgentOK(d, st, q, FALSE, at, now)
    <3>1. /\ d.consecutiveFailures = Run(q, Len(rs) + 1) % M
          /\ d.openUntilTimestamp =
               IF Trip(q, Len(rs) + 1) THEN st[Len(st)] + CooldownMs
               ELSE c.openUntilTimestamp
      BY <1>5, <1>7, <1>10, <2>2
    <3> QED
      BY <1>2, <2>2, <3>1, ResultAdded
  <2> QED
    BY <2>3 DEF d
<1> QED
  BY <1>9, <1>10

-----------------------------------------------------------------------------
(* The theorems.                                                           *)

FleetOK ==
  /\ TypeOK
  /\ \A a \in Agents :
       AgentOK(controller[a], starts[a], results[a], pc[a] = "running", startedAt[a], now)

LEMMA FleetSays == FleetOK => IndInv
<1> SUFFICES ASSUME FleetOK PROVE IndInv
  OBVIOUS
<1>1. \A a \in Agents :
        AgentOK(controller[a], starts[a], results[a], pc[a] = "running", startedAt[a], now)
  BY DEF FleetOK
<1>2. ASSUME NEW a \in Agents
      PROVE  /\ starts[a] \in Seq(Times) /\ results[a] \in Seq(Results)
             /\ controller[a].attemptsInWindow \in Seq(Times)
             /\ DOMAIN starts[a] = 1..Len(starts[a])
             /\ DOMAIN results[a] = 1..Len(results[a])
  <2>1. Numbers(controller[a], starts[a], results[a], now)
    BY <1>1, AgentNumbers, Zenon
  <2> QED
    BY <2>1 DEF Numbers
<1>3. \A a, i : FailureRun(a, i) = Run(results[a], i)
  BY DEF FailureRun, Run
<1>4. \A a, i : Tripped(a, i) <=> Trip(results[a], i)
  BY <1>3 DEF Tripped, Trip
<1>5. TypeOK
  BY DEF FleetOK
<1>6. StartsInOrder
  BY <1>1, <1>2 DEF StartsInOrder, AgentOK
<1>7. RateLimited
  BY <1>1, <1>2 DEF RateLimited, AgentOK, Limited
<1>8. BreakerHolds
  BY <1>1, <1>2, <1>4 DEF BreakerHolds, AgentOK, Holds
<1>9. ControllerMatchesHistory
  <2>1. ASSUME NEW a \in Agents
        PROVE  LET state == controller[a]
                   trips == {i \in DOMAIN results[a] : Tripped(a, i)}
                   n == Len(results[a])
                   forgotten == Len(starts[a]) - Len(state.attemptsInWindow)
               IN /\ IsSuffix(state.attemptsInWindow, starts[a])
                  /\ \A i \in 1..forgotten : starts[a][i] < now - WindowMs
                  /\ state.consecutiveFailures =
                       IF n = 0 THEN 0 ELSE FailureRun(a, n) % MaxConsecutiveFailures
                  /\ state.openUntilTimestamp =
                       IF trips = {} THEN 0
                       ELSE starts[a][CHOOSE i \in trips : \A j \in trips : j <= i]
                              + CooldownMs
    <3>1. Remembers(controller[a], starts[a], results[a], now)
      BY <1>1 DEF AgentOK
    <3>2. IsSuffix(controller[a].attemptsInWindow, starts[a])
      BY <1>2, <3>1, SuffixEnds DEF Remembers
    <3>3. {i \in DOMAIN results[a] : Tripped(a, i)} = Trips(results[a])
      BY <1>4 DEF Trips
    <3>4. LastTrip(results[a]) =
            CHOOSE i \in Trips(results[a]) : \A j \in Trips(results[a]) : j <= i
      BY DEF LastTrip
    <3> QED
      BY <1>3, <3>1, <3>2, <3>3, <3>4 DEF Remembers
  <2> QED
    BY <2>1 DEF ControllerMatchesHistory
<1> QED
  BY <1>5, <1>6, <1>7, <1>8, <1>9 DEF IndInv

LEMMA FleetInit == Init => FleetOK
<1> SUFFICES ASSUME Init PROVE FleetOK
  OBVIOUS
<1>1. <<>> \in Seq(Times) /\ <<>> \in Seq(Results) /\ <<>> \in Seq(Statuses)
      /\ Len(<<>>) = 0
  BY EmptySeq
<1>2. 0 \in Times /\ 0 \in 0..(MaxConsecutiveFailures - 1) /\ 0 \in 0..Rounds
  BY ConstantsAssumption DEF Times
<1>3. TypeOK
  <2>1. controller \in [Agents -> Controllers]
    BY <1>1, <1>2 DEF Init, Controllers
  <2>2. /\ starts \in [Agents -> Seq(Times)] /\ results \in [Agents -> Seq(Results)]
        /\ events \in [Agents -> Seq(Statuses)]
    BY <1>1 DEF Init
  <2>3. /\ now \in Times /\ iteration \in 0..Rounds /\ startedAt \in [Agents -> Times]
        /\ pc \in [Agents -> {"idle", "running", "returned"}]
    BY <1>2 DEF Init
  <2>4. \A a \in Agents :
          /\ Len(starts[a]) = Len(results[a]) + (IF pc[a] = "running" THEN 1 ELSE 0)
          /\ Len(events[a]) = iteration - (IF pc[a] = "running" THEN 1 ELSE 0)
    <3> TAKE a \in Agents
    <3>1. starts[a] = <<>> /\ results[a] = <<>> /\ events[a] = <<>>
      BY DEF Init
    <3>2. Len(starts[a]) = 0 /\ Len(results[a]) = 0 /\ Len(events[a]) = 0
      BY <1>1, <3>1
    <3>3. iteration = 0 /\ pc[a] # "running"
      BY DEF Init
    <3>4. Len(starts[a]) = Len(results[a]) + (IF pc[a] = "running" THEN 1 ELSE 0)
      BY <3>2, <3>3
    <3>5. Len(events[a]) = iteration - (IF pc[a] = "running" THEN 1 ELSE 0)
      <4>1. 0 = 0 - 0
        OBVIOUS
      <4> QED
        BY <3>2, <3>3, <4>1, Zenon
    <3> QED
      BY <3>4, <3>5
  <2> QED
    BY <2>1, <2>2, <2>3, <2>4 DEF TypeOK, Controllers, Results
<1>4. ASSUME NEW a \in Agents
      PROVE  AgentOK(controller[a], starts[a], results[a], pc[a] = "running",
                     startedAt[a], now)
  <2>1. /\ controller[a] = [attemptsInWindow |-> <<>>, consecutiveFailures |-> 0,
                            openUntilTimestamp |-> 0]
        /\ starts[a] = <<>> /\ results[a] = <<>> /\ pc[a] # "running" /\ now = 0
    BY DEF Init
  <2>2. controller[a] \in Controllers /\ controller[a].attemptsInWindow = <<>>
        /\ controller[a].consecutiveFailures = 0 /\ controller[a].openUntilTimestamp = 0
    BY <1>1, <1>2, <2>1 DEF Controllers
  <2>3. Trips(<<>>) = {}
    BY DEF Trips
  <2>4. Remembers(controller[a], <<>>, <<>>, 0)
    BY <1>1, <2>2, <2>3 DEF Remembers, EndOf
  <2>5. Limited(<<>>) /\ Holds(<<>>, <<>>)
    BY <1>1 DEF Limited, Holds
  <2> QED
    BY <1>1, <1>2, <2>1, <2>2, <2>4, <2>5 DEF AgentOK
<1> QED
  BY <1>3, <1>4 DEF FleetOK

LEMMA FleetTick ==
  ASSUME FleetOK, Tick
  PROVE  FleetOK'
<1>1. now' \in Times /\ now <= now'
  BY ConstantsAssumption DEF FleetOK, TypeOK, Tick, Times
<1>2. UNCHANGED <<iteration, controller, pc, startedAt, events, starts, results>>
  BY DEF Tick
<1>3. TypeOK'
  BY <1>1, <1>2 DEF FleetOK, TypeOK
<1>4. \A a \in Agents :
        AgentOK(controller[a], starts[a], results[a], pc[a] = "running", startedAt[a], now')
  BY <1>1, AgentLater DEF FleetOK
<1> QED
  BY <1>2, <1>3, <1>4 DEF FleetOK

LEMMA FleetBegins ==
  ASSUME FleetOK, BeginRound
  PROVE  FleetOK'
<1>0. iteration \in Nat /\ iteration' = iteration + 1 /\ iteration' \in 0..Rounds
  BY ConstantsAssumption DEF FleetOK, TypeOK, BeginRound
<1>1. ASSUME NEW a \in Agents
      PROVE  /\ pc[a] # "running"
             /\ AgentOK(Pruned(controller[a]), starts[a], results[a], FALSE, startedAt[a], now)
  <2>1. pc[a] # "running"
    BY DEF BeginRound, AtBarrier
  <2>2. AgentOK(controller[a], starts[a], results[a], FALSE, startedAt[a], now)
    BY <2>1 DEF FleetOK, AgentOK
  <2> QED
    BY <2>1, <2>2, AgentPruned
<1>2. ASSUME NEW a \in Agents, a \in Admitted
      PROVE  /\ AgentOK(controller'[a], starts'[a], results'[a], pc'[a] = "running",
                        startedAt'[a], now')
             /\ controller'[a] \in Controllers /\ starts'[a] \in Seq(Times)
             /\ startedAt'[a] \in Times /\ events'[a] \in Seq(Statuses)
             /\ pc'[a] = "running" /\ Len(events'[a]) = iteration' - 1
  <2>1. /\ controller'[a] = Attempted(Pruned(controller[a]))
        /\ starts'[a] = Append(starts[a], now) /\ results'[a] = results[a]
        /\ pc'[a] = "running" /\ startedAt'[a] = now /\ events'[a] = events[a] /\ now' = now
    BY <1>2 DEF BeginRound
  <2>2. Admits(Pruned(controller[a]))
    BY <1>2 DEF Admitted
  <2>3. AgentOK(Attempted(Pruned(controller[a])), Append(starts[a], now), results[a], TRUE,
                now, now)
    BY <1>1, <2>2, AgentBegins
  <2>4. AgentOK(controller'[a], starts'[a], results'[a], pc'[a] = "running", startedAt'[a],
                now')
    BY <2>1, <2>3 DEF AgentOK
  <2>5. Len(events'[a]) = iteration' - 1
    <3>1. Len(events[a]) = iteration - 0
      BY <1>1 DEF FleetOK, TypeOK
    <3> QED
      BY <1>0, <2>1, <3>1
  <2> QED
    BY <2>1, <2>4, <2>5 DEF AgentOK, FleetOK, TypeOK
<1>3. ASSUME NEW a \in Agents, a \notin Admitted
      PROVE  /\ AgentOK(controller'[a], starts'[a], results'[a], pc'[a] = "running",
                        startedAt'[a], now')
             /\ controller'[a] \in Controllers /\ starts'[a] \in Seq(Times)
             /\ startedAt'[a] \in Times /\ events'[a] \in Seq(Statuses)
             /\ pc'[a] = "returned" /\ Len(events'[a]) = iteration'
  <2>1. /\ controller'[a] = Pruned(controller[a]) /\ starts'[a] = starts[a]
        /\ results'[a] = results[a] /\ pc'[a] = "returned" /\ startedAt'[a] = startedAt[a]
        /\ events'[a] = Append(events[a], "blocked") /\ now' = now
    BY <1>3 DEF BeginRound
  <2>2. AgentOK(controller'[a], starts'[a], results'[a], pc'[a] = "running", startedAt'[a],
                now')
    BY <1>1, <2>1 DEF AgentOK
  <2>3. events[a] \in Seq(Statuses) /\ Len(events[a]) = iteration
    <3>1. events[a] \in Seq(Statuses) /\ Len(events[a]) = iteration - 0
      BY <1>1 DEF FleetOK, TypeOK
    <3> QED
      BY <1>0, <3>1
  <2>4. events'[a] \in Seq(Statuses) /\ Len(events'[a]) = iteration'
    BY <1>0, <2>1, <2>3, AppendProperties DEF Statuses
  <2> QED
    BY <2>1, <2>2, <2>4 DEF AgentOK, FleetOK, TypeOK
<1>4. TypeOK'
  <2>1. /\ controller' = [a \in Agents |-> controller'[a]]
        /\ starts' = [a \in Agents |-> starts'[a]] /\ events' = [a \in Agents |-> events'[a]]
        /\ pc' = [a \in Agents |-> pc'[a]] /\ startedAt' = [a \in Agents |-> startedAt'[a]]
    BY DEF BeginRound
  <2>2. /\ controller' \in [Agents -> Controllers] /\ starts' \in [Agents -> Seq(Times)]
        /\ events' \in [Agents -> Seq(Statuses)] /\ startedAt' \in [Agents -> Times]
        /\ pc' \in [Agents -> {"idle", "running", "returned"}]
    BY <1>2, <1>3, <2>1
  <2>3. now' \in Times /\ results' \in [Agents -> Seq(Results)] /\ iteration' \in 0..Rounds
    <3>1. now' = now /\ results' = results
      BY DEF BeginRound
    <3> QED
      BY <1>0, <3>1 DEF FleetOK, TypeOK, Results
  <2>4. \A a \in Agents :
          /\ Len(starts'[a]) = Len(results'[a]) + (IF pc'[a] = "running" THEN 1 ELSE 0)
          /\ Len(events'[a]) = iteration' - (IF pc'[a] = "running" THEN 1 ELSE 0)
    BY <1>2, <1>3, <2>3 DEF AgentOK
  <2> QED
    BY <2>2, <2>3, <2>4 DEF TypeOK, Controllers, Results
<1> QED
  BY <1>2, <1>3, <1>4 DEF FleetOK

\* An action is over: its agent's history grows, the others' stay.
LEMMA FleetReturns ==
  ASSUME FleetOK, NEW a \in Agents, NEW status \in Results, NEW d,
         pc[a] = "running", Return(a, status), controller' = [controller EXCEPT ![a] = d],
         AgentOK(d, starts[a], Append(results[a], status), FALSE, startedAt[a], now),
         UNCHANGED <<now, iteration, startedAt, starts>>
  PROVE  FleetOK'
<1>1. /\ controller'[a] = d /\ results'[a] = Append(results[a], status)
      /\ pc'[a] = "returned" /\ events'[a] = Append(events[a], status)
  BY DEF FleetOK, TypeOK, Return
<1>2. \A b \in Agents \ {a} :
        /\ controller'[b] = controller[b] /\ results'[b] = results[b]
        /\ pc'[b] = pc[b] /\ events'[b] = events[b]
  BY DEF FleetOK, TypeOK, Return
<1>3. d \in Controllers /\ Append(results[a], status) \in Seq(Results)
  BY DEF AgentOK
<1>4. /\ Append(events[a], status) \in Seq(Statuses)
      /\ Len(Append(events[a], status)) = iteration
  <2>1. /\ events[a] \in Seq(Statuses) /\ status \in Statuses
        /\ Len(events[a]) = iteration - 1 /\ iteration \in Int
    BY DEF FleetOK, TypeOK, Statuses, Results
  <2> QED
    BY <2>1, AppendProperties
<1>5. ASSUME NEW b \in Agents
      PROVE  AgentOK(controller'[b], starts'[b], results'[b], pc'[b] = "running",
                     startedAt'[b], now')
  <2>1. CASE b = a
    BY <1>1, <2>1 DEF AgentOK
  <2>2. CASE b # a
    BY <1>2, <2>2 DEF FleetOK
  <2> QED
    BY <2>1, <2>2
<1>6. TypeOK'
  <2>1. /\ controller' \in [Agents -> Controllers] /\ results' \in [Agents -> Seq(Results)]
        /\ pc' \in [Agents -> {"idle", "running", "returned"}]
        /\ events' \in [Agents -> Seq(Statuses)]
    BY <1>3, <1>4 DEF FleetOK, TypeOK, Return, Controllers, Results
  <2>2. \A b \in Agents :
          /\ Len(starts'[b]) = Len(results'[b]) + (IF pc'[b] = "running" THEN 1 ELSE 0)
          /\ Len(events'[b]) = iteration' - (IF pc'[b] = "running" THEN 1 ELSE 0)
    <3>1. \A b \in Agents :
            Len(starts'[b]) = Len(results'[b]) + (IF pc'[b] = "running" THEN 1 ELSE 0)
      BY <1>5 DEF AgentOK
    <3>2. \A b \in Agents \ {a} :
            Len(events'[b]) = iteration' - (IF pc'[b] = "running" THEN 1 ELSE 0)
      BY <1>2 DEF FleetOK, TypeOK
    <3>3. Len(events'[a]) = iteration' - (IF pc'[a] = "running" THEN 1 ELSE 0)
      BY <1>1, <1>4 DEF FleetOK, TypeOK
    <3> QED
      BY <3>1, <3>2, <3>3
  <2> QED
    BY <2>1, <2>2 DEF FleetOK, TypeOK, Controllers, Results
<1> QED
  BY <1>5, <1>6 DEF FleetOK

LEMMA FleetNext ==
  ASSUME FleetOK, [Next]_vars
  PROVE  FleetOK'
<1>1. CASE Tick
  BY <1>1, FleetTick
<1>2. CASE BeginRound
  BY <1>2, FleetBegins
<1>3. ASSUME NEW a \in Agents, Execute(a) \/ Fail(a)
      PROVE  FleetOK'
  <2>1. AgentOK(controller[a], starts[a], results[a], TRUE, startedAt[a], now)
    BY <1>3 DEF FleetOK, AgentOK, Execute, Fail
  <2>2. CASE Execute(a)
    <3>1. AgentOK(Succeeded(controller[a]), starts[a], Append(results[a], "executed"), FALSE,
                  startedAt[a], now)
      BY <2>1, AgentSucceeds
    <3>2. controller' = [controller EXCEPT ![a] = Succeeded(controller[a])]
      BY <2>2 DEF Execute, FleetOK, TypeOK
    <3> QED
      BY <2>2, <3>1, <3>2, FleetReturns DEF Execute, Results
  <2>3. CASE Fail(a)
    <3>1. AgentOK(Failed(controller[a], startedAt[a]), starts[a],
                  Append(results[a], "failed"), FALSE, startedAt[a], now)
      BY <2>1, AgentFails
    <3>2. controller' = [controller EXCEPT ![a] = Failed(controller[a], startedAt[a])]
      BY <2>3 DEF Fail, FleetOK, TypeOK
    <3> QED
      BY <2>3, <3>1, <3>2, FleetReturns DEF Fail, Results
  <2> QED
    BY <1>3, <2>2, <2>3
<1>4. CASE UNCHANGED vars
  BY <1>4 DEF FleetOK, TypeOK, vars
<1> QED
  BY <1>1, <1>2, <1>3, <1>4 DEF Next

\* What the controllers remember, and the limits they keep, are invariant.
THEOREM FleetInvariant == Spec => []IndInv
<1>1. FleetOK /\ [Next]_vars => FleetOK'
  BY FleetNext
<1> QED
  BY FleetInit, FleetSays, <1>1, PTL DEF Spec

\* No agent begins more than MaxActionsPerWindow actions in any window.
THEOREM RateLimitedHolds == Spec => []RateLimited
<1>1. IndInv => RateLimited
  BY DEF IndInv
<1> QED
  BY FleetInvariant, <1>1, PTL

\* After a trip the agent stays away for the cooldown.
THEOREM BreakerHoldsHolds == Spec => []BreakerHolds
<1>1. IndInv => BreakerHolds
  BY DEF IndInv
<1> QED
  BY FleetInvariant, <1>1, PTL

\* What a controller remembers is what its agent's own history says.
THEOREM ControllerMatchesHistoryHolds == Spec => []ControllerMatchesHistory
<1>1. IndInv => ControllerMatchesHistory
  BY DEF IndInv
<1> QED
  BY FleetInvariant, <1>1, PTL
=============================================================================
