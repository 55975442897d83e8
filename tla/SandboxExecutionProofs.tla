----------------------- MODULE SandboxExecutionProofs -----------------------
(***************************************************************************)
(* Proofs about the sandbox executor and its policy engines, for every set *)
(* of calls and transactions, every limit and every number of calls open   *)
(* at once.                                                                *)
(***************************************************************************)
EXTENDS SandboxExecution, FiniteSetTheorems, NaturalsInduction, TLAPS

-----------------------------------------------------------------------------
(* Days and engines.                                                       *)

\* Time does not go back to an earlier day.
LEMMA DayMonotone ==
  ASSUME NEW t \in Nat, NEW u \in Nat, t <= u
  PROVE  Day(t) \in Nat /\ Day(u) \in Nat /\ Day(t) <= Day(u)
BY ConstantsAssumption DEF Day

\* The days of the model are natural numbers, none of them Never.
LEMMA DaysNat == Days \subseteq Nat /\ Never \notin Days /\ 0 \in Days
<1>1. Days \subseteq Nat
  BY DayMonotone DEF Days
<1>2. 0 \in Days
  BY ConstantsAssumption DEF Days, Day
<1> QED
  BY <1>1, <1>2 DEF Never

\* Every instant has its day.
LEMMA DaysOf ==
  ASSUME NEW t \in 0..MaxTime
  PROVE  Day(t) \in Days /\ Day(t) \in Nat
BY DaysNat DEF Days

\* So has the present one.
LEMMA Today ==
  ASSUME now \in 0..MaxTime
  PROVE  Day(now) \in Days /\ Day(now) \in Nat
BY DaysOf

\* The clock as a segment leaves it.
LEMMA Later ==
  ASSUME now \in 0..MaxTime, now' \in now..MaxTime
  PROVE  /\ now' \in 0..MaxTime /\ now <= now'
         /\ Day(now)' = Day(now') /\ Day(now') \in Days
         /\ Day(now) \in Nat /\ Day(now') \in Nat /\ Day(now) <= Day(now')
<1>1. now' \in 0..MaxTime /\ now <= now' /\ now \in Nat /\ now' \in Nat
  BY ConstantsAssumption
<1>2. Day(now)' = Day(now')
  BY DEF Day
<1> QED
  BY <1>1, <1>2, DayMonotone, DaysOf

\* Every call has an engine.
LEMMA EngineOfCall == \A c \in Calls : EngineOf(c) \in Engines
BY DEF EngineOf, Engines

\* A refresh touches the day's spend alone (maybeResetDailySpend).
LEMMA RefreshedState ==
  ASSUME NEW t \in 0..MaxTime, NEW state \in EngineState
  PROVE  /\ Refreshed(state, t) \in EngineState
         /\ Refreshed(state, t).lastResetDay = Day(t)
         /\ Refreshed(state, t).txCountSession = state.txCountSession
         /\ Refreshed(state, t).perDayCounts = state.perDayCounts
BY DaysOf DEF Refreshed, EngineState

\* A recording counts one transaction on the day it reads for the count
\* (recordBroadcast), whatever the day of the reset.
CountedOnce(record, state, counted, spent) ==
  /\ record \in EngineState
  /\ record.lastResetDay = Day(spent)
  /\ record.txCountSession = state.txCountSession + 1
  /\ \A d \in Days : record.perDayCounts[d] =
       IF d = Day(counted) THEN state.perDayCounts[d] + 1 ELSE state.perDayCounts[d]

LEMMA RecordedState ==
  ASSUME NEW counted \in 0..MaxTime, NEW spent \in 0..MaxTime,
         NEW state \in EngineState, NEW lamports \in Nat
  PROVE  CountedOnce(Recorded(state, lamports, counted, spent), state, counted, spent)
<1> DEFINE fresh == Refreshed(state, spent)
<1>1. /\ fresh \in EngineState
      /\ fresh.lastResetDay = Day(spent)
      /\ fresh.txCountSession = state.txCountSession
      /\ fresh.perDayCounts = state.perDayCounts
  BY RefreshedState
<1> DEFINE counts == [fresh.perDayCounts EXCEPT ![Day(counted)] = @ + 1]
<1>2. Recorded(state, lamports, counted, spent) =
        [fresh EXCEPT !.txCountSession = fresh.txCountSession + 1,
                      !.perDayCounts = counts,
                      !.spentToday = fresh.spentToday + lamports]
  BY DEF Recorded
<1>3. Day(counted) \in Days
  BY DaysOf
<1>4. /\ counts \in [Days -> Nat]
      /\ \A d \in Days : counts[d] = IF d = Day(counted) THEN state.perDayCounts[d] + 1
                                     ELSE state.perDayCounts[d]
  BY <1>1, <1>3 DEF EngineState
<1> DEFINE record == Recorded(state, lamports, counted, spent)
<1> HIDE DEF fresh, counts
<1>5. record = [txCountSession |-> fresh.txCountSession + 1,
                perDayCounts |-> counts,
                lastResetDay |-> fresh.lastResetDay,
                spentToday |-> fresh.spentToday + lamports]
  BY <1>1, <1>2 DEF EngineState
<1> HIDE DEF record
<1>6. fresh.txCountSession \in Nat /\ fresh.spentToday \in Nat /\ fresh.lastResetDay \in Days
  BY <1>1 DEF EngineState
<1>7. record \in EngineState
  BY <1>4, <1>5, <1>6 DEF EngineState
<1>8. /\ record.lastResetDay = Day(spent)
      /\ record.txCountSession = state.txCountSession + 1
      /\ record.perDayCounts = counts
  BY <1>1, <1>5
<1> QED
  BY <1>4, <1>7, <1>8 DEF record, CountedOnce

\* A clock that stands still is one that moves on.
LEMMA Unmoved ==
  ASSUME TypeOK, now' = now
  PROVE  now' \in now..MaxTime
BY ConstantsAssumption DEF TypeOK

\* What a step may do to the engines without counting anything.
Uncounted ==
  /\ engine' \in [Engines -> EngineState]
  /\ \A e \in Engines :
       /\ engine'[e].lastResetDay <= Day(now')
       /\ engine'[e].txCountSession = engine[e].txCountSession
       /\ engine'[e].perDayCounts = engine[e].perDayCounts

\* Refreshing one engine counts nothing.
LEMMA RefreshUncounted ==
  ASSUME TypeOK, NEW e \in Engines, now' \in now..MaxTime,
         engine' = [engine EXCEPT ![e] = Refreshed(engine[e], now')]
  PROVE  Uncounted
<1>1. now \in 0..MaxTime /\ engine \in [Engines -> EngineState]
      /\ \A f \in Engines : engine[f].lastResetDay <= Day(now)
  BY DEF TypeOK
<1>2. /\ now' \in 0..MaxTime /\ Day(now) \in Nat /\ Day(now') \in Nat
      /\ Day(now) <= Day(now')
  BY <1>1, Later
<1> DEFINE state == Refreshed(engine[e], now')
<1>3. /\ state \in EngineState
      /\ state.lastResetDay = Day(now')
      /\ state.txCountSession = engine[e].txCountSession
      /\ state.perDayCounts = engine[e].perDayCounts
  BY <1>1, <1>2, RefreshedState
<1>4. engine' = [engine EXCEPT ![e] = state]
  OBVIOUS
<1>5. \A f \in Engines : engine[f].lastResetDay \in Nat
  BY <1>1, DaysNat DEF EngineState
<1> HIDE DEF state
<1> QED
  BY <1>1, <1>2, <1>3, <1>4, <1>5 DEF Uncounted

\* So does leaving them alone.
LEMMA SameUncounted ==
  ASSUME TypeOK, engine' = engine, now' \in now..MaxTime
  PROVE  Uncounted
<1>1. \A f \in Engines : engine[f].lastResetDay <= Day(now) /\ engine[f].lastResetDay \in Nat
  BY DaysNat DEF TypeOK, EngineState
<1>2. Day(now) \in Nat /\ Day(now') \in Nat /\ Day(now) <= Day(now')
  BY Later DEF TypeOK
<1> QED
  BY <1>1, <1>2 DEF TypeOK, Uncounted

-----------------------------------------------------------------------------
(* The invariant in two parts: the calls, and the counters.                *)

CallInv ==
  TypeOK /\ Stages /\ BroadcastPassedGates /\ AnswersAreTrue /\ RecordedLanded

CountInv == FutureDaysEmpty /\ SessionOvershoot /\ DayOvershoot

\* Both parts make the inductive invariant.
LEMMA TwoParts == IndInv <=> CallInv /\ CountInv
BY DEF IndInv, CallInv, CountInv

\* Requests and engines of the types are as the constants say.
LEMMA RequestType ==
  ASSUME CallInv, NEW c \in Calls, pc[c] # "idle"
  PROVE  request[c] \in Request /\ request[c].lamports \in Nat
BY ConstantsAssumption DEF CallInv, Stages, Request

\* The initial states satisfy the invariant.
LEMMA InitInv == Init => IndInv
<1> SUFFICES ASSUME Init PROVE IndInv
  OBVIOUS
<1>1. Day(now) = 0 /\ 0 \in Days /\ now \in 0..MaxTime
  BY ConstantsAssumption DEF Init, Day, Days
<1>2. TypeOK
  <2> DEFINE zero == [txCountSession |-> 0, perDayCounts |-> [d \in Days |-> 0],
                      lastResetDay |-> 0, spentToday |-> 0]
  <2>1. zero \in EngineState /\ zero.lastResetDay = 0
    BY <1>1 DEF EngineState
  <2>2. engine = [e \in Engines |-> zero]
    BY DEF Init
  <2> HIDE DEF zero
  <2>3. /\ engine \in [Engines -> EngineState]
        /\ \A e \in Engines : engine[e].lastResetDay <= Day(now)
    BY <1>1, <2>1, <2>2
  <2>4. config \in Config
    BY ConstantsAssumption DEF Init
  <2> QED
    BY <1>1, <2>3, <2>4 DEF Init, TypeOK, PCs
<1>3. Stages /\ BroadcastPassedGates /\ AnswersAreTrue /\ RecordedLanded
  BY DEF Init, Stages, BroadcastPassedGates, AnswersAreTrue, RecordedLanded
<1>4. \A e \in Engines : Pending(e) = {}
  BY DEF Init, Pending
<1>5. CountInv
  <2>1. Cardinality({}) = 0
    BY FS_EmptySet
  <2>2. FutureDaysEmpty
    BY DEF Init, FutureDaysEmpty
  <2>3. SessionOvershoot
    <3>1. \A e \in Engines : engine[e].txCountSession = 0 /\ Cardinality(Pending(e)) = 0
      BY <1>4, <2>1 DEF Init
    <3>2. MaxPerSession \in Nat /\ MaxInFlight \in Nat \ {0}
      BY ConstantsAssumption
    <3> QED
      BY <3>1, <3>2 DEF SessionOvershoot
  <2>4. DayOvershoot
    <3>1. \A e \in Engines, d \in Days : engine[e].perDayCounts[d] = 0
      BY DEF Init
    <3>2. MaxPerDay \in Nat /\ MaxInFlight \in Nat \ {0}
      BY ConstantsAssumption
    <3>3. \A e \in Engines : Cardinality(Pending(e)) = 0
      BY <1>4, <2>1
    <3> QED
      BY <3>1, <3>2, <3>3 DEF DayOvershoot
  <2> QED
    BY <2>2, <2>3, <2>4 DEF CountInv
<1> QED
  BY <1>2, <1>3, <1>5, TwoParts DEF CallInv

-----------------------------------------------------------------------------
(* The counters.                                                           *)

\* The calls an engine has admitted are finitely many.
LEMMA PendingFinite ==
  ASSUME NEW e \in Engines
  PROVE  /\ IsFiniteSet(Pending(e)) /\ Cardinality(Pending(e)) \in Nat
         /\ IsFiniteSet(Pending(e)') /\ Cardinality(Pending(e)') \in Nat
<1>1. Pending(e) \subseteq Calls /\ Pending(e)' \subseteq Calls /\ IsFiniteSet(Calls)
  BY ConstantsAssumption DEF Pending
<1>2. IsFiniteSet(Pending(e)) /\ IsFiniteSet(Pending(e)')
  BY <1>1, FS_Subset
<1> QED
  BY <1>2, FS_CardinalityType

\* A step that counts nothing and admits nothing keeps the limits.
LEMMA QuietCount ==
  ASSUME TypeOK, CountInv, Uncounted, now' \in 0..MaxTime, now <= now',
         \A e \in Engines : Pending(e)' \subseteq Pending(e)
  PROVE  CountInv'
<1>1. Day(now) \in Nat /\ Day(now') \in Nat /\ Day(now) <= Day(now')
  BY DayMonotone DEF TypeOK
<1>2. Day(now)' = Day(now')
  BY DEF Day
<1>3. Days \subseteq Nat /\ MaxPerDay \in Nat /\ MaxPerSession \in Nat /\ MaxInFlight \in Nat
  BY DaysNat, ConstantsAssumption
<1>4. ASSUME NEW e \in Engines
      PROVE  /\ engine'[e].txCountSession \in Nat
             /\ engine'[e].txCountSession = engine[e].txCountSession
             /\ \A d \in Days : /\ engine'[e].perDayCounts[d] \in Nat
                                /\ engine'[e].perDayCounts[d] = engine[e].perDayCounts[d]
  BY DEF Uncounted, EngineState
<1>5. ASSUME NEW e \in Engines
      PROVE  /\ Cardinality(Pending(e)') \in Nat /\ Cardinality(Pending(e)) \in Nat
             /\ Cardinality(Pending(e)') <= Cardinality(Pending(e))
  <2>1. Pending(e)' \subseteq Pending(e) /\ IsFiniteSet(Pending(e))
    BY PendingFinite
  <2>2. Cardinality(Pending(e)') <= Cardinality(Pending(e))
    BY <2>1, FS_Subset
  <2> QED
    BY <2>2, PendingFinite
<1>6. FutureDaysEmpty'
  BY <1>1, <1>2, <1>3, <1>4 DEF CountInv, FutureDaysEmpty
<1>7. SessionOvershoot'
  BY <1>3, <1>4, <1>5 DEF CountInv, SessionOvershoot
<1>8. DayOvershoot'
  <2> SUFFICES ASSUME NEW e \in Engines, NEW d \in Days
               PROVE  engine'[e].perDayCounts[d]
                        + (IF d < Day(now)' THEN 0 ELSE Cardinality(Pending(e)'))
                      <= MaxPerDay + MaxInFlight - 1
    BY DEF DayOvershoot
  <2>1. engine[e].perDayCounts[d]
          + (IF d < Day(now) THEN 0 ELSE Cardinality(Pending(e)))
        <= MaxPerDay + MaxInFlight - 1
    BY DEF CountInv, DayOvershoot
  <2> QED
    BY <1>1, <1>2, <1>3, <1>4, <1>5, <2>1
<1> QED
  BY <1>6, <1>7, <1>8 DEF CountInv

\* An admission below the limits keeps the bound: all the calls in flight may
\* be the engine's, and its counters leave room for one (inspect).
LEMMA AdmitCount ==
  ASSUME TypeOK, CountInv, Uncounted, now' \in now..MaxTime, NEW c \in Calls,
         \A e \in Engines \ {EngineOf(c)} : Pending(e)' \subseteq Pending(e),
         engine[EngineOf(c)].txCountSession < MaxPerSession,
         engine[EngineOf(c)].perDayCounts[Day(now)] < MaxPerDay,
         Cardinality(Pending(EngineOf(c))') <= MaxInFlight
  PROVE  CountInv'
<1> DEFINE e == EngineOf(c)
<1>0. e \in Engines
  BY EngineOfCall
<1> HIDE DEF e
<1>1. /\ Day(now)' = Day(now') /\ Day(now') \in Days /\ Day(now) \in Nat
      /\ Day(now') \in Nat /\ Day(now) <= Day(now')
  BY Later DEF TypeOK
<1>2. Days \subseteq Nat /\ MaxPerDay \in Nat \ {0} /\ MaxPerSession \in Nat /\ MaxInFlight \in Nat
  BY DaysNat, ConstantsAssumption
<1>3. ASSUME NEW f \in Engines
      PROVE  /\ engine'[f].txCountSession \in Nat
             /\ engine'[f].txCountSession = engine[f].txCountSession
             /\ \A d \in Days : /\ engine'[f].perDayCounts[d] \in Nat
                                /\ engine'[f].perDayCounts[d] = engine[f].perDayCounts[d]
  BY DEF Uncounted, EngineState
<1>4. ASSUME NEW f \in Engines, f # e
      PROVE  /\ Cardinality(Pending(f)') \in Nat /\ Cardinality(Pending(f)) \in Nat
             /\ Cardinality(Pending(f)') <= Cardinality(Pending(f))
  <2>1. Pending(f)' \subseteq Pending(f) /\ IsFiniteSet(Pending(f))
    BY <1>4, PendingFinite DEF e
  <2>2. Cardinality(Pending(f)') <= Cardinality(Pending(f))
    BY <2>1, FS_Subset
  <2> QED
    BY <2>2, PendingFinite
<1>5. /\ engine[e].txCountSession < MaxPerSession
      /\ engine[e].perDayCounts[Day(now)] < MaxPerDay
      /\ Cardinality(Pending(e)') <= MaxInFlight
  BY DEF e
<1>6. Cardinality(Pending(e)') \in Nat
  BY <1>0, PendingFinite
<1>7. FutureDaysEmpty'
  BY <1>1, <1>2, <1>3 DEF CountInv, FutureDaysEmpty
<1>8. SessionOvershoot'
  <2> SUFFICES ASSUME NEW f \in Engines
               PROVE  engine'[f].txCountSession + Cardinality(Pending(f)')
                      <= MaxPerSession + MaxInFlight - 1
    BY DEF SessionOvershoot
  <2>1. CASE f = e
    BY <1>2, <1>3, <1>5, <1>6, <2>1
  <2>2. CASE f # e
    BY <1>2, <1>3, <1>4, <2>2 DEF CountInv, SessionOvershoot
  <2> QED
    BY <2>1, <2>2
<1>9. DayOvershoot'
  <2> SUFFICES ASSUME NEW f \in Engines, NEW d \in Days
               PROVE  engine'[f].perDayCounts[d]
                        + (IF d < Day(now') THEN 0 ELSE Cardinality(Pending(f)'))
                      <= MaxPerDay + MaxInFlight - 1
    BY <1>1 DEF DayOvershoot
  <2>1. /\ engine[f].perDayCounts[d]
             + (IF d < Day(now) THEN 0 ELSE Cardinality(Pending(f)))
           <= MaxPerDay + MaxInFlight - 1
        /\ d > Day(now) => engine[f].perDayCounts[d] = 0
    BY DEF CountInv, DayOvershoot, FutureDaysEmpty
  <2>2. CASE f = e
    <3>0. d \in Nat /\ Cardinality(Pending(e)) \in Nat
      BY <1>0, <1>2, PendingFinite
    <3>1. CASE d = Day(now)
      BY <1>1, <1>2, <1>3, <1>5, <1>6, <2>2, <3>1
    <3>2. CASE d < Day(now)
      BY <1>1, <1>2, <1>3, <1>5, <1>6, <2>1, <2>2, <3>0, <3>2
    <3>3. CASE d > Day(now)
      BY <1>1, <1>2, <1>3, <1>5, <1>6, <2>1, <2>2, <3>0, <3>3
    <3> QED
      BY <1>1, <3>0, <3>1, <3>2, <3>3
  <2>3. CASE f # e
    BY <1>1, <1>2, <1>3, <1>4, <2>1, <2>3
  <2> QED
    BY <2>2, <2>3
<1> QED
  BY <1>7, <1>8, <1>9 DEF CountInv

\* A recording moves one call from those admitted to those counted.
LEMMA RecordCount ==
  ASSUME TypeOK, CountInv, NEW c \in Calls, NEW lamports \in Nat,
         now' \in now..MaxTime, NEW counted \in now..now',
         engine' = [engine EXCEPT ![EngineOf(c)] =
                      Recorded(engine[EngineOf(c)], lamports, counted, now')],
         \A e \in Engines \ {EngineOf(c)} : Pending(e)' \subseteq Pending(e),
         c \in Pending(EngineOf(c)),
         Pending(EngineOf(c))' = Pending(EngineOf(c)) \ {c}
  PROVE  /\ CountInv'
         /\ engine' \in [Engines -> EngineState]
         /\ \A f \in Engines : engine'[f].lastResetDay <= Day(now')
<1> DEFINE e == EngineOf(c)
           state == Recorded(engine[e], lamports, counted, now')
<1>1. /\ Day(now)' = Day(now') /\ Day(now') \in Days /\ Day(now) \in Nat
      /\ Day(now') \in Nat /\ counted \in 0..MaxTime /\ Day(counted) \in Days
      /\ Day(counted) \in Nat /\ Day(now) <= Day(counted) /\ Day(counted) <= Day(now')
      /\ Day(now) <= Day(now')
  <2>1. now \in 0..MaxTime
    BY DEF TypeOK
  <2>2. now' \in 0..MaxTime /\ Day(now)' = Day(now')
    BY <2>1, Later
  <2>3. /\ counted \in 0..MaxTime /\ now <= counted /\ counted <= now'
        /\ now \in Nat /\ counted \in Nat /\ now' \in Nat
    BY <2>1, <2>2, ConstantsAssumption
  <2>4. Day(now) <= Day(counted) /\ Day(counted) <= Day(now')
    BY <2>3, DayMonotone
  <2>5. /\ Day(now) \in Nat /\ Day(counted) \in Nat /\ Day(now') \in Nat
        /\ Day(counted) \in Days /\ Day(now') \in Days
    BY <2>1, <2>2, <2>3, DaysOf
  <2> QED
    BY <2>2, <2>3, <2>4, <2>5
<1>2. /\ Days \subseteq Nat /\ MaxPerDay \in Nat /\ MaxPerSession \in Nat
      /\ MaxInFlight \in Nat
  BY DaysNat, ConstantsAssumption
<1>3. e \in Engines /\ engine \in [Engines -> EngineState] /\ now' \in 0..MaxTime
      /\ \A f \in Engines : engine[f].lastResetDay <= Day(now)
                             /\ engine[f].lastResetDay \in Nat
  BY EngineOfCall, Later, DaysNat DEF TypeOK, EngineState
<1>4. /\ state \in EngineState
      /\ state.lastResetDay = Day(now')
      /\ state.txCountSession = engine[e].txCountSession + 1
      /\ \A d \in Days : state.perDayCounts[d] =
           IF d = Day(counted) THEN engine[e].perDayCounts[d] + 1
           ELSE engine[e].perDayCounts[d]
  <2>1. engine[e] \in EngineState /\ counted \in 0..MaxTime /\ now' \in 0..MaxTime
    BY <1>1, <1>3
  <2>2. CountedOnce(state, engine[e], counted, now')
    BY <2>1, RecordedState
  <2> HIDE DEF e, state
  <2> QED
    BY <2>2 DEF CountedOnce
<1>5. engine' = [engine EXCEPT ![e] = state]
  OBVIOUS
<1> HIDE DEF state
<1>6. engine'[e] = state /\ \A f \in Engines \ {e} : engine'[f] = engine[f]
  BY <1>3, <1>5
<1>7. engine' \in [Engines -> EngineState]
  BY <1>3, <1>4, <1>5
<1>8. ASSUME NEW f \in Engines PROVE engine'[f].lastResetDay <= Day(now')
  BY <1>1, <1>3, <1>4, <1>6
<1>9. /\ Cardinality(Pending(e)') = Cardinality(Pending(e)) - 1
      /\ Cardinality(Pending(e)) \in Nat /\ Cardinality(Pending(e)') \in Nat
  <2>1. IsFiniteSet(Pending(e)) /\ c \in Pending(e) /\ Pending(e)' = Pending(e) \ {c}
    BY <1>3, PendingFinite
  <2>2. Cardinality(Pending(e) \ {c}) = Cardinality(Pending(e)) - 1
    BY <2>1, FS_RemoveElement
  <2>3. Cardinality(Pending(e)) \in Nat /\ Cardinality(Pending(e)') \in Nat
    BY <1>3, PendingFinite
  <2>4. Cardinality(Pending(e)') = Cardinality(Pending(e) \ {c})
    BY <2>1
  <2> QED
    BY <2>2, <2>3, <2>4
<1>10. ASSUME NEW f \in Engines, f # e
       PROVE  /\ Cardinality(Pending(f)') \in Nat /\ Cardinality(Pending(f)) \in Nat
              /\ Cardinality(Pending(f)') <= Cardinality(Pending(f))
  <2>1. Pending(f)' \subseteq Pending(f) /\ IsFiniteSet(Pending(f))
    BY <1>10, PendingFinite
  <2>2. Cardinality(Pending(f)') <= Cardinality(Pending(f))
    BY <2>1, FS_Subset
  <2> QED
    BY <2>2, PendingFinite
<1>11. \A f \in Engines :
         /\ engine[f].txCountSession \in Nat
         /\ \A d \in Days : engine[f].perDayCounts[d] \in Nat
  BY <1>3 DEF EngineState
<1> HIDE DEF e
<1>12. FutureDaysEmpty'
  BY <1>1, <1>2, <1>3, <1>4, <1>6 DEF CountInv, FutureDaysEmpty
<1>13. SessionOvershoot'
  <2> SUFFICES ASSUME NEW f \in Engines
               PROVE  engine'[f].txCountSession + Cardinality(Pending(f)')
                      <= MaxPerSession + MaxInFlight - 1
    BY DEF SessionOvershoot
  <2>1. engine[f].txCountSession + Cardinality(Pending(f))
        <= MaxPerSession + MaxInFlight - 1
    BY DEF CountInv, SessionOvershoot
  <2>2. CASE f = e
    BY <1>2, <1>4, <1>6, <1>9, <1>11, <2>1, <2>2
  <2>3. CASE f # e
    BY <1>2, <1>6, <1>10, <1>11, <2>1, <2>3
  <2> QED
    BY <2>2, <2>3
<1>14. DayOvershoot'
  <2> SUFFICES ASSUME NEW f \in Engines, NEW d \in Days
               PROVE  engine'[f].perDayCounts[d]
                        + (IF d < Day(now') THEN 0 ELSE Cardinality(Pending(f)'))
                      <= MaxPerDay + MaxInFlight - 1
    BY <1>1 DEF DayOvershoot
  <2>1. engine[f].perDayCounts[d]
          + (IF d < Day(now) THEN 0 ELSE Cardinality(Pending(f)))
        <= MaxPerDay + MaxInFlight - 1
    BY DEF CountInv, DayOvershoot
  <2>2. CASE f = e
    <3>1. engine'[f].perDayCounts[d] =
            IF d = Day(counted) THEN engine[e].perDayCounts[d] + 1
            ELSE engine[e].perDayCounts[d]
      BY <1>4, <1>6, <2>2
    <3> QED
      BY <1>1, <1>2, <1>9, <1>11, <2>1, <2>2, <3>1
  <2>3. CASE f # e
    BY <1>1, <1>2, <1>6, <1>10, <1>11, <2>1, <2>3
  <2> QED
    BY <2>2, <2>3
<1> QED
  BY <1>7, <1>8, <1>12, <1>13, <1>14 DEF CountInv

-----------------------------------------------------------------------------
(* The calls.                                                              *)

\* What the invariant says of one call.
CallOK(c) ==
  /\ pc[c] \in {"idle", "simulate", "approval", "send"} =>
       onChain[c] = "absent" /\ recordedOn[c] = Never
  /\ pc[c] \notin {"audit", "done"} => outcome[c] = "none"
  /\ pc[c] # "idle" => request[c] \in Requests
  /\ pc[c] \in {"simulate", "approval"} => "policy" \in gates[c]
  /\ pc[c] = "approval" =>
       "simulation" \in gates[c] /\ config.live /\ config.callback
  /\ pc[c] = "send" => Passed(c)
  /\ pc[c] = "confirm" => onChain[c] # "absent" /\ recordedOn[c] = Never
  /\ pc[c] = "anchor" => recordedOn[c] # Never
  /\ spentOn[c] = Never <=> recordedOn[c] = Never
  /\ onChain[c] # "absent" => Passed(c)
  /\ outcome[c] = "denied" => onChain[c] = "absent"
  /\ outcome[c] = "executed" =>
       recordedOn[c] # Never /\ onChain[c] \in {"landed", "failed"}
  /\ recordedOn[c] # Never =>
       /\ onChain[c] \in {"landed", "failed"}
       /\ request[c].chain = "evm" => onChain[c] = "landed"

\* The invariant of the calls is that of each call.
LEMMA CallByCall == CallInv <=> TypeOK /\ \A c \in Calls : CallOK(c)
BY DEF CallInv, Stages, BroadcastPassedGates, AnswersAreTrue, RecordedLanded, CallOK

\* A step of one call leaves the others alone.
Alone(c) ==
  /\ config' = config
  /\ \A d \in Calls \ {c} :
       /\ pc'[d] = pc[d] /\ request'[d] = request[d]
       /\ attested'[d] = attested[d] /\ outcome'[d] = outcome[d]
       /\ onChain'[d] = onChain[d] /\ recordedOn'[d] = recordedOn[d]
       /\ spentOn'[d] = spentOn[d] /\ gates'[d] = gates[d]

\* So the invariant of the calls has to be shown for that call only.
LEMMA OneCall ==
  ASSUME CallInv, TypeOK', NEW c \in Calls, Alone(c), CallOK(c)'
  PROVE  CallInv'
<1>1. \A d \in Calls : CallOK(d)
  BY CallByCall
<1>2. ASSUME NEW d \in Calls PROVE CallOK(d)'
  <2>1. CASE d = c
    BY <2>1
  <2>2. CASE d # c
    <3>1. /\ config' = config
          /\ pc'[d] = pc[d] /\ request'[d] = request[d]
          /\ attested'[d] = attested[d] /\ outcome'[d] = outcome[d]
          /\ onChain'[d] = onChain[d] /\ recordedOn'[d] = recordedOn[d]
          /\ spentOn'[d] = spentOn[d] /\ gates'[d] = gates[d]
      BY <2>2 DEF Alone
    <3>2. CallOK(d)
      BY <1>1
    <3> QED
      BY <3>1, <3>2 DEF CallOK, Passed
  <2> QED
    BY <2>1, <2>2
<1>3. CallInv' <=> TypeOK' /\ \A d \in Calls : CallOK(d)'
  BY DEF CallInv, Stages, BroadcastPassedGates, AnswersAreTrue, RecordedLanded, CallOK
<1> QED
  BY <1>2, <1>3

\* The other engines' admitted calls are what they were, and this engine's
\* differ in the one call at most.
LEMMA PendingElsewhere ==
  ASSUME NEW c \in Calls, Alone(c)
  PROVE  /\ \A e \in Engines \ {EngineOf(c)} : Pending(e)' \subseteq Pending(e)
         /\ Pending(EngineOf(c))' \ {c} = Pending(EngineOf(c)) \ {c}
BY DEF Alone, Pending, EngineOf

\* A step that does not admit its call admits none.
LEMMA NotAdmitting ==
  ASSUME NEW c \in Calls, Alone(c),
         \/ pc'[c] \notin {"simulate", "approval", "send", "confirm"}
         \/ pc[c] \in {"simulate", "approval", "send", "confirm"}
  PROVE  \A e \in Engines : Pending(e)' \subseteq Pending(e)
BY DEF Alone, Pending, EngineOf

\* The step of one call that counts nothing and admits nothing.
LEMMA QuietStep ==
  ASSUME IndInv, TypeOK', NEW c \in Calls, Alone(c), CallOK(c)', Uncounted,
         now' \in now..MaxTime,
         \/ pc'[c] \notin {"simulate", "approval", "send", "confirm"}
         \/ pc[c] \in {"simulate", "approval", "send", "confirm"}
  PROVE  IndInv'
<1>1. CallInv /\ CountInv /\ TypeOK
  BY TwoParts DEF CallInv
<1>2. CallInv'
  BY <1>1, OneCall
<1>3. now' \in 0..MaxTime /\ now <= now'
  BY <1>1, Later DEF TypeOK
<1>4. \A e \in Engines : Pending(e)' \subseteq Pending(e)
  BY NotAdmitting
<1>5. CountInv'
  BY <1>1, <1>3, <1>4, QuietCount
<1> QED
  BY <1>2, <1>5 DEF IndInv, CallInv, CountInv

\* A call that gives an answer the ledger bears out.
LEMMA AnswerStep ==
  ASSUME IndInv, NEW c \in Calls, pc[c] # "idle",
         NEW label \in {"audit", "done"},
         NEW result \in {"none", "denied", "executed", "thrown"},
         pc' = [pc EXCEPT ![c] = label],
         outcome' = [outcome EXCEPT ![c] = result],
         result = "denied" => onChain[c] = "absent",
         result = "executed" => recordedOn[c] # Never,
         UNCHANGED <<now, locked, config, engine, request, attested, onChain,
                     recordedOn, spentOn, gates>>
  PROVE  IndInv'
<1>1. TypeOK /\ CallOK(c)
  BY TwoParts, CallByCall
<1>2. pc'[c] = label /\ outcome'[c] = result /\ Alone(c)
  BY <1>1 DEF TypeOK, Alone
<1>3. TypeOK'
  BY <1>1 DEF TypeOK, PCs
<1>4. CallOK(c)'
  BY <1>1, <1>2 DEF CallOK, Passed
<1>5. now' \in now..MaxTime
  BY <1>1, Unmoved
<1>6. Uncounted
  BY <1>1, <1>5, SameUncounted
<1> QED
  BY <1>2, <1>3, <1>4, <1>5, <1>6, QuietStep

\* The segment after the last gate: a denial, or a transaction that has passed
\* everything the deployment asks for.
LEMMA PastApprovalStep ==
  ASSUME IndInv, NEW c \in Calls, pc[c] \in {"simulate", "approval"},
         NEW passed \in SUBSET {"simulation", "approval"},
         PastApproval(c, passed),
         "policy" \in gates[c], "simulation" \in gates[c] \union passed,
         config.live => config.callback /\ "approval" \in gates[c] \union passed,
         UNCHANGED <<locked, config, request, onChain, recordedOn, spentOn>>
  PROVE  IndInv'
<1>1. TypeOK /\ CallOK(c)
  BY TwoParts, CallByCall
<1>2. onChain[c] = "absent" /\ recordedOn[c] = Never /\ spentOn[c] = Never /\ outcome[c] = "none"
      /\ request[c] \in Requests
  BY <1>1 DEF CallOK
<1> DEFINE e == EngineOf(c)
           state == Refreshed(engine[e], now')
<1>3. e \in Engines
  BY EngineOfCall
<1>0. now' \in now..MaxTime
  BY <1>1, Unmoved DEF PastApproval
<1>4. ASSUME engine' \in {engine, [engine EXCEPT ![e] = state]} PROVE Uncounted
  <2>1. CASE engine' = engine
    BY <1>0, <1>1, <2>1, SameUncounted
  <2>2. CASE engine' = [engine EXCEPT ![e] = state]
    BY <1>0, <1>1, <1>3, <2>2, RefreshUncounted
  <2> QED
    BY <1>4, <2>1, <2>2
<1>5. Uncounted => /\ engine' \in [Engines -> EngineState]
                   /\ \A f \in Engines : engine'[f].lastResetDay <= Day(now')
  BY DEF Uncounted
<1>6. Day(now)' = Day(now') /\ now' \in 0..MaxTime
  BY <1>0, <1>1, Later DEF TypeOK
<1>7. CASE request[c].chain = "evm" /\ ~config.neonBroadcast
  <2>1. /\ pc' = [pc EXCEPT ![c] = IF config.compression THEN "audit" ELSE "done"]
        /\ outcome' = [outcome EXCEPT ![c] = "denied"]
        /\ gates' = [gates EXCEPT ![c] = @ \union passed]
        /\ engine' = engine /\ attested' = attested
    BY <1>7 DEF PastApproval, Answer
  <2>2. Alone(c) /\ pc'[c] \in {"audit", "done"} /\ outcome'[c] = "denied"
    BY <1>1, <2>1 DEF TypeOK, Alone
  <2>3. Uncounted
    BY <1>4, <2>1
  <2>4. TypeOK'
    BY <1>1, <2>1, <2>3, <1>5, <1>6 DEF TypeOK, PCs
  <2>5. CallOK(c)'
    BY <1>2, <2>2 DEF CallOK
  <2> QED
    BY <2>2, <2>3, <2>4, <2>5, <1>0, QuietStep
<1>8. CASE ~(request[c].chain = "evm" /\ ~config.neonBroadcast) /\ ~config.zkProofs
  <2>1. /\ pc' = [pc EXCEPT ![c] = "send"] /\ outcome' = outcome
        /\ gates' = [gates EXCEPT ![c] = @ \union passed]
        /\ engine' = engine /\ attested' = attested
    BY <1>8 DEF PastApproval, Await
  <2>2. /\ Alone(c) /\ pc'[c] = "send" /\ outcome'[c] = "none"
        /\ gates'[c] = gates[c] \union passed
    BY <1>1, <1>2, <2>1 DEF TypeOK, Alone
  <2>3. Uncounted
    BY <1>4, <2>1
  <2>4. TypeOK'
    BY <1>1, <2>1, <2>3, <1>5, <1>6 DEF TypeOK, PCs
  <2>5. Passed(c)'
    BY <1>8, <2>2 DEF Passed
  <2>6. CallOK(c)'
    BY <1>2, <2>2, <2>5 DEF CallOK
  <2> QED
    BY <2>2, <2>3, <2>4, <2>6, <1>0, QuietStep
<1>9. CASE ~(request[c].chain = "evm" /\ ~config.neonBroadcast) /\ config.zkProofs
  <2>1. /\ engine' = [engine EXCEPT ![e] = state]
        /\ \/ /\ pc' = [pc EXCEPT ![c] = "send"] /\ outcome' = outcome
              /\ attested' = [attested EXCEPT ![c] = TRUE]
              /\ gates' = [gates EXCEPT ![c] = @ \union passed \union {"proof"}]
           \/ /\ pc' = [pc EXCEPT ![c] = "done"]
              /\ outcome' = [outcome EXCEPT ![c] = "denied"]
              /\ gates' = [gates EXCEPT ![c] = @ \union passed]
              /\ attested' = attested
    BY <1>9 DEF PastApproval, Await, Settle
  <2>2. Uncounted
    BY <1>4, <2>1
  <2>3. /\ engine' \in [Engines -> EngineState]
        /\ \A f \in Engines : engine'[f].lastResetDay <= Day(now')
    BY <1>5, <2>2
  <2> HIDE DEF state
  <2>4. CASE /\ pc' = [pc EXCEPT ![c] = "send"] /\ outcome' = outcome
             /\ attested' = [attested EXCEPT ![c] = TRUE]
             /\ gates' = [gates EXCEPT ![c] = @ \union passed \union {"proof"}]
    <3>1. /\ Alone(c) /\ pc'[c] = "send" /\ outcome'[c] = "none" /\ attested'[c] = TRUE
          /\ gates'[c] = gates[c] \union passed \union {"proof"}
      BY <1>1, <1>2, <2>4 DEF TypeOK, Alone
    <3>2. TypeOK'
      BY <1>1, <1>6, <2>3, <2>4 DEF TypeOK, PCs
    <3>3. Passed(c)'
      BY <1>9, <3>1 DEF Passed
    <3>4. CallOK(c)'
      BY <1>2, <3>1, <3>3 DEF CallOK
    <3> QED
      BY <2>2, <3>1, <3>2, <3>4, <1>0, QuietStep
  <2>5. CASE /\ pc' = [pc EXCEPT ![c] = "done"]
             /\ outcome' = [outcome EXCEPT ![c] = "denied"]
             /\ gates' = [gates EXCEPT ![c] = @ \union passed]
             /\ attested' = attested
    <3>1. Alone(c) /\ pc'[c] = "done" /\ outcome'[c] = "denied"
      BY <1>1, <2>5 DEF TypeOK, Alone
    <3>2. TypeOK'
      BY <1>1, <1>6, <2>3, <2>5 DEF TypeOK, PCs
    <3>3. CallOK(c)'
      BY <1>2, <3>1 DEF CallOK
    <3> QED
      BY <2>2, <3>1, <3>2, <3>3, <1>0, QuietStep
  <2> QED
    BY <2>1, <2>4, <2>5
<1> QED
  BY <1>7, <1>8, <1>9

\* The inspection: a denial, or an admission with room below the limits.
LEMMA InspectStep ==
  ASSUME IndInv, NEW c \in Calls, NEW req \in Requests, Inspect(c, req)
  PROVE  IndInv'
<1>1. TypeOK /\ CallOK(c) /\ CallInv /\ CountInv
  BY TwoParts, CallByCall
<1>2. /\ pc[c] = "idle" /\ onChain[c] = "absent" /\ recordedOn[c] = Never /\ spentOn[c] = Never
      /\ outcome[c] = "none"
  BY <1>1 DEF CallOK, Inspect
<1> DEFINE e == EngineOf(c)
           state == Refreshed(engine[e], now')
<1>3. e \in Engines
  BY EngineOfCall
<1>4. engine' = [engine EXCEPT ![e] = state]
  BY DEF Inspect
<1>0. now' \in now..MaxTime
  BY DEF Inspect
<1>5. Uncounted
  BY <1>0, <1>1, <1>3, <1>4, RefreshUncounted
<1>6. /\ engine' \in [Engines -> EngineState]
      /\ \A f \in Engines : engine'[f].lastResetDay <= Day(now')
  BY <1>5 DEF Uncounted
<1>7. /\ request' = [request EXCEPT ![c] = req]
      /\ UNCHANGED <<locked, config, attested, onChain, recordedOn, spentOn>>
      /\ Cardinality(InFlight) < MaxInFlight
      /\ \/ /\ Allowed(state, req)
            /\ pc' = [pc EXCEPT ![c] = "simulate"] /\ outcome' = outcome
            /\ gates' = [gates EXCEPT ![c] = {"policy"}]
         \/ /\ pc' = [pc EXCEPT ![c] = IF config.compression THEN "audit" ELSE "done"]
            /\ outcome' = [outcome EXCEPT ![c] = "denied"] /\ gates' = gates
  BY DEF Inspect, Await, Answer
<1>8. Day(now)' = Day(now') /\ now' \in 0..MaxTime
  BY <1>0, <1>1, Later DEF TypeOK
<1>9. req \in Request
  BY ConstantsAssumption
<1>10. CASE /\ Allowed(state, req)
            /\ pc' = [pc EXCEPT ![c] = "simulate"] /\ outcome' = outcome
            /\ gates' = [gates EXCEPT ![c] = {"policy"}]
  <2>1. /\ Alone(c) /\ pc'[c] = "simulate" /\ outcome'[c] = "none"
        /\ gates'[c] = {"policy"} /\ request'[c] = req
        /\ onChain'[c] = "absent" /\ recordedOn'[c] = Never /\ spentOn'[c] = Never
    BY <1>1, <1>2, <1>7, <1>10 DEF TypeOK, Alone
  <2>2. /\ state.txCountSession = engine[e].txCountSession
        /\ state.perDayCounts = engine[e].perDayCounts
    <3>1. engine[e] \in EngineState
      BY <1>1, <1>3 DEF TypeOK
    <3> QED
      BY <1>8, <3>1, RefreshedState
  <2>3. /\ engine[e].txCountSession < MaxPerSession
        /\ engine[e].perDayCounts[Day(now)] < MaxPerDay
    BY <1>10, <2>2 DEF Allowed, WithinLimits
  <2> HIDE DEF state
  <2>4. TypeOK'
    BY <1>1, <1>6, <1>7, <1>8, <1>9, <1>10 DEF TypeOK, PCs
  <2>5. CallOK(c)'
    BY <2>1 DEF CallOK, Never
  <2>6. CallInv'
    BY <1>1, <2>1, <2>4, <2>5, OneCall
  <2>7. Cardinality(Pending(e)') <= MaxInFlight
    <3>1. Pending(e)' \subseteq InFlight \union {c} /\ c \notin InFlight
      BY <1>2, <2>1 DEF Pending, InFlight, Alone
    <3>2. IsFiniteSet(InFlight)
      <4>1. InFlight \subseteq Calls /\ IsFiniteSet(Calls)
        BY ConstantsAssumption DEF InFlight
      <4> QED
        BY <4>1, FS_Subset
    <3>3. /\ Cardinality(InFlight \union {c}) = Cardinality(InFlight) + 1
          /\ IsFiniteSet(InFlight \union {c})
      BY <3>1, <3>2, FS_AddElement
    <3>4. Cardinality(Pending(e)') <= Cardinality(InFlight \union {c})
      BY <3>1, <3>3, FS_Subset
    <3>5. /\ Cardinality(InFlight) \in Nat /\ Cardinality(Pending(e)') \in Nat
          /\ MaxInFlight \in Nat
      BY <1>3, <3>2, FS_CardinalityType, PendingFinite, ConstantsAssumption
    <3> QED
      BY <1>7, <3>3, <3>4, <3>5
  <2>8. \A f \in Engines \ {e} : Pending(f)' \subseteq Pending(f)
    BY <2>1, PendingElsewhere
  <2>9. CountInv'
    BY <1>0, <1>1, <1>5, <2>3, <2>7, <2>8, AdmitCount
  <2> QED
    BY <2>6, <2>9 DEF IndInv, CallInv, CountInv
<1>11. CASE /\ pc' = [pc EXCEPT ![c] = IF config.compression THEN "audit" ELSE "done"]
            /\ outcome' = [outcome EXCEPT ![c] = "denied"] /\ gates' = gates
  <2>1. /\ Alone(c) /\ pc'[c] \in {"audit", "done"} /\ outcome'[c] = "denied"
        /\ request'[c] = req
        /\ onChain'[c] = "absent" /\ recordedOn'[c] = Never /\ spentOn'[c] = Never
    BY <1>1, <1>2, <1>7, <1>11 DEF TypeOK, Alone
  <2> HIDE DEF state
  <2>2. TypeOK'
    BY <1>1, <1>6, <1>7, <1>8, <1>9, <1>11 DEF TypeOK, PCs
  <2>3. CallOK(c)'
    BY <2>1 DEF CallOK
  <2> QED
    BY <1>0, <1>5, <1>7, <2>1, <2>2, <2>3, QuietStep
<1> QED
  BY <1>7, <1>10, <1>11

\* A passed simulation leads to the approval, to a denial or past the gates.
LEMMA SimulationPassedStep ==
  ASSUME IndInv, NEW c \in Calls, SimulationPassed(c)
  PROVE  IndInv'
<1>1. TypeOK /\ CallOK(c)
  BY TwoParts, CallByCall
<1>2. /\ pc[c] = "simulate" /\ "policy" \in gates[c] /\ onChain[c] = "absent"
      /\ recordedOn[c] = Never /\ spentOn[c] = Never /\ outcome[c] = "none" /\ request[c] \in Requests
      /\ UNCHANGED <<locked, config, request, onChain, recordedOn, spentOn>>
  BY <1>1 DEF CallOK, SimulationPassed
<1>3. CASE ~config.live
  <2>1. PastApproval(c, {"simulation"})
    BY <1>3 DEF SimulationPassed
  <2> QED
    BY <1>2, <1>3, <2>1, PastApprovalStep
<1>4. CASE config.live
  <2>1. /\ \/ config.callback /\ pc' = [pc EXCEPT ![c] = "approval"] /\ outcome' = outcome
           \/ pc' = [pc EXCEPT ![c] = "done"] /\ outcome' = [outcome EXCEPT ![c] = "denied"]
        /\ gates' = [gates EXCEPT ![c] = @ \union {"simulation"}]
        /\ UNCHANGED <<now, engine, attested>>
    BY <1>4 DEF SimulationPassed, Await, Settle
  <2>2. /\ Alone(c) /\ gates'[c] = gates[c] \union {"simulation"}
        /\ \/ config.callback /\ pc'[c] = "approval" /\ outcome'[c] = "none"
           \/ pc'[c] = "done" /\ outcome'[c] = "denied"
    BY <1>1, <1>2, <2>1 DEF TypeOK, Alone
  <2>0. now' \in now..MaxTime
    BY <1>1, <2>1, Unmoved
  <2>3. Uncounted
    BY <1>1, <2>0, <2>1, SameUncounted
  <2>4. TypeOK'
    BY <1>1, <1>2, <2>1 DEF TypeOK, PCs, Day
  <2>5. CallOK(c)'
    BY <1>2, <1>4, <2>2 DEF CallOK
  <2> QED
    BY <1>2, <2>0, <2>2, <2>3, <2>4, <2>5, QuietStep
<1> QED
  BY <1>3, <1>4

\* The send, answered or not: the transaction has passed every gate.
LEMMA SendStep ==
  ASSUME IndInv, NEW c \in Calls, Sent(c) \/ SendThrows(c)
  PROVE  IndInv'
<1>1. TypeOK /\ CallOK(c)
  BY TwoParts, CallByCall
<1>2. /\ pc[c] = "send" /\ Passed(c) /\ onChain[c] = "absent"
      /\ recordedOn[c] = Never /\ spentOn[c] = Never /\ outcome[c] = "none" /\ request[c] \in Requests
      /\ UNCHANGED <<now, locked, config, engine, request, attested, recordedOn, spentOn, gates>>
      /\ onChain' \in {onChain, [onChain EXCEPT ![c] = "sent"]}
      /\ \/ /\ pc' = [pc EXCEPT ![c] = "confirm"] /\ outcome' = outcome
            /\ onChain' = [onChain EXCEPT ![c] = "sent"]
         \/ pc' = [pc EXCEPT ![c] = "done"] /\ outcome' = [outcome EXCEPT ![c] = "thrown"]
  BY <1>1 DEF CallOK, Sent, SendThrows, Await, Settle
<1>3. /\ Alone(c) /\ onChain'[c] \in {"absent", "sent"}
      /\ \/ pc'[c] = "confirm" /\ outcome'[c] = "none" /\ onChain'[c] = "sent"
         \/ pc'[c] = "done" /\ outcome'[c] = "thrown"
  BY <1>1, <1>2 DEF TypeOK, Alone
<1>0. now' \in now..MaxTime
  BY <1>1, <1>2, Unmoved
<1>4. Uncounted
  BY <1>0, <1>1, <1>2, SameUncounted
<1>5. TypeOK'
  BY <1>1, <1>2 DEF TypeOK, PCs, Day
<1>6. Passed(c)'
  BY <1>2 DEF Passed
<1>7. CallOK(c)'
  BY <1>2, <1>3, <1>6 DEF CallOK
<1> QED
  BY <1>0, <1>2, <1>3, <1>4, <1>5, <1>7, QuietStep

\* The ledger executes what it was sent.
LEMMA LandStep ==
  ASSUME IndInv, NEW c \in Calls, Land(c)
  PROVE  IndInv'
<1>1. TypeOK /\ CallOK(c)
  BY TwoParts, CallByCall
<1>2. /\ onChain[c] = "sent"
      /\ \/ onChain' = [onChain EXCEPT ![c] = "landed"]
         \/ onChain' = [onChain EXCEPT ![c] = "failed"]
      /\ UNCHANGED <<now, locked, config, engine, callVars, recordedOn, spentOn, gates>>
  BY DEF Land
<1>3. Alone(c) /\ onChain'[c] \in {"landed", "failed"}
  BY <1>1, <1>2 DEF TypeOK, Alone, callVars
<1>0. now' \in now..MaxTime
  BY <1>1, <1>2, Unmoved
<1>4. Uncounted
  BY <1>0, <1>1, <1>2, SameUncounted
<1>5. TypeOK'
  BY <1>1, <1>2 DEF TypeOK, PCs, Day, callVars
<1>6. CallOK(c)'
  BY <1>1, <1>2, <1>3 DEF CallOK, Passed, callVars
<1>7. pc'[c] = pc[c]
  BY <1>2 DEF callVars
<1> QED
  BY <1>0, <1>2, <1>3, <1>4, <1>5, <1>6, <1>7, QuietStep

\* The confirmation counts the call on the day recordBroadcast reads.
LEMMA ConfirmedStep ==
  ASSUME IndInv, NEW c \in Calls, Confirmed(c)
  PROVE  IndInv'
<1>1. TypeOK /\ CallOK(c) /\ CallInv /\ CountInv
  BY TwoParts, CallByCall
<1> DEFINE e == EngineOf(c)
<1>0. PICK spent \in now..MaxTime : \E counted \in now..spent :
        /\ engine' = [engine EXCEPT ![e] =
                       Recorded(engine[e], request[c].lamports, counted, spent)]
        /\ recordedOn' = [recordedOn EXCEPT ![c] = Day(counted)]
        /\ spentOn' = [spentOn EXCEPT ![c] = Day(spent)]
        /\ now' = spent
  BY DEF Confirmed
<1>15. PICK counted \in now..now' :
        /\ engine' = [engine EXCEPT ![e] =
                       Recorded(engine[e], request[c].lamports, counted, now')]
        /\ recordedOn' = [recordedOn EXCEPT ![c] = Day(counted)]
        /\ spentOn' = [spentOn EXCEPT ![c] = Day(now')]
  BY <1>0
<1>16. now' \in now..MaxTime
  BY <1>0
<1>2. /\ pc[c] = "confirm" /\ Passed(c) /\ outcome[c] = "none"
      /\ request[c] \in Requests /\ onChain[c] \in ConfirmedBy(c)
      /\ UNCHANGED <<locked, config, request, attested, onChain, gates>>
      /\ \/ pc' = [pc EXCEPT ![c] = "anchor"] /\ outcome' = outcome
         \/ /\ pc' = [pc EXCEPT ![c] = IF config.compression THEN "audit" ELSE "done"]
            /\ outcome' = [outcome EXCEPT ![c] = "executed"]
  BY <1>1 DEF CallOK, Confirmed, Await, Answer
<1>3. engine' = [engine EXCEPT ![e] = Recorded(engine[e], request[c].lamports, counted, now')]
  BY <1>15
<1>4. request[c].lamports \in Nat /\ request[c].chain \in {"svm", "evm"}
  BY <1>2, ConstantsAssumption DEF Request
<1>5. /\ Alone(c) /\ recordedOn'[c] = Day(counted) /\ spentOn'[c] = Day(now')
      /\ \/ pc'[c] = "anchor" /\ outcome'[c] = "none"
         \/ pc'[c] \in {"audit", "done"} /\ outcome'[c] = "executed"
  BY <1>1, <1>2, <1>15 DEF TypeOK, Alone
<1>6. /\ Day(counted) # Never /\ Day(counted) \in Days /\ Day(now') # Never
      /\ Day(now') \in Days /\ Day(now)' = Day(now') /\ now' \in 0..MaxTime
  <2>1. now \in 0..MaxTime
    BY <1>1 DEF TypeOK
  <2>2. now' \in 0..MaxTime /\ counted \in 0..MaxTime /\ Day(now)' = Day(now')
    BY <1>16, <2>1, Later, ConstantsAssumption
  <2> QED
    BY <2>2, DaysOf, DaysNat
<1>7. /\ onChain[c] \in {"landed", "failed"}
      /\ request[c].chain = "evm" => onChain[c] = "landed"
  BY <1>2, <1>4 DEF ConfirmedBy
<1>8. c \in Pending(e) /\ Pending(e)' = Pending(e) \ {c}
  <2>1. c \in Pending(e)
    BY <1>2 DEF Pending
  <2>2. c \notin Pending(e)'
    BY <1>5 DEF Pending
  <2>3. Pending(e)' \ {c} = Pending(e) \ {c}
    BY <1>5, PendingElsewhere
  <2> QED
    BY <2>1, <2>2, <2>3
<1>9. \A f \in Engines \ {e} : Pending(f)' \subseteq Pending(f)
  BY <1>5, PendingElsewhere
<1>10. /\ CountInv'
       /\ engine' \in [Engines -> EngineState]
       /\ \A f \in Engines : engine'[f].lastResetDay <= Day(now')
  <2> DEFINE lamports == request[c].lamports
  <2>1. lamports \in Nat
    BY <1>4
  <2>2. engine' = [engine EXCEPT ![EngineOf(c)] =
                     Recorded(engine[EngineOf(c)], lamports, counted, now')]
    BY <1>3
  <2> HIDE DEF lamports
  <2> QED
    BY <1>1, <1>8, <1>9, <1>16, <2>1, <2>2, RecordCount
<1>11. TypeOK'
  BY <1>1, <1>2, <1>6, <1>10, <1>15 DEF TypeOK, PCs
<1>12. Passed(c)'
  BY <1>2 DEF Passed
<1>13. CallOK(c)'
  BY <1>2, <1>5, <1>6, <1>7, <1>12 DEF CallOK
<1>14. CallInv'
  BY <1>1, <1>5, <1>11, <1>13, OneCall
<1> QED
  BY <1>10, <1>14 DEF IndInv, CallInv, CountInv

\* The clock and the lock: no call moves, and a new day counts from zero.
LEMMA EnvironmentStep ==
  ASSUME IndInv, Tick \/ SetLock \/ UNCHANGED vars
  PROVE  IndInv'
<1>1. CallInv /\ CountInv /\ TypeOK /\ \A c \in Calls : CallOK(c)
  BY TwoParts, CallByCall
<1>2. /\ UNCHANGED <<config, engine, pc, request, attested, outcome, onChain,
                     recordedOn, spentOn, gates>>
      /\ now' \in 0..MaxTime /\ now <= now' /\ now' \in now..MaxTime /\ locked' \in BOOLEAN
  <2>1. now \in 0..MaxTime /\ locked \in BOOLEAN /\ MaxTime \in Nat
    BY <1>1, ConstantsAssumption DEF TypeOK
  <2>2. CASE Tick
    BY <2>1, <2>2 DEF Tick, callVars
  <2>3. CASE SetLock
    <3>1. (~locked) \in BOOLEAN
      OBVIOUS
    <3> QED
      BY <2>1, <2>3, <3>1 DEF SetLock, callVars
  <2>4. CASE UNCHANGED vars
    BY <2>1, <2>4 DEF vars, callVars
  <2> QED
    BY <2>2, <2>3, <2>4
<1>3. Day(now) \in Nat /\ Day(now') \in Nat /\ Day(now) <= Day(now') /\ Day(now)' = Day(now')
  BY <1>1, <1>2, DayMonotone DEF TypeOK, Day
<1>4. \A e \in Engines : engine[e].lastResetDay \in Nat
  BY <1>1, DaysNat DEF TypeOK, EngineState
<1>5. TypeOK'
  <2>1. \A e \in Engines : engine'[e].lastResetDay <= Day(now)'
    BY <1>1, <1>2, <1>3, <1>4 DEF TypeOK
  <2> QED
    BY <1>1, <1>2, <2>1 DEF TypeOK
<1>6. CallInv'
  BY <1>1, <1>2, <1>5
  DEF CallInv, Stages, BroadcastPassedGates, AnswersAreTrue, RecordedLanded, Passed
<1>7. \A e \in Engines : Pending(e)' \subseteq Pending(e)
  BY <1>2 DEF Pending, EngineOf
<1>8. Uncounted
  BY <1>1, <1>2, SameUncounted
<1>9. CountInv'
  BY <1>1, <1>2, <1>7, <1>8, QuietCount
<1> QED
  BY <1>6, <1>9 DEF IndInv, CallInv, CountInv

-----------------------------------------------------------------------------
(* The theorems.                                                           *)

\* Every step keeps the invariant.
LEMMA StepInv == IndInv /\ [Next]_vars => IndInv'
<1> SUFFICES ASSUME IndInv, [Next]_vars PROVE IndInv'
  OBVIOUS
<1>1. CASE Tick \/ SetLock \/ UNCHANGED vars
  BY <1>1, EnvironmentStep
<1>2. ASSUME NEW c \in Calls,
             \/ \E req \in Requests : Inspect(c, req)
             \/ SimulationFailed(c) \/ SimulationThrows(c) \/ SimulationPassed(c)
             \/ Approved(c) \/ Rejected(c) \/ ApprovalThrows(c)
             \/ Sent(c) \/ SendThrows(c)
             \/ Land(c)
             \/ Confirmed(c) \/ ConfirmThrows(c)
             \/ Anchored(c) \/ AnchorThrows(c)
             \/ Audited(c)
      PROVE  IndInv'
  <2>1. CallOK(c) /\ TypeOK
    BY TwoParts, CallByCall
  <2>2. ASSUME NEW req \in Requests, Inspect(c, req) PROVE IndInv'
    BY <2>2, InspectStep
  <2>3. CASE SimulationFailed(c)
    BY <2>1, <2>3, AnswerStep DEF SimulationFailed, Answer, CallOK
  <2>4. CASE SimulationThrows(c)
    BY <2>4, AnswerStep DEF SimulationThrows, Settle
  <2>5. CASE SimulationPassed(c)
    BY <2>5, SimulationPassedStep
  <2>6. CASE Approved(c)
    <3>1. /\ pc[c] = "approval" /\ "policy" \in gates[c] /\ "simulation" \in gates[c]
          /\ config.callback /\ PastApproval(c, {"approval"})
          /\ UNCHANGED <<locked, config, request, onChain, recordedOn, spentOn>>
      BY <2>1, <2>6 DEF Approved, CallOK
    <3> QED
      BY <3>1, PastApprovalStep
  <2>7. CASE Rejected(c)
    BY <2>1, <2>7, AnswerStep DEF Rejected, Settle, CallOK
  <2>8. CASE ApprovalThrows(c)
    BY <2>8, AnswerStep DEF ApprovalThrows, Settle
  <2>9. CASE Sent(c) \/ SendThrows(c)
    BY <2>9, SendStep
  <2>10. CASE Land(c)
    BY <2>10, LandStep
  <2>11. CASE Confirmed(c)
    BY <2>11, ConfirmedStep
  <2>12. CASE ConfirmThrows(c)
    BY <2>12, AnswerStep DEF ConfirmThrows, Settle
  <2>13. CASE Anchored(c)
    BY <2>1, <2>13, AnswerStep DEF Anchored, Answer, CallOK
  <2>14. CASE AnchorThrows(c)
    BY <2>14, AnswerStep DEF AnchorThrows, Settle
  <2>15. CASE Audited(c)
    <3>1. pc[c] = "audit" /\ outcome[c] \in {"none", "denied", "executed", "thrown"}
      BY <2>1, <2>15 DEF Audited, TypeOK
    <3>2. /\ outcome[c] = "denied" => onChain[c] = "absent"
          /\ outcome[c] = "executed" => recordedOn[c] # Never
      BY <2>1 DEF CallOK
    <3> QED
      BY <2>15, <3>1, <3>2, AnswerStep DEF Audited, Settle
  <2> QED
    BY <1>2, <2>2, <2>3, <2>4, <2>5, <2>6, <2>7, <2>8, <2>9, <2>10, <2>11, <2>12,
       <2>13, <2>14, <2>15
<1> QED
  BY <1>1, <1>2 DEF Next

\* The inductive invariant holds in every reachable state.
THEOREM IndCorrect == Spec => []IndInv
BY InitInv, StepInv, PTL DEF Spec

\* The types are respected and no engine's last reset is ahead of the clock.
THEOREM TypeCorrect == Spec => []TypeOK
<1>1. IndInv => TypeOK
  BY DEF IndInv
<1> QED
  BY <1>1, IndCorrect, PTL

\* A session's count is overshot by less than the calls its callers keep open
\* at once, so that callers who wait for each answer get the limit they set.
THEOREM SessionOvershootHolds == Spec => []SessionOvershoot
<1>1. IndInv => SessionOvershoot
  BY DEF IndInv
<1> QED
  BY <1>1, IndCorrect, PTL

\* So is the count of every day, over midnights.
THEOREM DayOvershootHolds == Spec => []DayOvershoot
<1>1. IndInv => DayOvershoot
  BY DEF IndInv
<1> QED
  BY <1>1, IndCorrect, PTL

\* No transaction reaches a node past a gate its deployment asks for.
THEOREM BroadcastPassedGatesHolds == Spec => []BroadcastPassedGates
<1>1. IndInv => BroadcastPassedGates
  BY DEF IndInv
<1> QED
  BY <1>1, IndCorrect, PTL

\* A denial sent nothing, and an execution is on the ledger and counted.
THEOREM AnswersAreTrueHolds == Spec => []AnswersAreTrue
<1>1. IndInv => AnswersAreTrue
  BY DEF IndInv
<1> QED
  BY <1>1, IndCorrect, PTL

\* Nothing is counted that the ledger has not executed.
THEOREM RecordedLandedHolds == Spec => []RecordedLanded
<1>1. IndInv => RecordedLanded
  BY DEF IndInv
<1> QED
  BY <1>1, IndCorrect, PTL

-----------------------------------------------------------------------------
(* Sums over finite sets.  A sum of natural numbers counts the units that   *)
(* make them up, and so has the laws of cardinalities.                     *)

\* A set of natural numbers that is not empty has a least one.
LEMMA LeastNat ==
  ASSUME NEW T, T \subseteq Nat, T # {}
  PROVE  \E m \in T : \A n \in T : m <= n
<1> DEFINE R == OpToRel(<, Nat)
<1>1. IsWellFoundedOn(R, Nat)
  BY NatLessThanWellFounded
<1>2. \A x \in Nat, y \in Nat : <<y, x>> \in R <=> y < x
  BY DEF OpToRel
<1> HIDE DEF R
<1>3. PICK m \in T : \A n \in T : ~(<<n, m>> \in R)
  BY <1>1, WFMin
<1>4. m \in Nat /\ \A n \in T : n \in Nat /\ ~(n < m)
  BY <1>2, <1>3
<1> QED
  BY <1>4

\* The units of the members of S, of which c has w[c].
Units(w, S) == UNION {{c} \X (1..w[c]) : c \in S}
Worth(w, S) == Cardinality(Units(w, S))

LEMMA UnitsFinite ==
  ASSUME NEW w, NEW S, IsFiniteSet(S), \A c \in S : w[c] \in Nat
  PROVE  IsFiniteSet(Units(w, S)) /\ Worth(w, S) \in Nat
<1> DEFINE f == [c \in S |-> {c} \X (1..w[c])]
           T == {{c} \X (1..w[c]) : c \in S}
<1>1. f \in Surjection(S, T)
  BY DEF Surjection
<1>2. IsFiniteSet(T)
  BY <1>1, FS_Surjection
<1>3. ASSUME NEW c \in S PROVE IsFiniteSet({c} \X (1..w[c]))
  <2>1. w[c] \in Int /\ 1 \in Int
    OBVIOUS
  <2>2. IsFiniteSet(1..w[c]) /\ IsFiniteSet({c})
    BY <2>1, FS_Interval, FS_Singleton
  <2> QED
    BY <2>2, FS_Product
<1>4. IsFiniteSet(UNION T)
  <2>1. \A X \in T : IsFiniteSet(X)
    BY <1>3
  <2> HIDE DEF T
  <2> QED
    BY <1>2, <2>1, FS_UNION
<1> QED
  BY <1>4, FS_CardinalityType DEF Units, Worth

\* One member more counts for what it is worth.
LEMMA CountAdds ==
  ASSUME NEW w, NEW S, IsFiniteSet(S), \A c \in S : w[c] \in Nat, NEW x \in S
  PROVE  Worth(w, S) = w[x] + Worth(w, S \ {x})
<1> DEFINE X == {x} \X (1..w[x])
           Y == Units(w, S \ {x})
<1>1. IsFiniteSet(S \ {x}) /\ \A c \in S \ {x} : w[c] \in Nat
  BY FS_RemoveElement
<1>2. IsFiniteSet(Y) /\ Cardinality(Y) \in Nat
  BY <1>1, UnitsFinite, Zenon DEF Worth
<1>3. IsFiniteSet(X) /\ Cardinality(X) = w[x]
  <2>1. IsFiniteSet(1..w[x]) /\ Cardinality(1..w[x]) = w[x]
    BY FS_Interval
  <2>2. IsFiniteSet({x}) /\ Cardinality({x}) = 1
    BY FS_Singleton
  <2>3. IsFiniteSet(X) /\ Cardinality(X) = Cardinality({x}) * Cardinality(1..w[x])
    BY <2>1, <2>2, FS_Product
  <2> QED
    BY <2>1, <2>2, <2>3
<1>4. Units(w, S) = X \union Y /\ X \intersect Y = {}
  <2>1. \A p \in X : p[1] = x
    OBVIOUS
  <2>2. \A p \in Y : p[1] # x
    BY DEF Units
  <2>3. Units(w, S) = X \union Y
    BY DEF Units
  <2> QED
    BY <2>1, <2>2, <2>3
<1> HIDE DEF X, Y
<1>5. Cardinality(X \union Y) = Cardinality(X) + Cardinality(Y) - Cardinality(X \intersect Y)
  BY <1>2, <1>3, FS_Union
<1>6. Cardinality(X \union Y) = w[x] + Cardinality(Y)
  <2>1. Cardinality(X \intersect Y) = 0
    BY <1>4, FS_EmptySet
  <2>2. w[x] \in Nat
    OBVIOUS
  <2> QED
    BY <1>2, <1>3, <1>5, <2>1, <2>2
<1> QED
  BY <1>4, <1>6, Zenon DEF Worth, Y

\* f has the sums of w over the subsets of T, added up one member at a time.
One(S) == CHOOSE x \in S : TRUE
Adds(f, w, T) ==
  f = [s \in SUBSET T |-> IF s = {} THEN 0 ELSE w[One(s)] + f[s \ {One(s)}]]

LEMMA OneIsMember ==
  ASSUME NEW S, S # {}
  PROVE  One(S) \in S
BY DEF One

LEMMA CountsAdd ==
  ASSUME NEW w, NEW T, IsFiniteSet(T), \A c \in T : w[c] \in Nat
  PROVE  Adds([s \in SUBSET T |-> Worth(w, s)], w, T)
<1> DEFINE f == [s \in SUBSET T |-> Worth(w, s)]
<1>1. ASSUME NEW s \in SUBSET T
      PROVE  Worth(w, s) = IF s = {} THEN 0 ELSE w[One(s)] + f[s \ {One(s)}]
  <2>1. CASE s = {}
    BY <2>1, FS_EmptySet DEF Worth, Units
  <2>2. CASE s # {}
    <3>1. One(s) \in s /\ s \ {One(s)} \in SUBSET T
      BY <2>2, OneIsMember
    <3>2. IsFiniteSet(s) /\ \A c \in s : w[c] \in Nat
      BY FS_Subset
    <3>3. Worth(w, s) = w[One(s)] + Worth(w, s \ {One(s)})
      BY <3>1, <3>2, CountAdds
    <3> QED
      BY <2>2, <3>1, <3>3
  <2> QED
    BY <2>1, <2>2
<1> QED
  BY <1>1 DEF Adds

LEMMA AddsCounts ==
  ASSUME NEW w, NEW T, IsFiniteSet(T), \A c \in T : w[c] \in Nat,
         NEW f, Adds(f, w, T)
  PROVE  f[T] = Worth(w, T)
<1> DEFINE Bad == {s \in SUBSET T : f[s] # Worth(w, s)}
<1>0. ASSUME NEW s \in SUBSET T
      PROVE  /\ IsFiniteSet(s) /\ Cardinality(s) \in Nat /\ \A c \in s : w[c] \in Nat
             /\ f[s] = IF s = {} THEN 0 ELSE w[One(s)] + f[s \ {One(s)}]
  BY FS_Subset, FS_CardinalityType DEF Adds
<1>1. SUFFICES ASSUME Bad # {} PROVE FALSE
  OBVIOUS
<1> DEFINE Sizes == {Cardinality(s) : s \in Bad}
<1>2. Sizes \subseteq Nat /\ Sizes # {}
  BY <1>0, <1>1
<1> HIDE DEF Sizes
<1>3. PICK n \in Sizes : \A m \in Sizes : n <= m
  BY <1>2, LeastNat
<1> USE DEF Sizes
<1>4. PICK s \in Bad : n = Cardinality(s)
  BY <1>3
<1>5. s \in SUBSET T /\ f[s] # Worth(w, s) /\ \A r \in Bad : Cardinality(s) <= Cardinality(r)
  BY <1>3, <1>4
<1>6. s # {}
  BY <1>0, <1>5, FS_EmptySet DEF Worth, Units
<1> DEFINE x == One(s)
           r == s \ {x}
<1>7. x \in s /\ r \in SUBSET T
  BY <1>5, <1>6, OneIsMember
<1>8. f[s] = w[x] + f[r]
  BY <1>0, <1>5, <1>6
<1>9. Worth(w, s) = w[x] + Worth(w, r)
  <2>1. IsFiniteSet(s) /\ \A c \in s : w[c] \in Nat
    BY <1>0, <1>5
  <2> QED
    BY <1>7, <2>1, CountAdds
<1>10. r \in Bad
  BY <1>5, <1>7, <1>8, <1>9
<1>11. Cardinality(r) = Cardinality(s) - 1
  BY <1>0, <1>5, <1>7, FS_RemoveElement
<1>12. Cardinality(s) \in Nat
  BY <1>0, <1>5
<1> HIDE DEF Bad
<1> QED
  BY <1>5, <1>10, <1>11, <1>12

\* Only what the members are worth matters, ...
LEMMA CountSame ==
  ASSUME NEW v, NEW w, NEW S, \A c \in S : v[c] = w[c]
  PROVE  Worth(v, S) = Worth(w, S)
BY DEF Worth, Units

\* ... fewer members count for less, ...
LEMMA CountSubset ==
  ASSUME NEW w, NEW S, IsFiniteSet(S), \A c \in S : w[c] \in Nat, NEW R \in SUBSET S
  PROVE  Worth(w, R) <= Worth(w, S)
<1>1. Units(w, R) \subseteq Units(w, S)
  BY DEF Units
<1> QED
  BY <1>1, UnitsFinite, FS_Subset DEF Worth

\* ... and members that are worth M at most count for M each.
LEMMA CountBound ==
  ASSUME NEW w, NEW S, IsFiniteSet(S), NEW M \in Nat,
         \A c \in S : w[c] \in Nat /\ w[c] <= M
  PROVE  Worth(w, S) <= Cardinality(S) * M
<1>1. Units(w, S) \subseteq S \X (1..M)
  BY DEF Units
<1>2. M \in Int /\ 1 \in Int
  OBVIOUS
<1>3. IsFiniteSet(1..M) /\ Cardinality(1..M) = M
  BY <1>2, FS_Interval
<1>4. IsFiniteSet(S \X (1..M)) /\ Cardinality(S \X (1..M)) = Cardinality(S) * M
  BY <1>3, FS_Product
<1> QED
  BY <1>1, <1>4, FS_Subset DEF Worth

\* The lamports of some calls, as requested in r.
Lamports(r, S) == MapThenSumSet(LAMBDA c : r[c].lamports, S)
Weights(r, S) == [c \in S |-> r[c].lamports]

LEMMA LamportsCount ==
  ASSUME NEW r, NEW T, IsFiniteSet(T), \A c \in T : r[c].lamports \in Nat
  PROVE  Lamports(r, T) = Worth(Weights(r, T), T)
<1> DEFINE Sums(f) ==
             f = [s \in SUBSET T |-> IF s = {} THEN 0
                   ELSE r[CHOOSE x \in s : TRUE].lamports + f[s \ {CHOOSE x \in s : TRUE}]]
           F == CHOOSE f : Sums(f)
           w == Weights(r, T)
<1>1. Lamports(r, T) = F[T]
  BY Zenon DEF Lamports, MapThenSumSet, MapThenFoldSet
<1>2. ASSUME NEW f PROVE Sums(f) <=> Adds(f, w, T)
  <2>1. \A s \in SUBSET T : s # {} => w[One(s)] = r[One(s)].lamports
    BY OneIsMember DEF Weights
  <2> QED
    BY <2>1 DEF Adds, One
<1> HIDE DEF F
<1>3. \A c \in T : w[c] \in Nat
  BY DEF Weights
<1> HIDE DEF w
<1>4. Adds([s \in SUBSET T |-> Worth(w, s)], w, T)
  BY <1>3, CountsAdd
<1>5. \E f : Sums(f)
  BY <1>2, <1>4
<1> HIDE DEF Sums
<1>6. Sums(F)
  BY <1>5, Zenon DEF F
<1>7. Adds(F, w, T)
  BY <1>2, <1>6
<1>8. F[T] = Worth(w, T)
  BY <1>3, <1>7, AddsCounts
<1> QED
  BY <1>1, <1>8 DEF w

\* The same of the sums of the model.
LEMMA LamportsLaws ==
  ASSUME NEW r, NEW S, IsFiniteSet(S), \A c \in S : r[c].lamports \in Nat
  PROVE  /\ Lamports(r, S) \in Nat
         /\ S = {} => Lamports(r, S) = 0
         /\ \A x \in S : Lamports(r, S) = r[x].lamports + Lamports(r, S \ {x})
         /\ \A R \in SUBSET S : Lamports(r, R) \in Nat /\ Lamports(r, R) <= Lamports(r, S)
         /\ \A M \in Nat :
              (\A c \in S : r[c].lamports <= M) => Lamports(r, S) <= Cardinality(S) * M
<1> DEFINE w == Weights(r, S)
<1>1. ASSUME NEW R \in SUBSET S
      PROVE  Lamports(r, R) = Worth(w, R) /\ Worth(w, R) \in Nat
  <2>1. IsFiniteSet(R) /\ \A c \in R : r[c].lamports \in Nat
    BY FS_Subset
  <2>2. Lamports(r, R) = Worth(Weights(r, R), R)
    BY <2>1, LamportsCount
  <2>3. \A c \in R : Weights(r, R)[c] = w[c] /\ w[c] \in Nat
    BY DEF Weights
  <2>4. Worth(Weights(r, R), R) = Worth(w, R)
    BY <2>3, CountSame, Zenon
  <2>5. Worth(w, R) \in Nat
    BY <2>1, <2>3, UnitsFinite
  <2> QED
    BY <2>2, <2>4, <2>5
<1>2. \A c \in S : w[c] = r[c].lamports /\ w[c] \in Nat
  BY DEF Weights
<1> HIDE DEF w
<1>3. S = {} => Lamports(r, S) = 0
  BY <1>1, FS_EmptySet DEF Worth, Units
<1>4. ASSUME NEW x \in S
      PROVE  Lamports(r, S) = r[x].lamports + Lamports(r, S \ {x})
  <2>1. Worth(w, S) = w[x] + Worth(w, S \ {x})
    BY <1>2, CountAdds
  <2>2. S \in SUBSET S /\ S \ {x} \in SUBSET S
    OBVIOUS
  <2> QED
    BY <1>1, <1>2, <2>1, <2>2
<1>5. \A R \in SUBSET S : Worth(w, R) <= Worth(w, S)
  BY <1>2, CountSubset
<1>6. ASSUME NEW M \in Nat, \A c \in S : r[c].lamports <= M
      PROVE  Lamports(r, S) <= Cardinality(S) * M
  <2>1. Worth(w, S) <= Cardinality(S) * M
    BY <1>2, <1>6, CountBound
  <2> QED
    BY <1>1, <2>1
<1> QED
  BY <1>1, <1>3, <1>4, <1>5, <1>6

LEMMA LamportsSame ==
  ASSUME NEW q, NEW r, NEW S, IsFiniteSet(S), \A c \in S : q[c].lamports \in Nat,
         \A c \in S : r[c].lamports = q[c].lamports
  PROVE  Lamports(r, S) = Lamports(q, S)
<1>1. \A c \in S : r[c].lamports \in Nat
  OBVIOUS
<1>2. Lamports(r, S) = Worth(Weights(r, S), S) /\ Lamports(q, S) = Worth(Weights(q, S), S)
  BY <1>1, LamportsCount
<1>3. \A c \in S : Weights(r, S)[c] = Weights(q, S)[c]
  BY DEF Weights
<1> QED
  BY <1>2, <1>3, CountSame
-----------------------------------------------------------------------------
(* The books and the spend.                                                *)

\* What a step that records nothing does to the engines and to what is recorded.
Quietly ==
  /\ recordedOn' = recordedOn /\ spentOn' = spentOn
  /\ now' \in now..MaxTime
  /\ \A e \in Engines : engine'[e] \in {engine[e], Refreshed(engine[e], now')}
  /\ \A c \in Calls : recordedOn[c] # Never => request'[c] = request[c]

\* The sums of the properties.
LEMMA LamportsOfCalls ==
  ASSUME NEW T
  PROVE  LamportsOf(T) = Lamports(request, T)
BY Zenon DEF LamportsOf, Lamports

LEMMA LamportsOfCallsNext ==
  \A e \in Engines :
    /\ LamportsOf(Pending(e))' = Lamports(request', Pending(e)')
    /\ \A d \in Days : LamportsOf(SpendsOn(e, d))' = Lamports(request', SpendsOn(e, d)')
BY DEF LamportsOf, Lamports, MapThenSumSet, MapThenFoldSet

LEMMA CallSets ==
  ASSUME TypeOK, NEW S \in SUBSET Calls
  PROVE  /\ IsFiniteSet(S) /\ Cardinality(S) \in Nat
         /\ \A c \in S : request[c].lamports \in Nat
<1>1. IsFiniteSet(S)
  BY ConstantsAssumption, FS_Subset
<1>2. \A c \in S : request[c].lamports \in Nat
  BY DEF TypeOK, Request, NoRequest
<1> QED
  BY <1>1, <1>2, FS_CardinalityType

\* A refresh forgets what was spent on another day, and that alone.
LEMMA RefreshedSpend ==
  ASSUME NEW t \in 0..MaxTime, NEW state \in EngineState
  PROVE  Refreshed(state, t).spentToday =
           IF state.lastResetDay = Day(t) THEN state.spentToday ELSE 0
BY DEF Refreshed, EngineState

\* The books of one engine.
BooksOf(state, e) ==
  /\ state.txCountSession = Cardinality(Recordings(e))
  /\ \A d \in Days : state.perDayCounts[d] = Cardinality(RecordingsOn(e, d))
  /\ state.spentToday = LamportsOf(SpendsOn(e, state.lastResetDay))

\* They are kept by a refresh: the day it goes on to has no recording yet.
LEMMA BooksRefreshed ==
  ASSUME TypeOK, RecordedByReset, NEW e \in Engines,
         now' \in now..MaxTime, BooksOf(engine[e], e)
  PROVE  BooksOf(Refreshed(engine[e], now'), e)
<1> DEFINE state == engine[e]
           fresh == Refreshed(state, now')
           today == Day(now')
<1>1. /\ state \in EngineState /\ now' \in 0..MaxTime /\ state.lastResetDay <= today
      /\ today \in Nat
  <2>1. state \in EngineState /\ now \in 0..MaxTime /\ state.lastResetDay <= Day(now)
    BY DEF TypeOK
  <2>2. now' \in 0..MaxTime /\ Day(now) \in Nat /\ today \in Nat /\ Day(now) <= today
    BY <2>1, Later
  <2>3. state.lastResetDay \in Nat
    BY <2>1, DaysNat DEF EngineState
  <2> QED
    BY <2>1, <2>2, <2>3
<1>2. /\ fresh.lastResetDay = today
      /\ fresh.txCountSession = state.txCountSession
      /\ fresh.perDayCounts = state.perDayCounts
      /\ fresh.spentToday = IF state.lastResetDay = today THEN state.spentToday ELSE 0
  BY <1>1, RefreshedState, RefreshedSpend
<1>3. state.lastResetDay # today => SpendsOn(e, today) = {}
  <2> SUFFICES ASSUME state.lastResetDay # today, NEW c \in SpendsOn(e, today)
               PROVE  FALSE
    OBVIOUS
  <2>1. c \in Calls /\ EngineOf(c) = e /\ spentOn[c] = today /\ spentOn[c] # Never
    BY <1>1 DEF SpendsOn, Recordings, Never
  <2>2. today <= state.lastResetDay
    BY <2>1 DEF RecordedByReset
  <2>3. today \in Nat /\ state.lastResetDay \in Nat
    BY <1>1, DaysNat DEF EngineState
  <2> QED
    BY <1>1, <2>2, <2>3
<1>4. LamportsOf({}) = 0
  <2>1. Lamports(request, {}) = 0
    BY FS_EmptySet, LamportsLaws
  <2> QED
    BY <2>1, LamportsOfCalls
<1> HIDE DEF fresh, today
<1>5. fresh.spentToday = LamportsOf(SpendsOn(e, today))
  BY <1>2, <1>3, <1>4 DEF BooksOf
<1> QED
  BY <1>2, <1>5 DEF BooksOf, fresh

\* A step that records nothing keeps the books.
LEMMA BooksQuiet ==
  ASSUME TypeOK, TypeOK', RecordedByReset, BooksMatchRecords, Quietly
  PROVE  RecordedByReset' /\ BooksMatchRecords'
<1>1. ASSUME NEW e \in Engines
      PROVE  BooksOf(engine'[e], e)
  <2>1. BooksOf(engine[e], e)
    BY DEF BooksMatchRecords, BooksOf
  <2>2. BooksOf(Refreshed(engine[e], now'), e)
    BY <2>1, BooksRefreshed DEF Quietly
  <2>3. engine'[e] = engine[e] \/ engine'[e] = Refreshed(engine[e], now')
    BY DEF Quietly
  <2> QED
    BY <2>1, <2>2, <2>3
<1>2. ASSUME NEW e \in Engines, NEW d \in Days
      PROVE  /\ Recordings(e)' = Recordings(e)
             /\ RecordingsOn(e, d)' = RecordingsOn(e, d)
             /\ SpendsOn(e, d)' = SpendsOn(e, d)
             /\ LamportsOf(SpendsOn(e, d))' = LamportsOf(SpendsOn(e, d))
  <2>1. /\ Recordings(e)' = Recordings(e) /\ RecordingsOn(e, d)' = RecordingsOn(e, d)
        /\ SpendsOn(e, d)' = SpendsOn(e, d)
    BY DEF Quietly, Recordings, RecordingsOn, SpendsOn, EngineOf
  <2> DEFINE S == SpendsOn(e, d)
  <2>2. S \in SUBSET Calls /\ \A c \in S : request'[c] = request[c]
    BY DEF SpendsOn, Recordings, Quietly
  <2>3. LamportsOf(S)' = Lamports(request', S)
    BY <2>1, LamportsOfCallsNext
  <2>4. LamportsOf(S) = Lamports(request, S)
    BY LamportsOfCalls
  <2> HIDE DEF S
  <2>5. IsFiniteSet(S) /\ \A c \in S : request[c].lamports \in Nat
    BY <2>2, CallSets
  <2>6. Lamports(request', S) = Lamports(request, S)
    BY <2>2, <2>5, LamportsSame
  <2> QED
    BY <2>1, <2>3, <2>4, <2>6 DEF S
<1>3. BooksMatchRecords'
  <2> SUFFICES ASSUME NEW e \in Engines
               PROVE  (/\ engine[e].txCountSession = Cardinality(Recordings(e))
                       /\ \A d \in Days : engine[e].perDayCounts[d] = Cardinality(RecordingsOn(e, d))
                       /\ engine[e].spentToday = LamportsOf(SpendsOn(e, engine[e].lastResetDay)))'
    BY DEF BooksMatchRecords
  <2>1. engine'[e].lastResetDay \in Days
    BY DEF TypeOK, EngineState
  <2> DEFINE d == engine'[e].lastResetDay
  <2>2. engine'[e].spentToday = LamportsOf(SpendsOn(e, d))
    BY <1>1 DEF BooksOf
  <2>3. LamportsOf(SpendsOn(e, engine[e].lastResetDay))' = Lamports(request', SpendsOn(e, engine[e].lastResetDay)')
    BY DEF LamportsOf, Lamports, MapThenSumSet, MapThenFoldSet
  <2>4. SpendsOn(e, engine[e].lastResetDay)' = SpendsOn(e, d)
    BY <2>1, <1>2 DEF SpendsOn
  <2> QED
    BY <1>1, <1>2, <2>1, <2>2, <2>3, <2>4 DEF BooksOf
<1>4. RecordedByReset'
  <2> SUFFICES ASSUME NEW c \in Calls, spentOn'[c] # Never
               PROVE  spentOn'[c] <= engine'[EngineOf(c)].lastResetDay
    BY DEF RecordedByReset, EngineOf
  <2> DEFINE e == EngineOf(c)
  <2>1. e \in Engines
    BY EngineOfCall
  <2>2. spentOn'[c] = spentOn[c] /\ spentOn[c] <= engine[e].lastResetDay
    BY DEF Quietly, RecordedByReset
  <2>3. /\ spentOn[c] \in Nat /\ engine[e].lastResetDay \in Nat /\ Day(now') \in Nat
        /\ engine[e].lastResetDay <= Day(now') /\ now' \in 0..MaxTime
    <3>1. /\ spentOn[c] \in Nat /\ engine[e].lastResetDay \in Nat
          /\ engine[e].lastResetDay <= Day(now)
      BY <2>1, <2>2, DaysNat DEF TypeOK, EngineState, Quietly
    <3>2. now' \in 0..MaxTime /\ Day(now) \in Nat /\ Day(now') \in Nat /\ Day(now) <= Day(now')
      BY Later DEF TypeOK, Quietly
    <3> QED
      BY <3>1, <3>2
  <2>4. \/ engine'[e] = engine[e]
        \/ engine'[e] = Refreshed(engine[e], now') /\ Refreshed(engine[e], now').lastResetDay = Day(now')
    BY <2>1, <2>3, RefreshedState DEF Quietly, TypeOK
  <2> QED
    BY <2>2, <2>3, <2>4
<1> QED
  BY <1>3, <1>4

\* What an engine that admits nothing and records nothing has spent and let through
\* does not grow.
LEMMA SpendKept ==
  ASSUME TypeOK, TypeOK', SpendOvershoot, NEW e \in Engines,
         now' \in now..MaxTime,
         engine'[e] \in {engine[e], Refreshed(engine[e], now')},
         Pending(e)' \subseteq Pending(e),
         \A c \in Pending(e)' : request'[c] = request[c]
  PROVE  engine'[e].spentToday + LamportsOf(Pending(e))' <= MaxInFlight * MaxLamportsPerTx
<1> DEFINE P == Pending(e)
           Q == Pending(e)'
<1>1. P \in SUBSET Calls /\ Q \in SUBSET P /\ \A c \in Q : request'[c] = request[c]
  BY DEF Pending
<1>2. LamportsOf(P) = Lamports(request, P) /\ LamportsOf(P)' = Lamports(request', Q)
  BY LamportsOfCalls, LamportsOfCallsNext
<1> HIDE DEF P, Q
<1>3. /\ IsFiniteSet(P) /\ \A c \in P : request[c].lamports \in Nat
      /\ IsFiniteSet(Q) /\ \A c \in Q : request[c].lamports \in Nat
  BY <1>1, CallSets
<1>4. Lamports(request', Q) = Lamports(request, Q)
  BY <1>1, <1>3, LamportsSame
<1>5. /\ Lamports(request, P) \in Nat /\ Lamports(request, Q) \in Nat
      /\ Lamports(request, Q) <= Lamports(request, P)
  BY <1>1, <1>3, LamportsLaws
<1>6. /\ engine[e].spentToday \in Nat /\ engine'[e].spentToday \in Nat
      /\ engine'[e].spentToday <= engine[e].spentToday
  <2>1. engine[e] \in EngineState /\ engine[e].spentToday \in Nat /\ now' \in 0..MaxTime
    BY Later DEF TypeOK, EngineState
  <2>2. Refreshed(engine[e], now').spentToday \in {engine[e].spentToday, 0}
    BY <2>1, RefreshedSpend
  <2>3. engine'[e] = engine[e] \/ engine'[e] = Refreshed(engine[e], now')
    OBVIOUS
  <2> QED
    BY <2>1, <2>2, <2>3
<1>7. engine[e].spentToday + LamportsOf(P) <= MaxInFlight * MaxLamportsPerTx
  BY DEF SpendOvershoot, P
<1>8. MaxInFlight * MaxLamportsPerTx \in Nat
  BY ConstantsAssumption
<1> DEFINE M == MaxInFlight * MaxLamportsPerTx
<1> HIDE DEF M
<1>9. engine'[e].spentToday + Lamports(request', Q) <= M
  BY <1>2, <1>4, <1>5, <1>6, <1>7, <1>8 DEF M
<1> QED
  BY <1>2, <1>9 DEF M, P

\* A step that admits nothing and records nothing keeps the bound on the spend.
LEMMA SpendQuiet ==
  ASSUME TypeOK, TypeOK', AdmittedWithinLimit, SpendOvershoot, Quietly,
         \A e \in Engines : Pending(e)' \subseteq Pending(e),
         \A e \in Engines : \A c \in Pending(e)' : request'[c] = request[c]
  PROVE  AdmittedWithinLimit' /\ SpendOvershoot'
<1>1. AdmittedWithinLimit'
  BY DEF AdmittedWithinLimit
<1>2. \A e \in Engines :
        engine'[e].spentToday + LamportsOf(Pending(e))' <= MaxInFlight * MaxLamportsPerTx
  BY SpendKept DEF Quietly
<1> QED
  BY <1>1, <1>2 DEF SpendOvershoot

\* The admission: what is asked for and what was spent are below the limit of one
\* transaction, and the calls before it ask for no more than that each.
LEMMA SpendAdmit ==
  ASSUME TypeOK, TypeOK', AdmittedWithinLimit, SpendOvershoot, Quietly, NEW c \in Calls,
         \A f \in Engines \ {EngineOf(c)} : Pending(f)' = Pending(f),
         Pending(EngineOf(c))' = Pending(EngineOf(c)) \union {c},
         c \notin Pending(EngineOf(c)),
         \A d \in Calls \ {c} : request'[d] = request[d],
         request'[c].lamports \in Nat,
         engine'[EngineOf(c)].spentToday + request'[c].lamports <= MaxLamportsPerTx,
         Cardinality(Pending(EngineOf(c))) < MaxInFlight
  PROVE  AdmittedWithinLimit' /\ SpendOvershoot'
<1> DEFINE e == EngineOf(c)
           M == MaxLamportsPerTx
<1>0. e \in Engines /\ M \in Nat /\ MaxInFlight \in Nat
  BY EngineOfCall, ConstantsAssumption
<1>1. engine'[e].spentToday \in Nat /\ request'[c].lamports <= M
  BY <1>0 DEF TypeOK, EngineState
<1>2. ASSUME NEW f \in Engines, f # e
      PROVE  /\ \A d \in Pending(f)' : request'[d].lamports <= M
             /\ engine'[f].spentToday + LamportsOf(Pending(f))' <= MaxInFlight * M
  <2>1. Pending(f)' = Pending(f) /\ \A d \in Pending(f) : d \in Calls /\ d # c
    BY <1>2 DEF Pending
  <2>2. \A d \in Pending(f)' : request'[d] = request[d]
    BY <2>1
  <2> QED
    BY <1>2, <2>1, <2>2, SpendKept DEF AdmittedWithinLimit, Quietly
<1>3. \A d \in Pending(e)' : request'[d].lamports <= M
  BY <1>0, <1>1 DEF AdmittedWithinLimit, Pending
<1>4. engine'[e].spentToday + LamportsOf(Pending(e))' <= MaxInFlight * M
  <2> DEFINE P == Pending(e)
             Q == Pending(e)'
  <2>1. P \in SUBSET Calls /\ Q = P \union {c} /\ c \notin P /\ Q \in SUBSET Calls
        /\ Cardinality(P) < MaxInFlight
    BY DEF Pending
  <2>2. LamportsOf(P)' = Lamports(request', Q)
    BY <1>0, LamportsOfCallsNext
  <2>3. \A d \in P : request'[d].lamports <= M
    BY <1>3, <2>1
  <2> HIDE DEF P, Q, e
  <2>4. IsFiniteSet(P) /\ Cardinality(P) \in Nat /\ IsFiniteSet(Q)
    BY <2>1, CallSets
  <2>5. \A d \in Q : request'[d].lamports \in Nat
    BY <2>1 DEF TypeOK, Request, NoRequest
  <2>6. Lamports(request', Q) = request'[c].lamports + Lamports(request', Q \ {c})
    BY <2>1, <2>4, <2>5, LamportsLaws
  <2>7. Q \ {c} = P
    BY <2>1
  <2>8. Lamports(request', P) <= Cardinality(P) * M /\ Lamports(request', P) \in Nat
    BY <1>0, <2>1, <2>3, <2>4, <2>5, LamportsLaws
  <2>9. Cardinality(P) * M + M <= MaxInFlight * M
    <3>1. \A n \in Nat, m \in Nat : n < m => n * M + M <= m * M
      <4> SUFFICES ASSUME NEW n \in Nat, NEW m \in Nat, n < m PROVE n * M + M <= m * M
        OBVIOUS
      <4>1. m = n + 1 + (m - n - 1) /\ m - n - 1 \in Nat
        OBVIOUS
      <4>2. \A k \in Nat : (n + 1 + k) * M = n * M + M + k * M /\ k * M \in Nat /\ n * M \in Nat
        BY <1>0
      <4> HIDE DEF M
      <4> QED
        BY <1>0, <4>1, <4>2
    <3> QED
      BY <1>0, <2>1, <2>4, <3>1
  <2> DEFINE x == Cardinality(P) * M
             y == MaxInFlight * M
  <2>10. x \in Nat /\ y \in Nat
    BY <1>0, <2>4
  <2>11. x + M <= y /\ Lamports(request', P) <= x
    BY <2>8, <2>9
  <2>12. engine'[e].spentToday + request'[c].lamports <= M /\ request'[c].lamports \in Nat
    BY DEF e
  <2> HIDE DEF x, y, M
  <2>13. Lamports(request', Q) = request'[c].lamports + Lamports(request', P)
    BY <2>6, <2>7, Zenon
  <2>14. engine'[e].spentToday + Lamports(request', Q) <= y
    <3>1. \A s, q, l \in Nat : s + q <= M /\ l <= x => s + (q + l) <= y
      BY <1>0, <2>10, <2>11
    <3>2. engine'[e].spentToday \in Nat
      BY <1>1
    <3>3. Lamports(request', P) \in Nat /\ Lamports(request', P) <= x
      BY <2>8, <2>11
    <3> QED
      BY <2>12, <2>13, <3>1, <3>2, <3>3
  <2> QED
    BY <2>2, <2>14 DEF y, P
<1> HIDE DEF e
<1> QED
  BY <1>0, <1>2, <1>3, <1>4 DEF AdmittedWithinLimit, SpendOvershoot

\* A recording adds to what a refresh left.
LEMMA RecordedSpend ==
  ASSUME NEW counted \in 0..MaxTime, NEW spent \in 0..MaxTime,
         NEW state \in EngineState, NEW lamports \in Nat
  PROVE  Recorded(state, lamports, counted, spent).spentToday
           = Refreshed(state, spent).spentToday + lamports
BY RefreshedState DEF Recorded, EngineState

\* One call more, counted on the day of the instant `counted' and its spend on
\* the day of the last reading of the clock.
RecordedBy(c, counted) ==
  /\ counted \in now..now' /\ now' \in now..MaxTime
  /\ recordedOn' = [recordedOn EXCEPT ![c] = Day(counted)]
  /\ spentOn' = [spentOn EXCEPT ![c] = Day(now')]
  /\ recordedOn[c] = Never /\ spentOn[c] = Never
  /\ request' = request
  /\ engine' = [engine EXCEPT ![EngineOf(c)] =
                   Recorded(engine[EngineOf(c)], request[c].lamports, counted, now')]

\* Its instants and their days.
LEMMA RecordedDays ==
  ASSUME TypeOK, NEW c \in Calls, NEW counted, RecordedBy(c, counted)
  PROVE  /\ counted \in 0..MaxTime /\ now' \in 0..MaxTime
         /\ Day(counted) \in Days /\ Day(now') \in Days /\ Day(now') \in Nat
         /\ Day(counted) # Never /\ Day(now') # Never
<1>1. now \in 0..MaxTime
  BY DEF TypeOK
<1>2. now' \in 0..MaxTime /\ counted \in 0..MaxTime
  BY <1>1, ConstantsAssumption DEF RecordedBy
<1> QED
  BY <1>2, DaysOf, DaysNat

LEMMA RecordedSets ==
  ASSUME TypeOK, NEW c \in Calls, NEW counted, RecordedBy(c, counted), NEW e \in Engines
  PROVE  /\ e # EngineOf(c) =>
              /\ engine'[e] = engine[e]
              /\ Recordings(e)' = Recordings(e)
              /\ \A d \in Days : /\ RecordingsOn(e, d)' = RecordingsOn(e, d)
                                 /\ SpendsOn(e, d)' = SpendsOn(e, d)
         /\ e = EngineOf(c) =>
              /\ engine'[e] = Recorded(engine[e], request[c].lamports, counted, now')
              /\ Recordings(e)' = Recordings(e) \union {c}
              /\ \A d \in Days :
                   /\ RecordingsOn(e, d)' =
                        IF d = Day(counted) THEN RecordingsOn(e, d) \union {c}
                        ELSE RecordingsOn(e, d)
                   /\ SpendsOn(e, d)' =
                        IF d = Day(now') THEN SpendsOn(e, d) \union {c} ELSE SpendsOn(e, d)
         /\ c \notin Recordings(e)
<1>1. /\ Day(counted) # Never /\ recordedOn'[c] = Day(counted) /\ recordedOn[c] = Never
      /\ Day(now') # Never /\ spentOn'[c] = Day(now')
  BY RecordedDays DEF TypeOK, RecordedBy
<1>2. \A b \in Calls \ {c} : recordedOn'[b] = recordedOn[b] /\ spentOn'[b] = spentOn[b]
  BY DEF TypeOK, RecordedBy
<1>3. Recordings(e)' = IF e = EngineOf(c) THEN Recordings(e) \union {c} ELSE Recordings(e)
  BY <1>1, <1>2 DEF Recordings, EngineOf
<1>4. ASSUME NEW d \in Days
      PROVE  /\ RecordingsOn(e, d)' =
                  IF e = EngineOf(c) /\ d = Day(counted) THEN RecordingsOn(e, d) \union {c}
                  ELSE RecordingsOn(e, d)
             /\ SpendsOn(e, d)' =
                  IF e = EngineOf(c) /\ d = Day(now') THEN SpendsOn(e, d) \union {c}
                  ELSE SpendsOn(e, d)
  <2>1. c \notin Recordings(e)
    BY <1>1 DEF Recordings
  <2> QED
    BY <1>1, <1>2, <1>3, <2>1 DEF RecordingsOn, SpendsOn, Recordings
<1>5. engine'[e] = IF e = EngineOf(c) THEN Recorded(engine[e], request[c].lamports, counted, now')
                   ELSE engine[e]
  BY DEF TypeOK, RecordedBy
<1> QED
  BY <1>1, <1>3, <1>4, <1>5 DEF Recordings

LEMMA BooksRecord ==
  ASSUME TypeOK, TypeOK', RecordedByReset, BooksMatchRecords, NEW c \in Calls,
         NEW counted, RecordedBy(c, counted)
  PROVE  RecordedByReset' /\ BooksMatchRecords'
<1> DEFINE today == Day(now')
           day == Day(counted)
           l == request[c].lamports
<1>0. /\ now' \in 0..MaxTime /\ counted \in 0..MaxTime /\ today \in Days /\ today \in Nat
      /\ day \in Days /\ l \in Nat /\ now' \in now..MaxTime
  <2>1. l \in Nat
    BY DEF TypeOK, Request, NoRequest
  <2>2. now' \in now..MaxTime
    BY DEF RecordedBy
  <2> HIDE DEF l
  <2> QED
    BY <2>1, <2>2, RecordedDays
<1>1. ASSUME NEW e \in Engines, NEW d \in Days
      PROVE  LamportsOf(SpendsOn(e, d))' = LamportsOf(SpendsOn(e, d)')
  <2>1. LamportsOf(SpendsOn(e, d))' = Lamports(request, SpendsOn(e, d)')
    BY LamportsOfCallsNext DEF RecordedBy
  <2> QED
    BY <2>1, LamportsOfCalls
<1>2. ASSUME NEW e \in Engines
      PROVE  (/\ engine[e].txCountSession = Cardinality(Recordings(e))
              /\ \A d \in Days : engine[e].perDayCounts[d] = Cardinality(RecordingsOn(e, d))
              /\ engine[e].spentToday = LamportsOf(SpendsOn(e, engine[e].lastResetDay)))'
  <2>1. PICK d \in Days : d = engine'[e].lastResetDay
    BY DEF TypeOK, EngineState
  <2>2. LamportsOf(SpendsOn(e, engine[e].lastResetDay))' = LamportsOf(SpendsOn(e, d)')
    <3>1. LamportsOf(SpendsOn(e, engine[e].lastResetDay))' = LamportsOf(SpendsOn(e, d))'
      BY <2>1 DEF LamportsOf, SpendsOn, MapThenSumSet, MapThenFoldSet
    <3> QED
      BY <1>1, <2>1, <3>1
  <2>3. BooksOf(engine[e], e)
    BY DEF BooksMatchRecords, BooksOf
  <2>4. CASE e # EngineOf(c)
    <3>1. engine'[e] = engine[e] /\ Recordings(e)' = Recordings(e)
          /\ \A b \in Days : /\ RecordingsOn(e, b)' = RecordingsOn(e, b)
                             /\ SpendsOn(e, b)' = SpendsOn(e, b)
      BY <2>4, RecordedSets
    <3> QED
      BY <2>1, <2>2, <2>3, <3>1 DEF BooksOf
  <2>5. CASE e = EngineOf(c)
    <3> DEFINE fresh == Refreshed(engine[e], now')
               record == Recorded(engine[e], l, counted, now')
               R == SpendsOn(e, today)
    <3>1. /\ engine'[e] = record
          /\ Recordings(e)' = Recordings(e) \union {c}
          /\ \A b \in Days : RecordingsOn(e, b)' =
                IF b = day THEN RecordingsOn(e, b) \union {c} ELSE RecordingsOn(e, b)
          /\ \A b \in Days : SpendsOn(e, b)' =
                IF b = today THEN SpendsOn(e, b) \union {c} ELSE SpendsOn(e, b)
          /\ c \notin Recordings(e)
      BY <2>5, RecordedSets
    <3>2. BooksOf(fresh, e)
      BY <1>0, <2>3, BooksRefreshed
    <3>3. /\ engine[e] \in EngineState
          /\ fresh.lastResetDay = today /\ fresh.txCountSession = engine[e].txCountSession
          /\ fresh.perDayCounts = engine[e].perDayCounts
      BY <1>0, RefreshedState DEF TypeOK
    <3>4. /\ record.lastResetDay = today
          /\ record.txCountSession = engine[e].txCountSession + 1
          /\ \A b \in Days : record.perDayCounts[b] =
               IF b = day THEN engine[e].perDayCounts[b] + 1 ELSE engine[e].perDayCounts[b]
          /\ record.spentToday = fresh.spentToday + l
      <4>1. CountedOnce(record, engine[e], counted, now')
        BY <1>0, <3>3, RecordedState
      <4>2. record.spentToday = fresh.spentToday + l
        BY <1>0, <3>3, RecordedSpend
      <4> HIDE DEF record, fresh
      <4> QED
        BY <4>1, <4>2 DEF CountedOnce
    <3> HIDE DEF fresh, record, today, day, l
    <3>5. \A b \in Days : /\ Recordings(e) \in SUBSET Calls /\ RecordingsOn(e, b) \in SUBSET Calls
                          /\ c \notin RecordingsOn(e, b)
                          /\ SpendsOn(e, b) \in SUBSET Calls /\ c \notin SpendsOn(e, b)
      BY <3>1 DEF Recordings, RecordingsOn, SpendsOn
    <3>6. Cardinality(Recordings(e) \union {c}) = Cardinality(Recordings(e)) + 1
      BY <1>0, <3>1, <3>5, CallSets, FS_AddElement
    <3>7. \A b \in Days : Cardinality(RecordingsOn(e, b) \union {c}) = Cardinality(RecordingsOn(e, b)) + 1
      BY <3>5, CallSets, FS_AddElement
    <3>8. LamportsOf(R \union {c}) = LamportsOf(R) + l
      <4>1. R \union {c} \in SUBSET Calls /\ c \notin R /\ (R \union {c}) \ {c} = R
            /\ R \in SUBSET Calls
        BY <1>0, <3>5
      <4> HIDE DEF R
      <4>2. /\ IsFiniteSet(R \union {c})
            /\ \A b \in R \union {c} : request[b].lamports \in Nat
        BY <4>1, CallSets
      <4>3. Lamports(request, R \union {c}) = l + Lamports(request, R)
        BY <4>1, <4>2, LamportsLaws DEF l
      <4>4. Lamports(request, R) \in Nat
        BY <4>1, <4>2, LamportsLaws
      <4> QED
        BY <1>0, <4>3, <4>4, LamportsOfCalls
    <3>9. LamportsOf(R) = fresh.spentToday
      BY <3>2, <3>3 DEF BooksOf
    <3>10. /\ record.txCountSession = Cardinality(Recordings(e)) + 1
           /\ \A b \in Days : record.perDayCounts[b] =
                IF b = day THEN Cardinality(RecordingsOn(e, b)) + 1 ELSE Cardinality(RecordingsOn(e, b))
           /\ record.spentToday = LamportsOf(R \union {c})
      BY <2>3, <3>4, <3>8, <3>9 DEF BooksOf
    <3>11. LamportsOf(SpendsOn(e, d)') = record.spentToday
      <4>1. d = today
        BY <2>1, <3>1, <3>4
      <4>2. SpendsOn(e, d)' = R \union {c}
        BY <1>0, <3>1, <4>1
      <4> HIDE DEF R
      <4> QED
        BY <3>10, <4>2
    <3> HIDE DEF R
    <3> QED
      BY <2>1, <2>2, <3>1, <3>6, <3>7, <3>10, <3>11
  <2> QED
    BY <2>4, <2>5
<1>3. RecordedByReset'
  <2> SUFFICES ASSUME NEW b \in Calls, spentOn'[b] # Never
               PROVE  spentOn'[b] <= engine'[EngineOf(b)].lastResetDay
    BY DEF RecordedByReset, EngineOf
  <2> DEFINE e == EngineOf(b)
  <2>1. e \in Engines
    BY EngineOfCall
  <2>2. engine[e] \in EngineState /\ engine[e].lastResetDay \in Nat
        /\ engine[e].lastResetDay <= today
    <3>1. /\ engine[e] \in EngineState /\ engine[e].lastResetDay \in Nat
          /\ engine[e].lastResetDay <= Day(now)
      BY <2>1, DaysNat DEF TypeOK, EngineState
    <3>2. Day(now) \in Nat /\ Day(now) <= today
      BY <1>0, Later DEF TypeOK
    <3> QED
      BY <1>0, <3>1, <3>2
  <2>3. e = EngineOf(c) => engine'[e].lastResetDay = today
    <3>1. e = EngineOf(c) => engine'[e] = Recorded(engine[e], l, counted, now')
      BY <2>1, RecordedSets
    <3>2. CountedOnce(Recorded(engine[e], l, counted, now'), engine[e], counted, now')
      BY <1>0, <2>2, RecordedState
    <3> QED
      BY <3>1, <3>2 DEF CountedOnce
  <2>4. e # EngineOf(c) => engine'[e] = engine[e]
    BY <2>1, RecordedSets
  <2>5. CASE b = c
    BY <1>0, <2>3, <2>5 DEF RecordedBy, TypeOK
  <2>6. CASE b # c
    <3>1. spentOn'[b] = spentOn[b] /\ spentOn[b] <= engine[e].lastResetDay
      BY <2>6 DEF RecordedBy, TypeOK, RecordedByReset
    <3>2. spentOn[b] \in Nat
      BY <3>1, DaysNat DEF TypeOK
    <3> QED
      BY <1>0, <2>2, <2>3, <2>4, <3>1, <3>2
  <2> QED
    BY <2>5, <2>6
<1> QED
  BY <1>2, <1>3 DEF BooksMatchRecords

\* What is recorded is no longer on its way, so the bound on the spend holds.
LEMMA SpendRecord ==
  ASSUME TypeOK, TypeOK', AdmittedWithinLimit, SpendOvershoot, NEW c \in Calls,
         NEW counted, RecordedBy(c, counted),
         \A f \in Engines \ {EngineOf(c)} : Pending(f)' \subseteq Pending(f),
         c \in Pending(EngineOf(c)),
         Pending(EngineOf(c))' = Pending(EngineOf(c)) \ {c}
  PROVE  AdmittedWithinLimit' /\ SpendOvershoot'
<1>1. AdmittedWithinLimit'
  BY DEF AdmittedWithinLimit, RecordedBy
<1>2. ASSUME NEW f \in Engines \ {EngineOf(c)}
      PROVE  engine'[f].spentToday + LamportsOf(Pending(f))' <= MaxInFlight * MaxLamportsPerTx
  <2>1. engine'[f] = engine[f]
    BY RecordedSets
  <2>2. \A b \in Pending(f)' : request'[b] = request[b]
    BY DEF RecordedBy
  <2> QED
    BY <2>1, <2>2, SpendKept DEF RecordedBy
<1> DEFINE e == EngineOf(c)
           l == request[c].lamports
           P == Pending(e)
<1>3. e \in Engines
  BY EngineOfCall
<1>4. engine'[e].spentToday + LamportsOf(Pending(e))' <= MaxInFlight * MaxLamportsPerTx
  <2>1. engine'[e] = Recorded(engine[e], l, counted, now')
    BY <1>3, RecordedSets
  <2>2. l \in Nat /\ engine[e] \in EngineState /\ engine[e].spentToday \in Nat
        /\ now' \in 0..MaxTime /\ counted \in 0..MaxTime
    BY <1>3, RecordedDays DEF TypeOK, EngineState, Request, NoRequest
  <2>3. /\ engine'[e].spentToday = Refreshed(engine[e], now').spentToday + l
        /\ Refreshed(engine[e], now').spentToday \in {engine[e].spentToday, 0}
    BY <2>1, <2>2, RecordedSpend, RefreshedSpend
  <2>4. LamportsOf(Pending(e))' = Lamports(request, P \ {c}) /\ LamportsOf(P) = Lamports(request, P)
    BY <1>3, LamportsOfCalls, LamportsOfCallsNext DEF RecordedBy
  <2>5. P \in SUBSET Calls /\ c \in P
    BY DEF Pending
  <2>6. engine[e].spentToday + LamportsOf(P) <= MaxInFlight * MaxLamportsPerTx
    BY <1>3 DEF SpendOvershoot
  <2> HIDE DEF P
  <2>7. IsFiniteSet(P) /\ \A b \in P : request[b].lamports \in Nat
    BY <2>5, CallSets
  <2>8. P \ {c} \in SUBSET P
    OBVIOUS
  <2>9. Lamports(request, P) = l + Lamports(request, P \ {c}) /\ Lamports(request, P \ {c}) \in Nat
    BY <2>5, <2>7, <2>8, LamportsLaws
  <2> DEFINE M == MaxInFlight * MaxLamportsPerTx
  <2>10. M \in Nat
    BY ConstantsAssumption
  <2> HIDE DEF M, l, e
  <2>11. engine'[e].spentToday + Lamports(request, P \ {c}) <= M
    BY <2>2, <2>3, <2>4, <2>6, <2>9, <2>10 DEF M
  <2> QED
    BY <2>4, <2>11 DEF M
<1>5. SpendOvershoot'
  BY <1>2, <1>4 DEF SpendOvershoot
<1> QED
  BY <1>1, <1>5

\* A step of one call that has no effect on requests and recordings, and that goes on
\* with an admitted call or leaves it.
LEMMA SpendQuietStep ==
  ASSUME SpendInv, IndInv', NEW c \in Calls, NEW label \in PCs,
         pc' = [pc EXCEPT ![c] = label],
         label \in {"simulate", "approval", "send", "confirm"} =>
           pc[c] \in {"simulate", "approval", "send", "confirm"},
         recordedOn' = recordedOn, spentOn' = spentOn, request' = request,
         now' \in now..MaxTime,
         \/ engine' = engine
         \/ engine' = [engine EXCEPT ![EngineOf(c)] = Refreshed(engine[EngineOf(c)], now')]
  PROVE  SpendInv'
<1>1. TypeOK /\ TypeOK' /\ RecordedByReset /\ BooksMatchRecords /\ AdmittedWithinLimit
      /\ SpendOvershoot
  BY DEF SpendInv, IndInv
<1>2. Quietly
  <2>1. engine \in [Engines -> EngineState] /\ EngineOf(c) \in Engines
    BY <1>1, EngineOfCall DEF TypeOK
  <2> QED
    BY <2>1 DEF Quietly
<1>3. \A e \in Engines : Pending(e)' \subseteq Pending(e)
  BY <1>1 DEF Pending, TypeOK, EngineOf
<1>4. RecordedByReset' /\ BooksMatchRecords'
  BY <1>1, <1>2, BooksQuiet
<1>5. AdmittedWithinLimit' /\ SpendOvershoot'
  BY <1>1, <1>2, <1>3, SpendQuiet
<1> QED
  BY <1>4, <1>5 DEF SpendInv

LEMMA SpendInspect ==
  ASSUME SpendInv, IndInv', NEW c \in Calls, NEW req \in Requests, Inspect(c, req)
  PROVE  SpendInv'
<1> DEFINE e == EngineOf(c)
           state == Refreshed(engine[e], now')
<1>1. TypeOK /\ TypeOK' /\ RecordedByReset /\ BooksMatchRecords /\ AdmittedWithinLimit
      /\ SpendOvershoot
  BY DEF SpendInv, IndInv
<1>2. e \in Engines /\ engine \in [Engines -> EngineState] /\ pc \in [Calls -> PCs]
      /\ request \in [Calls -> Request \union {NoRequest}]
  BY <1>1, EngineOfCall DEF TypeOK
<1>3. /\ pc[c] = "idle"
      /\ engine' = [engine EXCEPT ![e] = state]
      /\ request' = [request EXCEPT ![c] = req]
      /\ recordedOn' = recordedOn /\ spentOn' = spentOn /\ now' \in now..MaxTime
      /\ Cardinality(InFlight) < MaxInFlight
      /\ \/ Allowed(state, req) /\ pc' = [pc EXCEPT ![c] = "simulate"]
         \/ pc' = [pc EXCEPT ![c] = IF config.compression THEN "audit" ELSE "done"]
  BY DEF Inspect, Await, Answer
<1>4. recordedOn[c] = Never
  <2>1. CallOK(c)
    BY TwoParts, CallByCall DEF SpendInv
  <2> QED
    BY <1>3, <2>1 DEF CallOK
<1>5. \A d \in Calls \ {c} : request'[d] = request[d] /\ pc'[d] = pc[d]
  BY <1>2, <1>3
<1>6. Quietly
  <2>1. \A f \in Engines : engine'[f] \in {engine[f], Refreshed(engine[f], now')}
    BY <1>2, <1>3
  <2> QED
    BY <1>3, <1>4, <1>5, <2>1 DEF Quietly
<1>7. RecordedByReset' /\ BooksMatchRecords'
  BY <1>1, <1>6, BooksQuiet
<1>8. CASE pc' = [pc EXCEPT ![c] = IF config.compression THEN "audit" ELSE "done"]
  <2>1. pc'[c] \in {"audit", "done"}
    BY <1>2, <1>8
  <2>2. \A f \in Engines : Pending(f)' \subseteq Pending(f) /\ c \notin Pending(f)'
    BY <1>5, <2>1 DEF Pending, EngineOf
  <2>3. \A f \in Engines : \A d \in Pending(f)' : request'[d] = request[d]
    BY <1>5, <2>2 DEF Pending
  <2> QED
    BY <1>1, <1>6, <1>7, <2>2, <2>3, SpendQuiet DEF SpendInv
<1>9. CASE Allowed(state, req) /\ pc' = [pc EXCEPT ![c] = "simulate"]
  <2>1. pc'[c] = "simulate" /\ request'[c] = req
    BY <1>2, <1>3, <1>9
  <2>2. /\ \A f \in Engines \ {e} : Pending(f)' = Pending(f)
        /\ Pending(e)' = Pending(e) \union {c}
        /\ c \notin Pending(e)
    BY <1>3, <1>5, <2>1 DEF Pending, EngineOf
  <2>3. request'[c].lamports \in Nat
    BY <2>1, ConstantsAssumption DEF Request
  <2>4. engine'[e].spentToday + request'[c].lamports <= MaxLamportsPerTx
    BY <1>2, <1>3, <1>9, <2>1 DEF Allowed, WithinLimits
  <2>5. Cardinality(Pending(e)) < MaxInFlight
    <3>1. Pending(e) \subseteq InFlight /\ InFlight \in SUBSET Calls /\ Pending(e) \in SUBSET Calls
      BY DEF Pending, InFlight
    <3>2. IsFiniteSet(InFlight) /\ Cardinality(InFlight) \in Nat /\ Cardinality(Pending(e)) \in Nat
      BY <1>1, <3>1, CallSets
    <3>3. Cardinality(Pending(e)) <= Cardinality(InFlight)
      BY <3>1, <3>2, FS_Subset
    <3> QED
      BY <1>3, <3>2, <3>3, ConstantsAssumption
  <2> HIDE DEF state
  <2> QED
    BY <1>1, <1>5, <1>6, <1>7, <2>2, <2>3, <2>4, <2>5, SpendAdmit DEF SpendInv
<1> QED
  BY <1>3, <1>8, <1>9

LEMMA SpendConfirmed ==
  ASSUME SpendInv, IndInv', NEW c \in Calls, Confirmed(c)
  PROVE  SpendInv'
<1> DEFINE e == EngineOf(c)
<1>1. TypeOK /\ TypeOK' /\ RecordedByReset /\ BooksMatchRecords /\ AdmittedWithinLimit
      /\ SpendOvershoot /\ pc \in [Calls -> PCs]
  BY DEF SpendInv, IndInv, TypeOK
<1>2. pc[c] = "confirm" /\ recordedOn[c] = Never /\ spentOn[c] = Never
  <2>1. CallOK(c)
    BY TwoParts, CallByCall DEF SpendInv
  <2> QED
    BY <2>1 DEF CallOK, Confirmed
<1>3. PICK counted : RecordedBy(c, counted)
  BY <1>2 DEF RecordedBy, Confirmed
<1>4. /\ pc'[c] \in {"anchor", "audit", "done"}
      /\ \A d \in Calls \ {c} : pc'[d] = pc[d]
  BY <1>1 DEF Confirmed, Await, Answer
<1>5. /\ \A f \in Engines \ {e} : Pending(f)' \subseteq Pending(f)
      /\ c \in Pending(e)
      /\ Pending(e)' = Pending(e) \ {c}
  BY <1>2, <1>4 DEF Pending, EngineOf
<1>6. RecordedByReset' /\ BooksMatchRecords'
  BY <1>1, <1>3, BooksRecord
<1>7. AdmittedWithinLimit' /\ SpendOvershoot'
  BY <1>1, <1>3, <1>5, SpendRecord
<1> QED
  BY <1>6, <1>7 DEF SpendInv

LEMMA SpendPastApproval ==
  ASSUME SpendInv, IndInv', NEW c \in Calls, NEW passed, PastApproval(c, passed),
         pc[c] \in {"simulate", "approval"}, recordedOn' = recordedOn,
         spentOn' = spentOn, request' = request
  PROVE  SpendInv'
<1>1. PICK label \in {"audit", "done", "send"} : pc' = [pc EXCEPT ![c] = label]
  BY DEF PastApproval, Answer, Await, Settle
<1>2. \/ engine' = engine
      \/ engine' = [engine EXCEPT ![EngineOf(c)] = Refreshed(engine[EngineOf(c)], now')]
  BY DEF PastApproval
<1>3. now' \in now..MaxTime
  BY Unmoved DEF PastApproval, SpendInv, IndInv
<1> QED
  BY <1>1, <1>2, <1>3, SpendQuietStep DEF PCs

LEMMA SpendStep == SpendInv /\ [Next]_vars => SpendInv'
<1> SUFFICES ASSUME SpendInv, [Next]_vars PROVE SpendInv'
  OBVIOUS
<1>0. IndInv' /\ IndInv /\ TypeOK /\ TypeOK'
  BY StepInv DEF SpendInv, IndInv
<1>1. CASE Tick \/ SetLock \/ UNCHANGED vars
  <2>1. UNCHANGED <<engine, pc, request, recordedOn, spentOn>> /\ now' \in now..MaxTime
    BY <1>0, <1>1, ConstantsAssumption DEF Tick, SetLock, vars, callVars, TypeOK
  <2>2. Quietly /\ \A e \in Engines : Pending(e)' = Pending(e)
    BY <2>1 DEF Quietly, Pending, EngineOf
  <2>3. RecordedByReset' /\ BooksMatchRecords'
    BY <1>0, <2>2, BooksQuiet DEF SpendInv
  <2>4. AdmittedWithinLimit' /\ SpendOvershoot'
    BY <1>0, <2>1, <2>2, SpendQuiet DEF SpendInv
  <2> QED
    BY <1>0, <2>3, <2>4 DEF SpendInv
<1>2. ASSUME NEW c \in Calls, NEW req \in Requests, Inspect(c, req) PROVE SpendInv'
  BY <1>0, <1>2, SpendInspect
<1>3. ASSUME NEW c \in Calls, Confirmed(c) PROVE SpendInv'
  BY <1>0, <1>3, SpendConfirmed
<1>4. ASSUME NEW c \in Calls, SimulationPassed(c) PROVE SpendInv'
  <2>1. pc[c] = "simulate" /\ UNCHANGED <<request, recordedOn, spentOn>>
    BY <1>4 DEF SimulationPassed
  <2>2. CASE ~config.live
    BY <1>0, <1>4, <2>1, <2>2, SpendPastApproval DEF SimulationPassed
  <2>3. CASE config.live
    <3>1. engine' = engine /\ now' \in now..MaxTime
      BY <1>0, <1>4, <2>3, Unmoved DEF SimulationPassed
    <3>2. PICK label \in {"approval", "done"} : pc' = [pc EXCEPT ![c] = label]
      BY <1>4, <2>3 DEF SimulationPassed, Await, Settle
    <3> QED
      BY <1>0, <2>1, <3>1, <3>2, SpendQuietStep DEF PCs
  <2> QED
    BY <2>2, <2>3
<1>5. ASSUME NEW c \in Calls, Approved(c) PROVE SpendInv'
  BY <1>0, <1>5, SpendPastApproval DEF Approved
<1>6. ASSUME NEW c \in Calls, Land(c) PROVE SpendInv'
  <2>1. UNCHANGED <<engine, pc, request, recordedOn, spentOn>> /\ now' \in now..MaxTime
    BY <1>0, <1>6, Unmoved DEF Land, callVars
  <2>2. pc' = [pc EXCEPT ![c] = pc[c]] /\ pc[c] \in PCs
    BY <1>0, <2>1 DEF TypeOK
  <2> QED
    BY <1>0, <2>1, <2>2, SpendQuietStep
<1>7. ASSUME NEW c \in Calls,
             \/ SimulationFailed(c) \/ SimulationThrows(c)
             \/ Rejected(c) \/ ApprovalThrows(c)
             \/ Sent(c) \/ SendThrows(c) \/ ConfirmThrows(c)
             \/ Anchored(c) \/ AnchorThrows(c) \/ Audited(c)
      PROVE  SpendInv'
  <2>0. now' = now
    BY <1>7 DEF SimulationFailed, SimulationThrows, Rejected, ApprovalThrows, Sent, SendThrows,
       ConfirmThrows, Anchored, AnchorThrows, Audited
  <2>1. UNCHANGED <<engine, request, recordedOn, spentOn>> /\ now' \in now..MaxTime
    BY <1>0, <1>7, <2>0, Unmoved DEF SimulationFailed, SimulationThrows, Rejected, ApprovalThrows, Sent, SendThrows,
       ConfirmThrows, Anchored, AnchorThrows, Audited
  <2>2. CASE Sent(c)
    <3>1. pc[c] = "send" /\ pc' = [pc EXCEPT ![c] = "confirm"]
      BY <2>2 DEF Sent, Await
    <3> QED
      BY <1>0, <2>1, <3>1, SpendQuietStep DEF PCs
  <2>3. CASE ~Sent(c)
    <3>1. PICK label \in {"audit", "done"} : pc' = [pc EXCEPT ![c] = label]
      BY <1>7, <2>3 DEF SimulationFailed, SimulationThrows, Rejected, ApprovalThrows, SendThrows,
         ConfirmThrows, Anchored, AnchorThrows, Audited, Answer, Settle
    <3> QED
      BY <1>0, <2>1, <3>1, SpendQuietStep DEF PCs
  <2> QED
    BY <2>2, <2>3
<1> QED
  BY <1>1, <1>2, <1>3, <1>4, <1>5, <1>6, <1>7 DEF Next

\* At first nothing is recorded and nothing spent.
LEMMA SpendInit == Init => SpendInv
<1> SUFFICES ASSUME Init PROVE SpendInv
  OBVIOUS
<1>1. IndInv
  BY InitInv
<1>2. ASSUME NEW e \in Engines
      PROVE  /\ Recordings(e) = {} /\ Pending(e) = {}
             /\ \A d \in Days : RecordingsOn(e, d) = {} /\ SpendsOn(e, d) = {}
                             /\ engine[e].perDayCounts[d] = 0
             /\ engine[e].txCountSession = 0 /\ engine[e].spentToday = 0
             /\ engine[e].lastResetDay \in Days
  BY DaysNat DEF Init, Recordings, RecordingsOn, SpendsOn, Pending
<1>3. Cardinality({}) = 0 /\ LamportsOf({}) = 0
  <2>1. Lamports(request, {}) = 0
    BY FS_EmptySet, LamportsLaws
  <2> QED
    BY <2>1, FS_EmptySet, LamportsOfCalls
<1>4. BooksMatchRecords
  BY <1>2, <1>3 DEF BooksMatchRecords
<1>5. SpendOvershoot
  <2>1. MaxInFlight * MaxLamportsPerTx >= 0
    BY ConstantsAssumption
  <2> QED
    <3>1. \A e \in Engines : engine[e].spentToday = 0 /\ LamportsOf(Pending(e)) = 0
      BY <1>2, <1>3
    <3> QED
      BY <2>1, <3>1 DEF SpendOvershoot
<1>6. RecordedByReset /\ AdmittedWithinLimit
  BY <1>2 DEF RecordedByReset, AdmittedWithinLimit, Init
<1> QED
  BY <1>1, <1>4, <1>5, <1>6 DEF SpendInv

\* The books and the spend of every engine are kept, whatever order the calls settle in.
THEOREM SpendCorrect == Spec => []SpendInv
BY SpendInit, SpendStep, PTL DEF Spec

\* The counters of an engine count each recorded call once, on its day, and the spend of
\* today is that of the calls recorded since the last midnight the engine has seen.
THEOREM BooksMatchRecordsHolds == Spec => []BooksMatchRecords
<1>1. SpendInv => BooksMatchRecords
  BY DEF SpendInv
<1> QED
  BY <1>1, SpendCorrect, PTL

\* What is spent on a day and what is on its way stay below the limit of one
\* transaction for each call the callers keep open at once.
THEOREM SpendOvershootHolds == Spec => []SpendOvershoot
<1>1. SpendInv => SpendOvershoot
  BY DEF SpendInv
<1> QED
  BY <1>1, SpendCorrect, PTL
=============================================================================
