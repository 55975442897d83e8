-------------------------- MODULE UniversalDeFiProofs --------------------------
(***************************************************************************)
(* An intent sends one transaction at most, what its call answers is true, *)
(* and a verification fails for a reason: for any number of lanes and      *)
(* rounds, and any settings.                                               *)
(*                                                                         *)
(* The invariant is one of each lane: where its call waits says what the   *)
(* call has sent (Stage), the calls before it have answered truly          *)
(* (Settled), and those after it have sent nothing.                        *)
(***************************************************************************)
EXTENDS UniversalDeFi, FiniteSetTheorems, TLAPS

Networks == {"live", "memo", "evm"}
States == {"absent", "sent", "landed", "failed"}
Outcomes == {"live", "memo", "mock", "evm", "none", "error"}

\* Where a call waits before it has sent anything, ...
Unsent == {"idle", "prerequisites", "snapshot", "balance", "build", "memo", "evmBuild"}
\* ... when its engine has allowed it, and once it has sent something.
Admitted == {"sandbox", "evmSandbox"}
Posted == {"confirm", "verify", "verifyBalance", "kora", "evmWait"}

CallShape ==
  /\ DOMAIN call = Lanes
  /\ \A l \in Lanes :
       /\ DOMAIN call[l] = {"pc", "intent", "before", "fresh"}
       /\ call[l].pc \in Unsent \union Admitted \union Posted

LedgerShape ==
  /\ DOMAIN ledger = Lanes
  /\ \A l \in Lanes :
       /\ DOMAIN ledger[l] = 1..MaxCalls
       /\ \A n \in 1..MaxCalls :
            DOMAIN ledger[l][n] = {"live", "memo", "evm", "intent", "allowed"}

Shape ==
  /\ setting \in Settings
  /\ round \in 1..Rounds
  /\ CallShape
  /\ outcomes \in [Lanes -> Seq(Outcomes)]
  /\ LedgerShape

Stage(l) ==
  LET n == Current(l)
      t == ledger[l][n]
  IN /\ call[l].pc \in Unsent \union Admitted => Kinds(l, n) = {}
     /\ call[l].pc \in Admitted => t.allowed
     /\ call[l].pc \in {"confirm", "verify", "verifyBalance"} =>
          Kinds(l, n) = {"live"} /\ t.allowed
     /\ call[l].pc \in {"verify", "verifyBalance"} => t.live \in {"landed", "failed"}
     /\ call[l].pc = "kora" => /\ Kinds(l, n) \subseteq {"memo"}
                               /\ call[l].fresh => Kinds(l, n) = {"memo"}
                               /\ setting.kora # "mock"
     /\ call[l].pc = "evmWait" => Kinds(l, n) = {"evm"} /\ t.allowed

AtMostOne(l, n) == \E kind \in Networks : Kinds(l, n) \subseteq {kind}

Settled(l) ==
  \A n \in 1..Len(outcomes[l]) : AtMostOne(l, n) /\ TrueReport(outcomes[l][n], l, n)

LaneOK(l) ==
  /\ Len(outcomes[l]) <= MaxCalls
  /\ call[l].pc # "idle" => Current(l) <= MaxCalls
  /\ Current(l) <= MaxCalls => Stage(l)
  /\ \A n \in 1..MaxCalls : n > Current(l) => Kinds(l, n) = {}
  /\ Settled(l)

IndInv == Shape /\ \A l \in Lanes : LaneOK(l)

-----------------------------------------------------------------------------
(* Arithmetic, and what an update of a variable leaves.                     *)

LEMMA MaxCallsNat == MaxCalls \in Nat
BY SettingsAssumption DEF MaxCalls

LEMMA CurrentNat ==
  ASSUME Shape, NEW l \in Lanes
  PROVE  Len(outcomes[l]) \in Nat /\ Current(l) \in Nat /\ Current(l) = Len(outcomes[l]) + 1
<1>1. outcomes[l] \in Seq(Outcomes)
  BY DEF Shape
<1> QED
  BY <1>1 DEF Current

\* The bound on the calls of a lane is never in the way.
LEMMA PendingFits ==
  ASSUME Shape, NEW l \in Lanes, Pending(l)
  PROVE  call[l].pc = "idle" /\ Current(l) \in 1..MaxCalls
<1> DEFINE p == Len(setting.program[l])
<1>1. p \in 0..2 /\ round \in Nat /\ round <= Rounds /\ Rounds \in Nat
  BY SettingsAssumption DEF Shape
<1>2. Len(outcomes[l]) < round * p /\ call[l].pc = "idle"
  BY DEF Pending
<1>3. round * p <= Rounds * 2
  <2>1. CASE p = 0
    BY <1>1, <2>1
  <2>2. CASE p = 1
    BY <1>1, <2>2
  <2>3. CASE p = 2
    BY <1>1, <2>3
  <2> QED
    BY <1>1, <2>1, <2>2, <2>3
<1>4. round * p \in Nat /\ Rounds * 2 \in Nat
  BY <1>1
<1> QED
  BY <1>2, <1>3, <1>4, CurrentNat DEF MaxCalls

\* A call that is under way has its place in the ledger.
LEMMA AwaitingFits ==
  ASSUME Shape, NEW l \in Lanes, LaneOK(l), call[l].pc # "idle"
  PROVE  Current(l) \in 1..MaxCalls
BY CurrentNat, MaxCallsNat DEF LaneOK

LEMMA CallUpdate ==
  ASSUME CallShape, NEW l \in Lanes,
         NEW pc \in Unsent \union Admitted \union Posted, NEW i, NEW b, NEW f,
         call' = [call EXCEPT ![l] = [pc |-> pc, intent |-> i, before |-> b, fresh |-> f]]
  PROVE  /\ CallShape'
         /\ call'[l].pc = pc /\ call'[l].fresh = f
         /\ \A k \in Lanes \ {l} : call'[k] = call[k]
BY DEF CallShape

LEMMA AwaitUpdate ==
  ASSUME CallShape, NEW l \in Lanes,
         NEW pc \in Unsent \union Admitted \union Posted, NEW i, Await(l, pc, i)
  PROVE  /\ CallShape'
         /\ call'[l].pc = pc /\ call'[l].fresh = call[l].fresh
         /\ \A k \in Lanes \ {l} : call'[k] = call[k]
BY DEF CallShape, Await

LEMMA SettleUpdate ==
  ASSUME Shape, NEW l \in Lanes, NEW o \in Outcomes, Settle(l, o)
  PROVE  /\ CallShape'
         /\ call'[l].pc = "idle"
         /\ outcomes' \in [Lanes -> Seq(Outcomes)]
         /\ outcomes'[l] = Append(outcomes[l], o)
         /\ \A k \in Lanes \ {l} : call'[k] = call[k] /\ outcomes'[k] = outcomes[k]
BY DEF Shape, CallShape, Settle, Idle, Unsent

LEMMA LedgerUpdate ==
  ASSUME LedgerShape, NEW l \in Lanes, NEW n \in 1..MaxCalls,
         DOMAIN ledger' = Lanes, DOMAIN ledger'[l] = 1..MaxCalls,
         \A k \in Lanes \ {l} : ledger'[k] = ledger[k],
         \A m \in 1..MaxCalls \ {n} : ledger'[l][m] = ledger[l][m],
         DOMAIN ledger'[l][n] = {"live", "memo", "evm", "intent", "allowed"}
  PROVE  LedgerShape'
<1>1. ASSUME NEW m \in 1..MaxCalls
      PROVE  DOMAIN ledger'[l][m] = {"live", "memo", "evm", "intent", "allowed"}
  <2>1. CASE m = n
    BY <2>1
  <2>2. CASE m # n
    BY <2>2 DEF LedgerShape
  <2> QED
    BY <2>1, <2>2
<1>2. ASSUME NEW k \in Lanes
      PROVE  /\ DOMAIN ledger'[k] = 1..MaxCalls
             /\ \A m \in 1..MaxCalls :
                  DOMAIN ledger'[k][m] = {"live", "memo", "evm", "intent", "allowed"}
  <2>1. CASE k = l
    BY <1>1, <2>1
  <2>2. CASE k # l
    BY <2>2 DEF LedgerShape
  <2> QED
    BY <2>1, <2>2
<1> QED
  BY <1>2 DEF LedgerShape

\* What the ledger holds of a call settles what it says of it.
LEMMA SameEntry ==
  ASSUME NEW l, NEW n, ledger'[l][n] = ledger[l][n], setting' = setting
  PROVE  /\ Kinds(l, n)' = Kinds(l, n)
         /\ AtMostOne(l, n)' <=> AtMostOne(l, n)
         /\ \A o \in Outcomes : TrueReport(o, l, n)' <=> TrueReport(o, l, n)
<1>1. Kinds(l, n)' = Kinds(l, n)
  BY DEF Kinds
<1> QED
  BY <1>1 DEF AtMostOne, TrueReport

-----------------------------------------------------------------------------
(* A step of one lane.                                                      *)

LEMMA OneLane ==
  ASSUME IndInv, Shape', NEW l \in Lanes, setting' = setting, LaneOK(l)',
         \A k \in Lanes \ {l} :
           call'[k] = call[k] /\ outcomes'[k] = outcomes[k] /\ ledger'[k] = ledger[k]
  PROVE  IndInv'
<1>1. ASSUME NEW k \in Lanes \ {l} PROVE LaneOK(k)'
  <2>1. /\ call'[k] = call[k] /\ outcomes'[k] = outcomes[k] /\ ledger'[k] = ledger[k]
        /\ LaneOK(k)
    BY DEF IndInv
  <2>2. \A n \in 1..MaxCalls : Kinds(k, n)' = Kinds(k, n)
    BY <2>1 DEF Kinds
  <2>3. Current(k)' = Current(k)
    BY <2>1 DEF Current
  <2>4. Settled(k)'
    <3>1. Len(outcomes[k]) \in Nat /\ Len(outcomes[k]) <= MaxCalls /\ Settled(k)
      BY <2>1, CurrentNat DEF LaneOK, IndInv
    <3>2. ASSUME NEW n \in 1..Len(outcomes[k])
          PROVE  AtMostOne(k, n)' /\ TrueReport(outcomes[k][n], k, n)'
      <4>1. AtMostOne(k, n) /\ TrueReport(outcomes[k][n], k, n)
        BY <3>1 DEF Settled
      <4>2. outcomes[k][n] \in Outcomes
        BY DEF IndInv, Shape
      <4> QED
        BY <2>1, <4>1, <4>2, SameEntry
    <3> QED
      BY <2>1, <3>2 DEF Settled
  <2>5. Current(k) <= MaxCalls => Stage(k)'
    <3>1. SUFFICES ASSUME Current(k) <= MaxCalls PROVE Stage(k)'
      OBVIOUS
    <3>2. Current(k) \in 1..MaxCalls /\ Stage(k)
      BY <2>1, <3>1, CurrentNat, MaxCallsNat DEF LaneOK, IndInv
    <3> QED
      BY <2>1, <2>2, <2>3, <3>2 DEF Stage
  <2> QED
    BY <2>1, <2>2, <2>3, <2>4, <2>5 DEF LaneOK
<1> QED
  BY <1>1 DEF IndInv

\* A call ends, with a report that is true of what it sent.
LEMMA SettleStep ==
  ASSUME IndInv, NEW l \in Lanes, NEW o \in Outcomes, Settle(l, o),
         Current(l) \in 1..MaxCalls,
         AtMostOne(l, Current(l)), TrueReport(o, l, Current(l)),
         UNCHANGED <<setting, round, ledger>>
  PROVE  IndInv'
<1> DEFINE n == Current(l)
<1>1. Shape /\ LaneOK(l) /\ n \in Nat /\ n = Len(outcomes[l]) + 1
  BY CurrentNat DEF IndInv
<1>2. /\ CallShape' /\ call'[l].pc = "idle" /\ outcomes' \in [Lanes -> Seq(Outcomes)]
      /\ outcomes'[l] = Append(outcomes[l], o)
      /\ \A k \in Lanes \ {l} : call'[k] = call[k] /\ outcomes'[k] = outcomes[k]
  BY <1>1, SettleUpdate
<1>3. Shape'
  BY <1>1, <1>2 DEF Shape, LedgerShape
<1>4. /\ Len(outcomes'[l]) = n /\ Current(l)' = n + 1
      /\ outcomes'[l][n] = o
      /\ \A m \in 1..(n - 1) : outcomes'[l][m] = outcomes[l][m]
  <2>1. outcomes[l] \in Seq(Outcomes)
    BY <1>1 DEF Shape
  <2> QED
    BY <1>1, <1>2, <2>1 DEF Current
<1>5. \A m : Kinds(l, m)' = Kinds(l, m)
  BY SameEntry
<1>6. Settled(l)'
  <2>1. ASSUME NEW m \in 1..n PROVE AtMostOne(l, m)' /\ TrueReport(outcomes[l][m], l, m)'
    <3>1. CASE m = n
      BY <1>4, <3>1, SameEntry
    <3>2. CASE m # n
      <4>1. m \in 1..Len(outcomes[l]) /\ outcomes'[l][m] = outcomes[l][m]
        BY <1>1, <1>4, <3>2
      <4>2. AtMostOne(l, m) /\ TrueReport(outcomes[l][m], l, m) /\ outcomes[l][m] \in Outcomes
        BY <1>1, <4>1 DEF LaneOK, Settled, Shape
      <4> QED
        BY <4>1, <4>2, SameEntry
    <3> QED
      BY <3>1, <3>2
  <2> QED
    BY <1>4, <2>1 DEF Settled
<1>7. Stage(l)' \/ ~(Current(l)' <= MaxCalls)
  BY <1>1, <1>2, <1>4, <1>5, MaxCallsNat
  DEF LaneOK, Stage, Unsent, Admitted, Posted
<1>8. LaneOK(l)'
  BY <1>1, <1>2, <1>4, <1>5, <1>6, <1>7, MaxCallsNat DEF LaneOK
<1> QED
  BY <1>2, <1>3, <1>8, OneLane

\* A call goes on to wait for something else, having touched its own place in
\* the ledger only.
LEMMA AwaitStep ==
  ASSUME IndInv, NEW l \in Lanes, Current(l) \in 1..MaxCalls,
         CallShape', LedgerShape', Stage(l)',
         UNCHANGED <<setting, round, outcomes>>,
         \A k \in Lanes \ {l} : call'[k] = call[k] /\ ledger'[k] = ledger[k],
         \A m \in 1..MaxCalls \ {Current(l)} : ledger'[l][m] = ledger[l][m]
  PROVE  IndInv'
<1> DEFINE n == Current(l)
<1>1. Shape /\ LaneOK(l) /\ n \in Nat /\ n = Len(outcomes[l]) + 1
  BY CurrentNat DEF IndInv
<1>2. Shape'
  BY <1>1 DEF Shape
<1>3. Current(l)' = n
  BY DEF Current
<1>4. \A m \in 1..MaxCalls : m > n => Kinds(l, m)' = {}
  BY <1>1, MaxCallsNat, SameEntry DEF LaneOK
<1>5. Settled(l)'
  <2>1. ASSUME NEW m \in 1..Len(outcomes[l])
        PROVE  AtMostOne(l, m)' /\ TrueReport(outcomes[l][m], l, m)'
    <3>1. m \in 1..MaxCalls \ {n}
      BY <1>1, MaxCallsNat
    <3>2. AtMostOne(l, m) /\ TrueReport(outcomes[l][m], l, m) /\ outcomes[l][m] \in Outcomes
      BY <1>1 DEF LaneOK, Settled, Shape
    <3> QED
      BY <3>1, <3>2, SameEntry
  <2> QED
    BY <2>1 DEF Settled
<1>6. LaneOK(l)'
  BY <1>1, <1>3, <1>4, <1>5, MaxCallsNat DEF LaneOK
<1> QED
  BY <1>2, <1>6, OneLane

-----------------------------------------------------------------------------
(* The kinds of step the actions are made of.                               *)

\* Before a call has sent anything its place in the ledger is empty.
LEMMA NothingSent ==
  ASSUME IndInv, NEW l \in Lanes, Current(l) \in 1..MaxCalls,
         call[l].pc \in Unsent \union Admitted
  PROVE  Kinds(l, Current(l)) = {}
<1>1. Shape /\ LaneOK(l)
  BY DEF IndInv
<1>2. Stage(l)
  BY <1>1, CurrentNat, MaxCallsNat DEF LaneOK
<1> QED
  BY <1>2 DEF Stage

\* A call that waits has sent one transaction at most.
LEMMA OneSent ==
  ASSUME IndInv, NEW l \in Lanes, Current(l) \in 1..MaxCalls
  PROVE  AtMostOne(l, Current(l)) /\ Stage(l)
<1>1. Shape /\ LaneOK(l)
  BY DEF IndInv
<1>2. Stage(l) /\ call[l].pc \in Unsent \union Admitted \union Posted
  BY <1>1, CurrentNat, MaxCallsNat DEF LaneOK, Shape, CallShape
<1>3. Kinds(l, Current(l)) \in {{}, {"live"}, {"evm"}} \/ Kinds(l, Current(l)) \subseteq {"memo"}
  BY <1>2 DEF Stage, Posted
<1> QED
  BY <1>2, <1>3 DEF AtMostOne, Networks

\* An error says nothing.
LEMMA ErrorStep ==
  ASSUME IndInv, NEW l \in Lanes, Current(l) \in 1..MaxCalls,
         Settle(l, "error"), UNCHANGED <<setting, round, ledger>>
  PROVE  IndInv'
<1>1. TrueReport("error", l, Current(l)) /\ "error" \in Outcomes
  BY DEF TrueReport, Outcomes
<1> QED
  BY <1>1, OneSent, SettleStep

\* "No execution", of a call that sent nothing.
LEMMA NoneStep ==
  ASSUME IndInv, NEW l \in Lanes, Current(l) \in 1..MaxCalls,
         call[l].pc \in Unsent \union Admitted,
         Settle(l, "none"), UNCHANGED <<setting, round, ledger>>
  PROVE  IndInv'
<1>1. TrueReport("none", l, Current(l)) /\ "none" \in Outcomes
  BY NothingSent DEF TrueReport, Outcomes
<1> QED
  BY <1>1, OneSent, SettleStep

\* The call waits for its next answer, and has still sent nothing.
LEMMA QuietStep ==
  ASSUME IndInv, NEW l \in Lanes, Current(l) \in 1..MaxCalls,
         call[l].pc \in Unsent \union Admitted,
         NEW pc \in Unsent \ {"idle"}, NEW i, Await(l, pc, i),
         UNCHANGED <<setting, round, ledger>>
  PROVE  IndInv'
<1>1. Shape
  BY DEF IndInv
<1>2. /\ CallShape' /\ call'[l].pc = pc /\ UNCHANGED outcomes
      /\ \A k \in Lanes \ {l} : call'[k] = call[k]
  BY <1>1, AwaitUpdate DEF Shape, Await
<1>3. LedgerShape'
  BY <1>1 DEF Shape, LedgerShape
<1>4. Kinds(l, Current(l)) = {} /\ Current(l)' = Current(l)
  BY <1>2, NothingSent DEF Current
<1>5. Kinds(l, Current(l))' = {}
  BY <1>4, SameEntry DEF Kinds
<1>6. Stage(l)'
  BY <1>2, <1>5 DEF Stage, Unsent, Admitted
<1> QED
  BY <1>2, <1>3, <1>6, AwaitStep

\* The memo fallback is begun, or refused.
LEMMA FallBackStep ==
  ASSUME IndInv, NEW l \in Lanes, Current(l) \in 1..MaxCalls,
         call[l].pc \in Unsent \union Admitted,
         NEW i, FallBack(l, i), UNCHANGED <<setting, round, ledger>>
  PROVE  IndInv'
<1>1. CASE Await(l, "memo", i)
  <2>1. "memo" \in Unsent \ {"idle"}
    BY DEF Unsent
  <2> QED
    BY <1>1, <2>1, QuietStep
<1>2. CASE Settle(l, "error")
  BY <1>2, ErrorStep
<1> QED
  BY <1>1, <1>2 DEF FallBack

LEMMA NotSentStep ==
  ASSUME IndInv, NEW l \in Lanes, Current(l) \in 1..MaxCalls,
         call[l].pc \in Unsent \union Admitted,
         NotSent(l), UNCHANGED <<setting, round, ledger>>
  PROVE  IndInv'
<1>1. CASE Settle(l, "none")
  BY <1>1, NoneStep
<1>2. CASE FallBack(l, call[l].intent)
  BY <1>2, FallBackStep
<1> QED
  BY <1>1, <1>2 DEF NotSent

\* The engine allows the call.
LEMMA AdmitStep ==
  ASSUME IndInv, NEW l \in Lanes, Current(l) \in 1..MaxCalls,
         call[l].pc \in Unsent, NEW pc \in Admitted, NEW i, Await(l, pc, i),
         ledger' = [ledger EXCEPT ![l][Current(l)].allowed = TRUE],
         UNCHANGED <<setting, round>>
  PROVE  IndInv'
<1> DEFINE n == Current(l)
<1>1. Shape
  BY DEF IndInv
<1>2. /\ CallShape' /\ call'[l].pc = pc /\ UNCHANGED outcomes
      /\ \A k \in Lanes \ {l} : call'[k] = call[k]
  BY <1>1, AwaitUpdate DEF Shape, Await
<1>3. /\ LedgerShape'
      /\ \A k \in Lanes \ {l} : ledger'[k] = ledger[k]
      /\ \A m \in 1..MaxCalls \ {n} : ledger'[l][m] = ledger[l][m]
      /\ ledger'[l][n].allowed
      /\ \A kind \in Networks : ledger'[l][n][kind] = ledger[l][n][kind]
  BY <1>1 DEF Shape, LedgerShape, Networks
<1>4. Kinds(l, n) = {} /\ n' = n
  BY <1>2, NothingSent DEF Current
<1>5. Kinds(l, n)' = {}
  BY <1>3, <1>4 DEF Kinds, Networks
<1>6. Stage(l)'
  BY <1>2, <1>3, <1>4, <1>5 DEF Stage, Unsent, Admitted
<1> QED
  BY <1>2, <1>3, <1>6, AwaitStep

\* A transaction is handed to a network.
LEMMA SendStep ==
  ASSUME IndInv, NEW l \in Lanes, Current(l) \in 1..MaxCalls,
         call[l].pc \in Unsent \union Admitted,
         NEW pc \in Posted, NEW i, Await(l, pc, i), UNCHANGED <<setting, round>>,
         \/ /\ call[l].pc = "sandbox" /\ pc = "confirm"
            /\ ledger' = [ledger EXCEPT ![l][Current(l)].live = "sent",
                                        ![l][Current(l)].intent = i]
         \/ /\ call[l].pc = "evmSandbox" /\ pc = "evmWait"
            /\ ledger' = [ledger EXCEPT ![l][Current(l)].evm = "sent",
                                        ![l][Current(l)].intent = i]
         \/ /\ pc = "kora" /\ setting.kora # "mock"
            /\ ledger' = [ledger EXCEPT ![l][Current(l)].memo = "sent"]
  PROVE  IndInv'
<1> DEFINE n == Current(l)
           t == ledger[l][n]
           kind == IF pc = "kora" THEN "memo" ELSE IF pc = "confirm" THEN "live" ELSE "evm"
<1>1. Shape
  BY DEF IndInv
<1>2. /\ CallShape' /\ call'[l].pc = pc /\ UNCHANGED outcomes
      /\ \A k \in Lanes \ {l} : call'[k] = call[k]
  BY <1>1, AwaitUpdate DEF Shape, Await
<1>3. /\ LedgerShape'
      /\ \A k \in Lanes \ {l} : ledger'[k] = ledger[k]
      /\ \A m \in 1..MaxCalls \ {n} : ledger'[l][m] = ledger[l][m]
      /\ ledger'[l][n].allowed = t.allowed
      /\ ledger'[l][n][kind] = "sent"
      /\ \A k \in Networks \ {kind} : ledger'[l][n][k] = t[k]
  <2>1. CASE pc = "confirm" /\ kind = "live"
    <3>1. ledger' = [ledger EXCEPT ![l][n].live = "sent", ![l][n].intent = i]
      BY <2>1
    <3>2. \A k \in Lanes \ {l} : ledger'[k] = ledger[k]
      BY <1>1, <3>1 DEF Shape, LedgerShape
    <3>3. DOMAIN ledger' = Lanes /\ DOMAIN ledger'[l] = 1..MaxCalls
      BY <1>1, <3>1 DEF Shape, LedgerShape
    <3>4. \A m \in 1..MaxCalls \ {n} : ledger'[l][m] = ledger[l][m]
      BY <1>1, <3>1 DEF Shape, LedgerShape
    <3>5. ledger'[l][n] = [t EXCEPT !.live = "sent", !.intent = i]
      BY <1>1, <3>1 DEF Shape, LedgerShape
    <3>6. DOMAIN t = {"live", "memo", "evm", "intent", "allowed"}
      BY <1>1 DEF Shape, LedgerShape
    <3>7. /\ DOMAIN ledger'[l][n] = {"live", "memo", "evm", "intent", "allowed"}
          /\ ledger'[l][n].allowed = t.allowed
          /\ ledger'[l][n].live = "sent"
          /\ ledger'[l][n].memo = t.memo /\ ledger'[l][n].evm = t.evm
      BY <3>5, <3>6
    <3>8. LedgerShape'
      BY <1>1, <3>2, <3>3, <3>4, <3>7, LedgerUpdate DEF Shape
    <3> QED
      BY <2>1, <3>2, <3>4, <3>7, <3>8 DEF Networks
  <2>2. CASE pc = "evmWait" /\ kind = "evm"
    <3>1. ledger' = [ledger EXCEPT ![l][n].evm = "sent", ![l][n].intent = i]
      BY <2>2
    <3>2. \A k \in Lanes \ {l} : ledger'[k] = ledger[k]
      BY <1>1, <3>1 DEF Shape, LedgerShape
    <3>3. DOMAIN ledger' = Lanes /\ DOMAIN ledger'[l] = 1..MaxCalls
      BY <1>1, <3>1 DEF Shape, LedgerShape
    <3>4. \A m \in 1..MaxCalls \ {n} : ledger'[l][m] = ledger[l][m]
      BY <1>1, <3>1 DEF Shape, LedgerShape
    <3>5. ledger'[l][n] = [t EXCEPT !.evm = "sent", !.intent = i]
      BY <1>1, <3>1 DEF Shape, LedgerShape
    <3>6. DOMAIN t = {"live", "memo", "evm", "intent", "allowed"}
      BY <1>1 DEF Shape, LedgerShape
    <3>7. /\ DOMAIN ledger'[l][n] = {"live", "memo", "evm", "intent", "allowed"}
          /\ ledger'[l][n].allowed = t.allowed
          /\ ledger'[l][n].evm = "sent"
          /\ ledger'[l][n].live = t.live /\ ledger'[l][n].memo = t.memo
      BY <3>5, <3>6
    <3>8. LedgerShape'
      BY <1>1, <3>2, <3>3, <3>4, <3>7, LedgerUpdate DEF Shape
    <3> QED
      BY <2>2, <3>2, <3>4, <3>7, <3>8 DEF Networks
  <2>3. CASE pc = "kora" /\ kind = "memo"
    <3>1. ledger' = [ledger EXCEPT ![l][n].memo = "sent"]
      BY <2>3
    <3>2. \A k \in Lanes \ {l} : ledger'[k] = ledger[k]
      BY <1>1, <3>1 DEF Shape, LedgerShape
    <3>3. DOMAIN ledger' = Lanes /\ DOMAIN ledger'[l] = 1..MaxCalls
      BY <1>1, <3>1 DEF Shape, LedgerShape
    <3>4. \A m \in 1..MaxCalls \ {n} : ledger'[l][m] = ledger[l][m]
      BY <1>1, <3>1 DEF Shape, LedgerShape
    <3>5. ledger'[l][n] = [t EXCEPT !.memo = "sent"]
      BY <1>1, <3>1 DEF Shape, LedgerShape
    <3>6. DOMAIN t = {"live", "memo", "evm", "intent", "allowed"}
      BY <1>1 DEF Shape, LedgerShape
    <3>7. /\ DOMAIN ledger'[l][n] = {"live", "memo", "evm", "intent", "allowed"}
          /\ ledger'[l][n].allowed = t.allowed
          /\ ledger'[l][n].memo = "sent"
          /\ ledger'[l][n].live = t.live /\ ledger'[l][n].evm = t.evm
      BY <3>5, <3>6
    <3>8. LedgerShape'
      BY <1>1, <3>2, <3>3, <3>4, <3>7, LedgerUpdate DEF Shape
    <3> QED
      BY <2>3, <3>2, <3>4, <3>7, <3>8 DEF Networks
  <2> QED
    BY <2>1, <2>2, <2>3
<1>4. Kinds(l, n) = {} /\ n' = n /\ Stage(l)
  BY <1>2, NothingSent, OneSent DEF Current
<1>5. Kinds(l, n)' = {kind}
  BY <1>3, <1>4 DEF Kinds, Networks
<1>6. Stage(l)'
  <2>1. pc # "kora" => t.allowed /\ pc \in {"confirm", "evmWait"}
    BY <1>4 DEF Stage, Admitted
  <2> QED
    BY <1>2, <1>3, <1>4, <1>5, <2>1 DEF Stage, Unsent, Admitted, Posted
<1> QED
  BY <1>2, <1>3, <1>6, AwaitStep

-----------------------------------------------------------------------------
(* One lemma for each group of actions.                                     *)

\* The first step of a call.
LEMMA BeginStep ==
  ASSUME IndInv, NEW l \in Lanes,
         \/ Hold(l) \/ execute(l) \/ runFullSuite(l) \/ simulateMarketAction(l)
         \/ executeIntent(l) \/ routeToEvm(l)
  PROVE  IndInv'
<1>1. Pending(l) /\ UNCHANGED <<setting, round, ledger>>
  BY DEF Hold, execute, runFullSuite, simulateMarketAction, executeIntent, routeToEvm
<1>2. Current(l) \in 1..MaxCalls /\ call[l].pc \in Unsent \union Admitted
  BY <1>1, PendingFits DEF IndInv, Unsent
<1>3. \/ Settle(l, "none") \/ Settle(l, "error")
      \/ \E i : FallBack(l, i)
      \/ \E pc \in {"snapshot", "prerequisites", "build", "evmBuild"} : \E i : Await(l, pc, i)
  <2>1. CASE Hold(l)
    BY <2>1 DEF Hold
  <2>2. CASE execute(l)
    <3>1. PICK i \in Intents(l) :
            \/ FallBack(l, i) \/ Settle(l, "error")
            \/ Await(l, IF i.protocol = "jupiter" THEN "snapshot" ELSE "prerequisites", i)
      BY <2>2, Zenon DEF execute
    <3> QED
      BY <3>1
  <2>3. CASE runFullSuite(l)
    BY <2>3, Zenon DEF runFullSuite
  <2>4. CASE simulateMarketAction(l)
    BY <2>4 DEF simulateMarketAction
  <2>5. CASE executeIntent(l)
    BY <2>5 DEF executeIntent
  <2>6. CASE routeToEvm(l)
    BY <2>6 DEF routeToEvm
  <2> QED
    BY <2>1, <2>2, <2>3, <2>4, <2>5, <2>6
<1>4. CASE Settle(l, "none")
  BY <1>1, <1>2, <1>4, NoneStep
<1>5. CASE Settle(l, "error")
  BY <1>1, <1>2, <1>5, ErrorStep
<1>6. CASE \E i : FallBack(l, i)
  BY <1>1, <1>2, <1>6, FallBackStep
<1>7. CASE \E pc \in {"snapshot", "prerequisites", "build", "evmBuild"} : \E i : Await(l, pc, i)
  <2>1. PICK pc \in {"snapshot", "prerequisites", "build", "evmBuild"} : \E i : Await(l, pc, i)
    BY <1>7
  <2>2. pc \in Unsent \ {"idle"}
    BY DEF Unsent
  <2> QED
    BY <1>1, <1>2, <2>1, <2>2, QuietStep
<1> QED
  BY <1>3, <1>4, <1>5, <1>6, <1>7

\* A call moves on with the balances it has read.
MovesOn(l, pc, before) ==
  call' = [call EXCEPT ![l].pc = pc, ![l].before = before]

\* The accounts are read and the snapshot is taken.
LEMMA PrepareStep ==
  ASSUME IndInv, NEW l \in Lanes, PrerequisitesRead(l) \/ SnapshotTaken(l) \/ BalanceTaken(l)
  PROVE  IndInv'
<1>1. /\ Shape /\ LaneOK(l) /\ UNCHANGED <<setting, round, ledger>>
      /\ call[l].pc \in {"prerequisites", "snapshot", "balance"}
  BY DEF IndInv, PrerequisitesRead, SnapshotTaken, BalanceTaken, At
<1>2. Current(l) \in 1..MaxCalls /\ call[l].pc \in Unsent
  BY <1>1, AwaitingFits DEF Unsent
<1>3. CASE PrerequisitesRead(l)
  <2>1. "snapshot" \in Unsent \ {"idle"}
    BY DEF Unsent
  <2>2. Await(l, "snapshot", call[l].intent) \/ FallBack(l, call[l].intent)
    BY <1>3 DEF PrerequisitesRead
  <2>3. CASE Await(l, "snapshot", call[l].intent)
    BY <1>1, <1>2, <2>1, <2>3, QuietStep
  <2>4. CASE FallBack(l, call[l].intent)
    BY <1>1, <1>2, <2>4, FallBackStep
  <2> QED
    BY <2>2, <2>3, <2>4
<1>4. CASE SnapshotTaken(l) \/ BalanceTaken(l)
  <2>1. PICK pc, before :
          /\ pc \in {"balance", "build"}
          /\ MovesOn(l, pc, before)
    <3>1. CASE SnapshotTaken(l)
      <4> DEFINE label == IF LooksTwice(l) THEN "balance" ELSE "build"
      <4> DEFINE before == holdings[Wallet(l)]
      <4>1. MovesOn(l, label, before)
        BY <3>1 DEF SnapshotTaken, MovesOn
      <4>2. label \in {"balance", "build"}
        OBVIOUS
      <4> HIDE DEF label, before
      <4> QED
        BY <4>1, <4>2
    <3>2. CASE BalanceTaken(l)
      <4> DEFINE before == [call[l].before EXCEPT !["usdc"] = holdings[Wallet(l)]["usdc"]]
      <4>1. MovesOn(l, "build", before)
        BY <3>2 DEF BalanceTaken, MovesOn
      <4> HIDE DEF before
      <4> QED
        BY <4>1
    <3> QED
      BY <1>4, <3>1, <3>2
  <2>2. UNCHANGED outcomes
    BY <1>4 DEF SnapshotTaken, BalanceTaken
  <2>3. /\ CallShape' /\ LedgerShape'
        /\ call'[l].pc = pc
        /\ \A k \in Lanes \ {l} : call'[k] = call[k]
    BY <1>1, <2>1 DEF Shape, CallShape, LedgerShape, Unsent, MovesOn
  <2>4. Kinds(l, Current(l)) = {} /\ Current(l)' = Current(l)
    BY <1>2, <2>2, NothingSent DEF Current
  <2>5. Kinds(l, Current(l))' = {}
    BY <1>1, <2>4, SameEntry DEF Kinds
  <2>6. Stage(l)'
    BY <2>1, <2>3, <2>5 DEF Stage, Unsent, Admitted
  <2> QED
    BY <1>1, <1>2, <2>2, <2>3, <2>6, AwaitStep
<1> QED
  BY <1>3, <1>4

\* The executor is handed the transaction, refuses it, or sends it.
LEMMA ExecutorStep ==
  ASSUME IndInv, NEW l \in Lanes,
         \/ Built(l) \/ SandboxRefuses(l) \/ Sent(l)
         \/ EvmBuilt(l) \/ EvmSent(l)
  PROVE  IndInv'
<1>1. /\ Shape /\ LaneOK(l) /\ UNCHANGED <<setting, round>>
      /\ call[l].pc \in {"build", "sandbox", "evmBuild", "evmSandbox"}
  BY DEF IndInv, Built, SandboxRefuses, Sent, EvmBuilt, EvmSent, At
<1>2. Current(l) \in 1..MaxCalls /\ call[l].pc \in Unsent \union Admitted
  BY <1>1, AwaitingFits DEF Unsent, Admitted
<1>3. CASE Built(l)
  <2>1. call[l].pc = "build" /\ call[l].pc \in Unsent /\ "sandbox" \in Admitted
    BY <1>3 DEF Built, At, Unsent, Admitted
  <2>2. \/ NotSent(l) /\ UNCHANGED ledger
        \/ /\ Await(l, "sandbox", call[l].intent)
           /\ ledger' = [ledger EXCEPT ![l][Current(l)].allowed = TRUE]
    BY <1>3 DEF Built
  <2> QED
    BY <1>1, <1>2, <2>1, <2>2, NotSentStep, AdmitStep
<1>4. CASE SandboxRefuses(l)
  BY <1>1, <1>2, <1>4, NotSentStep DEF SandboxRefuses
<1>5. CASE Sent(l)
  BY <1>1, <1>2, <1>5, SendStep DEF Sent, At, Posted
<1>6. CASE EvmBuilt(l)
  <2>1. call[l].pc \in Unsent /\ "evmSandbox" \in Admitted
    BY <1>6 DEF EvmBuilt, At, Unsent, Admitted
  <2>2. \/ Settle(l, "none") /\ UNCHANGED ledger
        \/ /\ Await(l, "evmSandbox", call[l].intent)
           /\ ledger' = [ledger EXCEPT ![l][Current(l)].allowed = TRUE]
    BY <1>6 DEF EvmBuilt
  <2> QED
    BY <1>1, <1>2, <2>1, <2>2, NoneStep, AdmitStep
<1>7. CASE EvmSent(l)
  BY <1>1, <1>2, <1>7, SendStep DEF EvmSent, At, Posted
<1> QED
  BY <1>3, <1>4, <1>5, <1>6, <1>7

\* The live transaction is confirmed and verified.
LEMMA LiveStep ==
  ASSUME IndInv, NEW l \in Lanes, Confirmed(l) \/ Verified(l) \/ LivePathThrows(l)
  PROVE  IndInv'
<1> DEFINE n == Current(l)
           t == ledger[l][n]
<1>1. /\ Shape /\ LaneOK(l) /\ UNCHANGED <<setting, round, ledger>>
      /\ call[l].pc # "idle"
  BY DEF IndInv, Confirmed, Verified, LivePathThrows, Rejects, At
<1>2. n \in 1..MaxCalls
  BY <1>1, AwaitingFits
<1>3. AtMostOne(l, n) /\ Stage(l)
  BY <1>2, OneSent
<1>4. ASSUME Settle(l, "live"), t.live \in {"landed", "failed"}, t.allowed PROVE IndInv'
  <2>1. TrueReport("live", l, n) /\ "live" \in Outcomes
    BY <1>4 DEF TrueReport, Outcomes
  <2> QED
    BY <1>1, <1>2, <1>3, <1>4, <2>1, SettleStep
<1>5. ASSUME NEW pc \in {"verify", "verifyBalance"}, Await(l, pc, call[l].intent),
             Kinds(l, n) = {"live"}, t.allowed, t.live \in {"landed", "failed"}
      PROVE  IndInv'
  <2>1. /\ CallShape' /\ call'[l].pc = pc /\ UNCHANGED outcomes
        /\ \A k \in Lanes \ {l} : call'[k] = call[k]
    BY <1>1, <1>5, AwaitUpdate DEF Shape, Await, Posted
  <2>2. LedgerShape' /\ Current(l)' = n
    BY <1>1, <2>1 DEF Shape, LedgerShape, Current
  <2>3. Kinds(l, n)' = {"live"}
    BY <1>1, <1>5, <2>1, <2>2, SameEntry DEF Kinds
  <2>4. Stage(l)'
    BY <1>1, <1>5, <2>1, <2>2, <2>3 DEF Stage, Unsent, Admitted
  <2> QED
    BY <1>1, <1>2, <2>1, <2>2, <2>4, AwaitStep
<1>6. CASE Confirmed(l) \/ Verified(l)
  <2>1. Kinds(l, n) = {"live"} /\ t.allowed /\ t.live \in {"landed", "failed"}
    BY <1>3, <1>6 DEF Confirmed, Verified, At, Stage
  <2>2. \/ Settle(l, "live") \/ Settle(l, "error")
        \/ \E pc \in {"verify", "verifyBalance"} : Await(l, pc, call[l].intent)
    BY <1>6, Zenon DEF Confirmed, Verified
  <2> QED
    BY <1>1, <1>2, <1>4, <1>5, <2>1, <2>2, ErrorStep
<1>7. CASE LivePathThrows(l)
  BY <1>1, <1>2, <1>7, ErrorStep DEF LivePathThrows, Rejects
<1> QED
  BY <1>6, <1>7

\* The memo is built and relayed.
LEMMA MemoStep ==
  ASSUME IndInv, NEW l \in Lanes,
         MemoBuilt(l) \/ MemoThrows(l) \/ KoraAnswered(l) \/ KoraFailed(l)
  PROVE  IndInv'
<1> DEFINE n == Current(l)
<1>1. /\ Shape /\ LaneOK(l) /\ UNCHANGED <<setting, round>>
      /\ call[l].pc \in {"memo", "kora"}
  BY DEF IndInv, MemoBuilt, MemoThrows, KoraAnswered, KoraFailed, Rejects, At
<1>2. n \in 1..MaxCalls
  BY <1>1, AwaitingFits
<1>3. AtMostOne(l, n) /\ Stage(l)
  BY <1>2, OneSent
<1>4. CASE MemoBuilt(l)
  <2>1. call[l].pc = "memo" /\ call[l].pc \in Unsent
    BY <1>4 DEF MemoBuilt, At, Unsent
  <2>2. Kinds(l, n) = {}
    BY <1>2, <2>1, NothingSent
  <2>3. CASE Settle(l, "mock") /\ UNCHANGED ledger
    <3>1. TrueReport("mock", l, n) /\ "mock" \in Outcomes
      BY <2>2 DEF TrueReport, Outcomes
    <3> QED
      BY <1>1, <1>2, <1>3, <2>3, <3>1, SettleStep
  <2>4. CASE /\ setting.kora # "mock" /\ Await(l, "kora", call[l].intent)
             /\ ledger' = [ledger EXCEPT ![l][n].memo = "sent"]
    BY <1>1, <1>2, <2>1, <2>4, SendStep DEF Posted
  <2>5. CASE /\ setting.kora = "fallback"
             /\ call' = [call EXCEPT ![l].pc = "kora", ![l].fresh = FALSE]
             /\ UNCHANGED <<outcomes, ledger>>
    <3>1. /\ CallShape' /\ LedgerShape'
          /\ call'[l].pc = "kora" /\ ~call'[l].fresh
          /\ \A k \in Lanes \ {l} : call'[k] = call[k]
      BY <1>1, <2>5 DEF Shape, CallShape, LedgerShape, Posted
    <3>2. Current(l)' = n
      BY <2>5 DEF Current
    <3>3. Kinds(l, n)' = {}
      BY <1>1, <2>2, <2>5, <3>2, SameEntry DEF Kinds
    <3>4. Stage(l)'
      BY <1>1, <2>5, <3>1, <3>2, <3>3 DEF Stage, Unsent, Admitted
    <3> QED
      BY <1>1, <1>2, <2>5, <3>1, <3>4, AwaitStep
  <2> QED
    BY <1>4, <2>3, <2>4, <2>5 DEF MemoBuilt
<1>5. CASE MemoThrows(l)
  BY <1>1, <1>2, <1>5, ErrorStep DEF MemoThrows, Rejects
<1>6. CASE KoraAnswered(l)
  <2>1. TrueReport("memo", l, n) /\ "memo" \in Outcomes
    BY <1>3, <1>6 DEF KoraAnswered, At, Stage, TrueReport, Outcomes
  <2> QED
    BY <1>1, <1>2, <1>3, <1>6, <2>1, SettleStep DEF KoraAnswered
<1>7. CASE KoraFailed(l)
  <2>1. CASE Settle(l, "mock")
    <3>1. TrueReport("mock", l, n) /\ "mock" \in Outcomes
      BY <1>3, <1>7 DEF KoraFailed, At, Stage, TrueReport, Outcomes
    <3> QED
      BY <1>1, <1>2, <1>3, <1>7, <2>1, <3>1, SettleStep DEF KoraFailed
  <2>2. CASE Settle(l, "error")
    BY <1>1, <1>2, <1>7, <2>2, ErrorStep DEF KoraFailed
  <2> QED
    BY <1>7, <2>1, <2>2, Zenon DEF KoraFailed
<1> QED
  BY <1>4, <1>5, <1>6, <1>7

\* The Neon transaction is mined, or the route gives up.
LEMMA EvmStep ==
  ASSUME IndInv, NEW l \in Lanes, EvmBuildThrows(l) \/ EvmMined(l) \/ EvmBlocked(l)
  PROVE  IndInv'
<1> DEFINE n == Current(l)
<1>1. /\ Shape /\ LaneOK(l) /\ UNCHANGED <<setting, round, ledger>>
      /\ call[l].pc \in {"evmBuild", "evmSandbox", "evmWait"}
  BY DEF IndInv, EvmBuildThrows, EvmMined, EvmBlocked, Rejects, At
<1>2. n \in 1..MaxCalls
  BY <1>1, AwaitingFits
<1>3. AtMostOne(l, n) /\ Stage(l)
  BY <1>2, OneSent
<1>4. CASE EvmBuildThrows(l)
  BY <1>1, <1>2, <1>4, ErrorStep DEF EvmBuildThrows, Rejects
<1>5. CASE EvmMined(l)
  <2>1. TrueReport("evm", l, n) /\ "evm" \in Outcomes
    BY <1>3, <1>5 DEF EvmMined, At, Stage, TrueReport, Outcomes
  <2> QED
    BY <1>1, <1>2, <1>3, <1>5, <2>1, SettleStep DEF EvmMined
<1>6. CASE EvmBlocked(l)
  <2>1. Kinds(l, n) \subseteq {"evm"}
    BY <1>3, <1>6 DEF EvmBlocked, Stage, Admitted
  <2>2. TrueReport("none", l, n) /\ "none" \in Outcomes
    BY <2>1 DEF TrueReport, Outcomes
  <2> QED
    BY <1>1, <1>2, <1>3, <1>6, <2>2, SettleStep DEF EvmBlocked
<1> QED
  BY <1>4, <1>5, <1>6

\* What a lane has seen of its transactions a ledger does not take back.
LEMMA LandStep ==
  ASSUME IndInv, NEW l \in Lanes, NEW n \in 1..MaxCalls, NEW kind \in Networks,
         Land(l, n, kind)
  PROVE  IndInv'
<1>1. /\ Shape /\ UNCHANGED <<setting, round, call, outcomes>>
      /\ ledger[l][n][kind] = "sent"
  BY DEF IndInv, Land
<1>2. PICK s \in {"landed", "failed"} : ledger' = [ledger EXCEPT ![l][n][kind] = s]
  BY DEF Land
<1>3. /\ DOMAIN ledger' = Lanes /\ DOMAIN ledger'[l] = 1..MaxCalls
      /\ \A k \in Lanes \ {l} : ledger'[k] = ledger[k]
      /\ \A m \in 1..MaxCalls \ {n} : ledger'[l][m] = ledger[l][m]
      /\ ledger'[l][n] = [ledger[l][n] EXCEPT ![kind] = s]
  BY <1>1, <1>2 DEF Shape, LedgerShape
<1>4. DOMAIN ledger[l][n] = {"live", "memo", "evm", "intent", "allowed"}
  BY <1>1 DEF Shape, LedgerShape
<1>5. /\ DOMAIN ledger'[l][n] = {"live", "memo", "evm", "intent", "allowed"}
      /\ ledger'[l][n].allowed = ledger[l][n].allowed
      /\ ledger'[l][n][kind] = s
      /\ \A c \in Networks \ {kind} : ledger'[l][n][c] = ledger[l][n][c]
  BY <1>3, <1>4 DEF Networks
<1>6. LedgerShape'
  BY <1>1, <1>3, <1>5, LedgerUpdate DEF Shape
<1>7. ASSUME NEW k \in Lanes, NEW m \in 1..MaxCalls
      PROVE  /\ Kinds(k, m)' = Kinds(k, m)
             /\ ledger'[k][m].allowed = ledger[k][m].allowed
             /\ ledger[k][m].live \in {"landed", "failed"} => ledger'[k][m].live = ledger[k][m].live
             /\ ledger[k][m].evm = "landed" => ledger'[k][m].evm = "landed"
  <2>1. CASE k = l /\ m = n
    <3>1. \A c \in Networks : ledger'[l][n][c] # "absent" <=> ledger[l][n][c] # "absent"
      BY <1>1, <1>5
    <3>2. Kinds(l, n)' = Kinds(l, n)
      BY <3>1 DEF Kinds, Networks
    <3>3. /\ ledger[l][n].live \in {"landed", "failed"} => ledger'[l][n].live = ledger[l][n].live
          /\ ledger[l][n].evm = "landed" => ledger'[l][n].evm = "landed"
      BY <1>1, <1>5 DEF Networks
    <3> QED
      BY <1>5, <2>1, <3>2, <3>3
  <2>2. CASE ~(k = l /\ m = n)
    <3>1. ledger'[k][m] = ledger[k][m]
      BY <1>3, <2>2
    <3> QED
      BY <1>1, <3>1, SameEntry
  <2> QED
    BY <2>1, <2>2
<1>8. ASSUME NEW k \in Lanes PROVE LaneOK(k)'
  <2>1. LaneOK(k) /\ Current(k)' = Current(k)
    BY <1>1 DEF IndInv, Current
  <2>2. Current(k) <= MaxCalls => Stage(k)'
    <3>1. SUFFICES ASSUME Current(k) <= MaxCalls PROVE Stage(k)'
      OBVIOUS
    <3>2. Current(k) \in 1..MaxCalls /\ Stage(k)
      BY <1>1, <2>1, <3>1, CurrentNat, MaxCallsNat DEF LaneOK
    <3> QED
      BY <1>1, <1>7, <2>1, <3>2 DEF Stage
  <2>3. Settled(k)'
    <3>1. ASSUME NEW m \in 1..Len(outcomes[k])
          PROVE  AtMostOne(k, m)' /\ TrueReport(outcomes[k][m], k, m)'
      <4>1. m \in 1..MaxCalls
        BY <1>1, <2>1, CurrentNat, MaxCallsNat DEF LaneOK
      <4>2. AtMostOne(k, m) /\ TrueReport(outcomes[k][m], k, m)
        BY <2>1 DEF LaneOK, Settled
      <4> QED
        BY <1>1, <1>7, <4>1, <4>2 DEF AtMostOne, TrueReport
    <3> QED
      BY <1>1, <3>1 DEF Settled
  <2>4. \A m \in 1..MaxCalls : m > Current(k) => Kinds(k, m)' = {}
    BY <1>7, <2>1 DEF LaneOK
  <2> QED
    BY <1>1, <2>1, <2>2, <2>3, <2>4 DEF LaneOK
<1>9. Shape'
  BY <1>1, <1>6 DEF Shape, CallShape
<1> QED
  BY <1>8, <1>9 DEF IndInv

\* A round begins, or nothing happens.
LEMMA RestStep ==
  ASSUME IndInv, NextRound \/ UNCHANGED vars
  PROVE  IndInv'
<1>1. Shape /\ UNCHANGED <<setting, call, outcomes, ledger>>
  BY DEF IndInv, NextRound, vars
<1>2. round' \in 1..Rounds
  BY <1>1, SettingsAssumption DEF NextRound, vars, Shape
<1>3. Shape'
  BY <1>1, <1>2 DEF Shape, CallShape, LedgerShape
<1>4. ASSUME NEW k \in Lanes PROVE LaneOK(k)'
  <2>1. LaneOK(k)
    BY DEF IndInv
  <2>2. \A m : Kinds(k, m)' = Kinds(k, m)
    BY <1>1 DEF Kinds
  <2> QED
    BY <1>1, <2>1, <2>2 DEF LaneOK, Stage, Settled, AtMostOne, TrueReport, Current
<1> QED
  BY <1>3, <1>4 DEF IndInv

-----------------------------------------------------------------------------
(* The theorems.                                                            *)

LEMMA InitIndInv == Init => IndInv
<1> SUFFICES ASSUME Init PROVE IndInv
  OBVIOUS
<1>1. /\ \A l \in Lanes : outcomes[l] = <<>> /\ call[l] = Idle
      /\ \A l \in Lanes, n \in 1..MaxCalls : ledger[l][n] = NoTransaction
  BY DEF Init
<1>2. Shape
  BY SettingsAssumption DEF Init, Shape, CallShape, LedgerShape, Idle, NoTransaction, Unsent
<1>3. \A l \in Lanes, n \in 1..MaxCalls : Kinds(l, n) = {}
  BY <1>1 DEF Kinds, NoTransaction
<1>4. ASSUME NEW l \in Lanes PROVE LaneOK(l)
  <2>1. Len(outcomes[l]) = 0 /\ Current(l) = 1 /\ call[l].pc = "idle"
    BY <1>1 DEF Current, Idle
  <2>2. 1 <= MaxCalls => Stage(l)
    BY <1>3, <2>1, MaxCallsNat DEF Stage, Admitted
  <2>3. Settled(l)
    BY <2>1 DEF Settled
  <2> QED
    BY <1>3, <2>1, <2>2, <2>3, MaxCallsNat DEF LaneOK
<1> QED
  BY <1>2, <1>4 DEF IndInv

LEMMA NextIndInv == IndInv /\ [Next]_vars => IndInv'
<1> SUFFICES ASSUME IndInv, [Next]_vars PROVE IndInv'
  OBVIOUS
<1>1. CASE NextRound \/ UNCHANGED vars
  BY <1>1, RestStep
<1>2. ASSUME NEW l \in Lanes, Lane(l) PROVE IndInv'
  BY <1>2, BeginStep, PrepareStep, ExecutorStep, LiveStep, MemoStep, EvmStep DEF Lane
<1>3. ASSUME NEW l \in Lanes, NEW n \in 1..MaxCalls, NEW kind \in Networks, Land(l, n, kind)
      PROVE  IndInv'
  BY <1>3, LandStep
<1> QED
  BY <1>1, <1>2, <1>3 DEF Next, Networks

\* The invariant of the lanes is one of the specification.
THEOREM IndCorrect == Spec => []IndInv
BY InitIndInv, NextIndInv, PTL DEF Spec

\* An intent hands one transaction to a network at most: the memo fallback, the
\* live path and the Neon route of UniversalDeFiOrchestrator exclude each other.
THEOREM OneTransactionPerIntentHolds == Spec => []OneTransactionPerIntent
<1>1. IndInv => OneTransactionPerIntent
  <2> SUFFICES ASSUME IndInv, NEW l \in Lanes, NEW n \in 1..MaxCalls
               PROVE  Cardinality(Kinds(l, n)) <= 1
    BY DEF OneTransactionPerIntent
  <2>1. Shape /\ LaneOK(l)
    BY DEF IndInv
  <2>2. \E kind \in Networks : Kinds(l, n) \subseteq {kind}
    <3>1. CASE n > Current(l)
      BY <2>1, <3>1 DEF LaneOK, Networks
    <3>2. CASE n = Current(l)
      BY <3>2, OneSent DEF AtMostOne
    <3>3. CASE n < Current(l)
      BY <2>1, <3>3, CurrentNat DEF LaneOK, Settled, AtMostOne
    <3> QED
      BY <2>1, <3>1, <3>2, <3>3, CurrentNat
  <2>3. PICK kind \in Networks : Kinds(l, n) \subseteq {kind}
    BY <2>2
  <2>4. IsFiniteSet({kind}) /\ Cardinality({kind}) = 1
    BY FS_Singleton
  <2>5. IsFiniteSet(Kinds(l, n)) /\ Cardinality(Kinds(l, n)) <= 1
    BY <2>3, <2>4, FS_Subset
  <2> QED
    BY <2>5
<1> QED
  BY IndCorrect, <1>1, PTL

\* What a settled call answered agrees with the ledgers, and goes on agreeing
\* with them whatever lands later.
THEOREM ReportsAreTrueHolds == Spec => []ReportsAreTrue
<1>1. IndInv => ReportsAreTrue
  <2> SUFFICES ASSUME IndInv, NEW l \in Lanes, NEW n \in DOMAIN outcomes[l]
               PROVE  TrueReport(outcomes[l][n], l, n)
    BY DEF ReportsAreTrue
  <2>1. Shape /\ LaneOK(l) /\ n \in 1..Len(outcomes[l])
    BY DEF IndInv, Shape
  <2> QED
    BY <2>1 DEF LaneOK, Settled
<1> QED
  BY IndCorrect, <1>1, PTL

-----------------------------------------------------------------------------
(* What a verification compares: the balances of the snapshot and those of *)
(* the wallet, which its other calls move as well.                         *)

LivePath == {"balance", "build", "sandbox", "confirm", "verify", "verifyBalance"}

\* Where a call waits that only an intent of a protocol can reach.
MarketOnly == {"prerequisites", "snapshot", "balance", "verify", "verifyBalance"}

\* The call m of k is another landed call of the wallet of l.
IsOther(l, k, m) ==
  /\ <<k, m>> # <<l, Current(l)>>
  /\ Wallet(k) = Wallet(l)
  /\ ledger[k][m].live = "landed"

SpentByAnother(l, a) ==
  \E k \in Lanes, m \in 1..MaxCalls :
    IsOther(l, k, m) /\ a \in PlanOf(ledger[k][m].intent).costs

BroughtByAnother(l, a) ==
  \E k \in Lanes, m \in 1..MaxCalls :
    IsOther(l, k, m) /\ a \in PlanOf(ledger[k][m].intent).gains

\* Only an intent of a protocol has a snapshot, and a verification.
IntentOK(l) ==
  /\ call[l].pc \in MarketOnly => call[l].intent.protocol \in Protocols
  /\ call[l].pc \in LivePath => call[l].intent.protocol \in Protocols \union {"none"}

\* The units of an asset the call's own transaction has brought in.
Bought(l) == IF ledger[l][Current(l)].live = "landed" THEN 1 ELSE 0

\* The wallet has of an asset what the snapshot saw and what the transaction
\* brought: not less, unless another call has spent of it, and not more, unless
\* another call has brought some.
GrownBy(l, a) ==
  /\ holdings[Wallet(l)][a] >= call[l].before[a] + Bought(l) \/ SpentByAnother(l, a)
  /\ holdings[Wallet(l)][a] <= call[l].before[a] + Bought(l) \/ BroughtByAnother(l, a)

\* It has so of each asset the verification asks about.
GrowthOK(l) ==
  call[l].pc \in LivePath /\ ~IsPlain(l) =>
    /\ call[l].before \in [Assets -> Nat]
    /\ ledger[l][Current(l)].live # "absent" => ledger[l][Current(l)].intent = call[l].intent
    /\ \A a \in PlanOf(call[l].intent).gains : GrownBy(l, a)

GrowthInv ==
  /\ holdings \in [Wallets -> [Assets -> Nat]]
  /\ \A l \in Lanes : IntentOK(l) /\ GrowthOK(l)
\* What an Await, and a Settle, leave of the calls.
LEMMA AwaitKeeps ==
  ASSUME CallShape, NEW l \in Lanes, NEW pc, NEW i, Await(l, pc, i)
  PROVE  /\ call'[l].pc = pc /\ call'[l].intent = i /\ call'[l].before = call[l].before
         /\ outcomes' = outcomes
         /\ \A k \in Lanes \ {l} : call'[k] = call[k]
BY DEF CallShape, Await

LEMMA SettleKeeps ==
  ASSUME Shape, NEW l \in Lanes, NEW o, Settle(l, o)
  PROVE  /\ call'[l].pc = "idle"
         /\ \A k \in Lanes \ {l} : call'[k] = call[k] /\ outcomes'[k] = outcomes[k]
<1>1. DOMAIN call = Lanes /\ DOMAIN outcomes = Lanes
  BY DEF Shape, CallShape
<1> QED
  BY <1>1 DEF Settle, Idle

\* A lane writes its own place in the ledger, before it has sent anything there.
Writes(l) ==
  LET n == Current(l) IN
  \/ ledger' = ledger
  \/ ledger' = [ledger EXCEPT ![l][n].allowed = TRUE]
  \/ call[l].pc = "memo" /\ ledger' = [ledger EXCEPT ![l][n].memo = "sent"]
  \/ /\ call[l].pc = "evmSandbox"
     /\ \E i : ledger' = [ledger EXCEPT ![l][n].evm = "sent", ![l][n].intent = i]
  \/ /\ call[l].pc = "sandbox"
     /\ \E i : ledger' = [ledger EXCEPT ![l][n].live = "sent", ![l][n].intent = i]

\* What has landed stays.
LandedStays ==
  \A k \in Lanes, m \in 1..MaxCalls :
    ledger[k][m].live = "landed" =>
      ledger'[k][m].live = "landed" /\ ledger'[k][m].intent = ledger[k][m].intent

LEMMA WritesKeep ==
  ASSUME IndInv, NEW l \in Lanes, Writes(l), call[l].pc # "idle" \/ ledger' = ledger
  PROVE  LandedStays /\ \A k \in Lanes \ {l} : ledger'[k] = ledger[k]
<1> DEFINE n == Current(l)
<1>1. CASE ledger' = ledger
  BY <1>1 DEF LandedStays
<1>2. CASE call[l].pc # "idle"
  <2>1. Shape /\ LedgerShape /\ n \in 1..MaxCalls
    BY <1>2, AwaitingFits DEF IndInv, Shape
  <2>2. /\ \A k \in Lanes \ {l} : ledger'[k] = ledger[k]
        /\ \A m \in 1..MaxCalls \ {n} : ledger'[l][m] = ledger[l][m]
    BY <2>1 DEF Writes, LedgerShape
  <2>3. ledger[l][n].live = "landed" =>
          ledger'[l][n].live = "landed" /\ ledger'[l][n].intent = ledger[l][n].intent
    <3>1. CASE ledger' = ledger
      BY <3>1
    <3>3. CASE ledger' = [ledger EXCEPT ![l][n].allowed = TRUE]
      <4>1. ledger'[l][n] = [ledger[l][n] EXCEPT !.allowed = TRUE]
        BY <2>1, <3>3 DEF LedgerShape
      <4> QED
        BY <4>1
    <3>4. CASE ledger' = [ledger EXCEPT ![l][n].memo = "sent"]
      <4>1. ledger'[l][n] = [ledger[l][n] EXCEPT !.memo = "sent"]
        BY <2>1, <3>4 DEF LedgerShape
      <4>2. DOMAIN ledger[l][n] = {"live", "memo", "evm", "intent", "allowed"}
        BY <2>1 DEF LedgerShape
      <4> QED
        BY <4>1, <4>2
    <3>2. CASE call[l].pc \in {"sandbox", "evmSandbox"}
      <4>1. Kinds(l, n) = {}
        BY <2>1, <3>2, NothingSent DEF Admitted
      <4> QED
        BY <4>1 DEF Kinds
    <3> QED
      BY <3>1, <3>2, <3>3, <3>4 DEF Writes
  <2>4. ASSUME NEW k \in Lanes, NEW m \in 1..MaxCalls, ledger[k][m].live = "landed"
        PROVE  ledger'[k][m].live = "landed" /\ ledger'[k][m].intent = ledger[k][m].intent
    <3>1. CASE k = l /\ m = n
      BY <2>3, <2>4, <3>1
    <3>2. CASE ~(k = l /\ m = n)
      <4>1. ledger'[k][m] = ledger[k][m]
        BY <2>2, <3>2
      <4> QED
        BY <2>4, <4>1
    <3> QED
      BY <3>1, <3>2
  <2> QED
    BY <2>2, <2>4 DEF LandedStays
<1> QED
  BY <1>1, <1>2

\* Where a lane goes, seen from its verification.
Elsewhere == {"idle", "memo", "kora", "evmBuild", "evmSandbox", "evmWait"}

Goes(l) ==
  \/ call'[l].pc \in Elsewhere
  \/ call'[l].pc \in {"prerequisites", "snapshot"} /\ call'[l].intent.protocol \in Protocols
  \/ call'[l].pc = "build" /\ call'[l].intent.protocol = "none"
  \/ SnapshotTaken(l)
  \/ BalanceTaken(l)
  \/ /\ call[l].pc = "build" /\ Await(l, "sandbox", call[l].intent)
     /\ ledger' = [ledger EXCEPT ![l][Current(l)].allowed = TRUE]
  \/ Sent(l)
  \/ Confirmed(l) /\ ~IsPlain(l) /\ Await(l, "verify", call[l].intent)
  \/ Verified(l) /\ At(l, "verify") /\ Await(l, "verifyBalance", call[l].intent)

\* A step of a lane, for the others and for the lane itself.
LaneMove(l) ==
  /\ UNCHANGED <<setting, round, holdings>>
  /\ \A k \in Lanes \ {l} : call'[k] = call[k] /\ outcomes'[k] = outcomes[k]
  /\ Writes(l)
  /\ call[l].pc # "idle" \/ ledger' = ledger
  /\ Goes(l)

LEMMA SettleMoves ==
  ASSUME Shape, NEW l \in Lanes, NEW o, Settle(l, o), UNCHANGED <<setting, round, ledger, holdings>>
  PROVE  LaneMove(l)
BY SettleKeeps DEF LaneMove, Writes, Goes, Elsewhere

LEMMA AwaitMoves ==
  ASSUME Shape, NEW l \in Lanes, NEW pc, NEW i, Await(l, pc, i), Writes(l),
         UNCHANGED <<setting, round, holdings>>,
         call[l].pc # "idle" \/ ledger' = ledger,
         \/ pc \in Elsewhere
         \/ pc \in {"prerequisites", "snapshot"} /\ i.protocol \in Protocols
         \/ pc = "build" /\ i.protocol = "none"
  PROVE  LaneMove(l)
<1>1. /\ call'[l].pc = pc /\ call'[l].intent = i
      /\ \A k \in Lanes \ {l} : call'[k] = call[k] /\ outcomes'[k] = outcomes[k]
  BY AwaitKeeps DEF Shape
<1> QED
  BY <1>1 DEF LaneMove, Goes

LEMMA FallBackMoves ==
  ASSUME Shape, NEW l \in Lanes, NEW i, FallBack(l, i),
         UNCHANGED <<setting, round, ledger, holdings>>
  PROVE  LaneMove(l)
<1>1. Await(l, "memo", i) \/ Settle(l, "error")
  BY DEF FallBack
<1>2. Writes(l) /\ "memo" \in Elsewhere
  BY DEF Writes, Elsewhere
<1> QED
  BY <1>1, <1>2, SettleMoves, AwaitMoves

LEMMA NotSentMoves ==
  ASSUME Shape, NEW l \in Lanes, NotSent(l), UNCHANGED <<setting, round, ledger, holdings>>
  PROVE  LaneMove(l)
BY SettleMoves, FallBackMoves DEF NotSent

LEMMA BeginMoves ==
  ASSUME Shape, NEW l \in Lanes,
         \/ Hold(l) \/ execute(l) \/ runFullSuite(l) \/ simulateMarketAction(l)
         \/ executeIntent(l) \/ routeToEvm(l)
  PROVE  LaneMove(l)
<1>1. UNCHANGED <<setting, round, ledger, holdings>> /\ Writes(l)
  BY DEF Hold, execute, runFullSuite, simulateMarketAction, executeIntent, routeToEvm, Writes
<1>2. CASE Hold(l)
  BY <1>1, <1>2, SettleMoves DEF Hold
<1>3. CASE execute(l)
  <2>1. PICK i \in Intents(l) :
          \/ FallBack(l, i) \/ Settle(l, "error")
          \/ /\ Await(l, IF i.protocol = "jupiter" THEN "snapshot" ELSE "prerequisites", i)
             /\ IsPrepared(i)
    BY <1>3, Zenon DEF execute
  <2>2. IsPrepared(i) => i.protocol \in Protocols
    BY DEF IsPrepared, prepareLiveJupiter, prepareLiveRaydiumLp, prepareLiveKamino,
           prepareLiveMarinade, Protocols
  <2>3. CASE FallBack(l, i)
    BY <1>1, <2>3, FallBackMoves
  <2>4. CASE Settle(l, "error")
    BY <1>1, <2>4, SettleMoves
  <2>5. CASE /\ Await(l, IF i.protocol = "jupiter" THEN "snapshot" ELSE "prerequisites", i)
             /\ IsPrepared(i)
    <3>1. PICK pc \in {"prerequisites", "snapshot"} : Await(l, pc, i)
      BY <2>5
    <3> QED
      BY <1>1, <2>2, <2>5, <3>1, AwaitMoves
  <2> QED
    BY <2>1, <2>3, <2>4, <2>5
<1>4. CASE runFullSuite(l)
  <2>1. PICK i \in Intents(l) : FallBack(l, i)
    BY <1>4, Zenon DEF runFullSuite
  <2> QED
    BY <1>1, <2>1, FallBackMoves
<1>5. CASE simulateMarketAction(l)
  <2> DEFINE i == Intent("jupiter", "trade", 1, 50, NoHealth, "sol-usdc")
  <2>1. Settle(l, "none") \/ Await(l, "snapshot", i) \/ FallBack(l, i)
    BY <1>5, Zenon DEF simulateMarketAction
  <2>2. i.protocol \in Protocols
    BY DEF Intent, Protocols
  <2> HIDE DEF i
  <2> QED
    BY <1>1, <2>1, <2>2, SettleMoves, AwaitMoves, FallBackMoves
<1>6. CASE executeIntent(l)
  <2> DEFINE i == Intent("none", RequestOf(l).type, 0, 0, NoHealth, "none")
  <2>1. Await(l, "build", i)
    BY <1>6 DEF executeIntent
  <2>2. i.protocol = "none"
    BY DEF Intent
  <2> HIDE DEF i
  <2> QED
    BY <1>1, <2>1, <2>2, AwaitMoves
<1>7. CASE routeToEvm(l)
  <2>1. \/ \E o : Settle(l, o)
        \/ \E i : Await(l, "evmBuild", i)
    BY <1>7, Zenon DEF routeToEvm
  <2>2. "evmBuild" \in Elsewhere
    BY DEF Elsewhere
  <2> QED
    BY <1>1, <2>1, <2>2, SettleMoves, AwaitMoves
<1> QED
  BY <1>2, <1>3, <1>4, <1>5, <1>6, <1>7

LEMMA LiveMoves ==
  ASSUME Shape, NEW l \in Lanes, IntentOK(l),
         \/ PrerequisitesRead(l) \/ SnapshotTaken(l) \/ BalanceTaken(l) \/ Built(l) \/ SandboxRefuses(l)
         \/ Sent(l) \/ Confirmed(l) \/ Verified(l) \/ LivePathThrows(l)
  PROVE  LaneMove(l)
<1>1. UNCHANGED <<setting, round, holdings>> /\ call[l].pc # "idle"
  BY DEF PrerequisitesRead, SnapshotTaken, BalanceTaken, Built, SandboxRefuses, Sent, Confirmed, Verified,
         LivePathThrows, Rejects, At
<1>2. CASE PrerequisitesRead(l)
  <2>1. ledger' = ledger /\ Writes(l) /\ call[l].intent.protocol \in Protocols
    BY <1>2 DEF PrerequisitesRead, Writes, IntentOK, At, MarketOnly
  <2>2. Await(l, "snapshot", call[l].intent) \/ FallBack(l, call[l].intent)
    BY <1>2 DEF PrerequisitesRead
  <2> QED
    BY <1>1, <2>1, <2>2, AwaitMoves, FallBackMoves
<1>3. CASE SnapshotTaken(l) \/ BalanceTaken(l)
  <2>1. ledger' = ledger /\ outcomes' = outcomes
    BY <1>3 DEF SnapshotTaken, BalanceTaken
  <2>2. \A k \in Lanes \ {l} : call'[k] = call[k]
    BY <1>3 DEF SnapshotTaken, BalanceTaken, Shape, CallShape
  <2> QED
    BY <1>1, <1>3, <2>1, <2>2 DEF LaneMove, Writes, Goes
<1>4. CASE Built(l)
  <2>1. \/ NotSent(l) /\ UNCHANGED ledger
        \/ /\ Await(l, "sandbox", call[l].intent)
           /\ ledger' = [ledger EXCEPT ![l][Current(l)].allowed = TRUE]
    BY <1>4 DEF Built
  <2>2. CASE NotSent(l) /\ UNCHANGED ledger
    BY <1>1, <2>2, NotSentMoves
  <2>3. CASE /\ Await(l, "sandbox", call[l].intent)
             /\ ledger' = [ledger EXCEPT ![l][Current(l)].allowed = TRUE]
    <3>1. call[l].pc = "build"
      BY <1>4 DEF Built, At
    <3>2. \A k \in Lanes \ {l} : call'[k] = call[k] /\ outcomes'[k] = outcomes[k]
      BY <2>3, AwaitKeeps DEF Shape
    <3> QED
      BY <1>1, <2>3, <3>1, <3>2 DEF LaneMove, Writes, Goes
  <2> QED
    BY <2>1, <2>2, <2>3
<1>5. CASE SandboxRefuses(l)
  BY <1>1, <1>5, NotSentMoves DEF SandboxRefuses
<1>6. CASE Sent(l)
  <2>1. \A k \in Lanes \ {l} : call'[k] = call[k] /\ outcomes'[k] = outcomes[k]
    BY <1>6, AwaitKeeps DEF Shape, Sent
  <2>2. Writes(l)
    BY <1>6 DEF Sent, Writes, At
  <2> QED
    BY <1>1, <1>6, <2>1, <2>2 DEF LaneMove, Goes
<1>7. CASE Confirmed(l)
  <2>1. Settle(l, "live") \/ (~IsPlain(l) /\ Await(l, "verify", call[l].intent))
    BY <1>7 DEF Confirmed
  <2>2. ledger' = ledger
    BY <1>7 DEF Confirmed
  <2>3. CASE Settle(l, "live")
    BY <1>1, <2>2, <2>3, SettleMoves
  <2>4. CASE ~IsPlain(l) /\ Await(l, "verify", call[l].intent)
    <3>1. \A k \in Lanes \ {l} : call'[k] = call[k] /\ outcomes'[k] = outcomes[k]
      BY <2>4, AwaitKeeps DEF Shape
    <3> QED
      BY <1>1, <1>7, <2>2, <2>4, <3>1 DEF LaneMove, Writes, Goes
  <2> QED
    BY <2>1, <2>3, <2>4
<1>8. CASE Verified(l)
  <2>1. \/ \E o : Settle(l, o)
        \/ At(l, "verify") /\ Await(l, "verifyBalance", call[l].intent)
    BY <1>8, Zenon DEF Verified
  <2>2. ledger' = ledger
    BY <1>8 DEF Verified
  <2>3. CASE \E o : Settle(l, o)
    BY <1>1, <2>2, <2>3, SettleMoves
  <2>4. CASE At(l, "verify") /\ Await(l, "verifyBalance", call[l].intent)
    <3>1. \A k \in Lanes \ {l} : call'[k] = call[k] /\ outcomes'[k] = outcomes[k]
      BY <2>4, AwaitKeeps DEF Shape
    <3> QED
      BY <1>1, <1>8, <2>2, <2>4, <3>1 DEF LaneMove, Writes, Goes
  <2> QED
    BY <2>1, <2>3, <2>4
<1>9. CASE LivePathThrows(l)
  BY <1>9, SettleMoves DEF LivePathThrows, Rejects
<1> QED
  BY <1>2, <1>3, <1>4, <1>5, <1>6, <1>7, <1>8, <1>9

LEMMA OtherMoves ==
  ASSUME Shape, NEW l \in Lanes,
         \/ MemoBuilt(l) \/ MemoThrows(l) \/ KoraAnswered(l) \/ KoraFailed(l)
         \/ EvmBuilt(l) \/ EvmBuildThrows(l) \/ EvmSent(l) \/ EvmMined(l) \/ EvmBlocked(l)
  PROVE  LaneMove(l)
<1>1. UNCHANGED <<setting, round, holdings>> /\ call[l].pc # "idle"
  BY DEF MemoBuilt, MemoThrows, KoraAnswered, KoraFailed, EvmBuilt, EvmBuildThrows, EvmSent,
         EvmMined, EvmBlocked, Rejects, At
<1>2. CASE MemoBuilt(l)
  <2>1. CASE \E o : Settle(l, o) /\ UNCHANGED ledger
    BY <1>1, <2>1, SettleMoves
  <2>2. CASE /\ Await(l, "kora", call[l].intent)
             /\ ledger' = [ledger EXCEPT ![l][Current(l)].memo = "sent"]
    <3>1. Writes(l) /\ "kora" \in Elsewhere
      BY <1>2, <2>2 DEF MemoBuilt, Writes, At, Elsewhere
    <3> QED
      BY <1>1, <2>2, <3>1, AwaitMoves
  <2>3. CASE /\ call' = [call EXCEPT ![l].pc = "kora", ![l].fresh = FALSE]
             /\ UNCHANGED <<outcomes, ledger>>
    <3>1. call'[l].pc = "kora" /\ \A k \in Lanes \ {l} : call'[k] = call[k]
      BY <2>3 DEF Shape, CallShape
    <3> QED
      BY <1>1, <2>3, <3>1 DEF LaneMove, Writes, Goes, Elsewhere
  <2> QED
    BY <1>2, <2>1, <2>2, <2>3, Zenon DEF MemoBuilt
<1>3. CASE MemoThrows(l) \/ KoraAnswered(l) \/ KoraFailed(l) \/ EvmBuildThrows(l)
           \/ EvmMined(l) \/ EvmBlocked(l)
  <2>1. ledger' = ledger /\ \E o : Settle(l, o)
    BY <1>3, Zenon DEF MemoThrows, KoraAnswered, KoraFailed, EvmBuildThrows, EvmMined,
                       EvmBlocked, Rejects
  <2> QED
    BY <1>1, <2>1, SettleMoves
<1>4. CASE EvmBuilt(l)
  <2>1. \/ Settle(l, "none") /\ UNCHANGED ledger
        \/ Await(l, "evmSandbox", call[l].intent) /\ Writes(l)
    BY <1>4 DEF EvmBuilt, Writes
  <2>2. "evmSandbox" \in Elsewhere
    BY DEF Elsewhere
  <2> QED
    BY <1>1, <2>1, <2>2, SettleMoves, AwaitMoves
<1>5. CASE EvmSent(l)
  <2>1. Await(l, "evmWait", call[l].intent) /\ Writes(l)
    BY <1>5 DEF EvmSent, Writes, At
  <2>2. "evmWait" \in Elsewhere
    BY DEF Elsewhere
  <2> QED
    BY <1>1, <2>1, <2>2, AwaitMoves
<1> QED
  BY <1>2, <1>3, <1>4, <1>5

\* What another call has spent, or brought, it has for ever.
LEMMA SpentStays ==
  ASSUME NEW l \in Lanes, NEW a, LandedStays, setting' = setting,
         outcomes'[l] = outcomes[l]
  PROVE  /\ SpentByAnother(l, a) => SpentByAnother(l, a)'
         /\ BroughtByAnother(l, a) => BroughtByAnother(l, a)'
<1>1. ASSUME NEW k \in Lanes, NEW m \in 1..MaxCalls, IsOther(l, k, m)
      PROVE  IsOther(l, k, m)' /\ ledger'[k][m].intent = ledger[k][m].intent
  BY <1>1 DEF IsOther, LandedStays, Wallet, Current
<1>2. SpentByAnother(l, a) => SpentByAnother(l, a)'
  BY <1>1 DEF SpentByAnother
<1>3. BroughtByAnother(l, a) => BroughtByAnother(l, a)'
  BY <1>1 DEF BroughtByAnother
<1> QED
  BY <1>2, <1>3

\* The bounds of an asset stay where balances and snapshot do.
LEMMA GrownStays ==
  ASSUME NEW l \in Lanes, NEW a, GrownBy(l, a), holdings' = holdings,
         Wallet(l)' = Wallet(l), call'[l].before = call[l].before, Bought(l)' = Bought(l),
         SpentByAnother(l, a) => SpentByAnother(l, a)',
         BroughtByAnother(l, a) => BroughtByAnother(l, a)'
  PROVE  GrownBy(l, a)'
<1> DEFINE h == holdings[Wallet(l)][a]
           e == call[l].before[a] + Bought(l)
<1>1. h' = h /\ e' = e
  OBVIOUS
<1>2. h >= e \/ SpentByAnother(l, a)
  BY DEF GrownBy
<1>3. h <= e \/ BroughtByAnother(l, a)
  BY DEF GrownBy
<1> HIDE DEF h, e
<1>4. (h >= e)' \/ SpentByAnother(l, a)'
  BY <1>1, <1>2
<1>5. (h <= e)' \/ BroughtByAnother(l, a)'
  BY <1>1, <1>3
<1> USE DEF h, e
<1> QED
  BY <1>4, <1>5 DEF GrownBy

\* A lane whose call and balances stay keeps what its verification rests on.
LEMMA GrowthStays ==
  ASSUME NEW l \in Lanes, GrowthOK(l), IntentOK(l), LandedStays,
         UNCHANGED <<setting, holdings>>, outcomes'[l] = outcomes[l],
         call'[l] = call[l], ledger'[l] = ledger[l]
  PROVE  GrowthOK(l)' /\ IntentOK(l)'
<1>1. Wallet(l)' = Wallet(l) /\ Current(l)' = Current(l) /\ Bought(l)' = Bought(l)
      /\ IsPlain(l)' = IsPlain(l)
  BY DEF Wallet, Current, Bought, IsPlain
<1>2. \A a : /\ SpentByAnother(l, a) => SpentByAnother(l, a)'
             /\ BroughtByAnother(l, a) => BroughtByAnother(l, a)'
  BY SpentStays
<1>3. IntentOK(l)'
  BY DEF IntentOK
<1>4. ASSUME call[l].pc \in LivePath, ~IsPlain(l), NEW a \in PlanOf(call[l].intent).gains
      PROVE  GrownBy(l, a)'
  <2>1. GrownBy(l, a)
    BY <1>4 DEF GrowthOK
  <2>2. /\ SpentByAnother(l, a) => SpentByAnother(l, a)'
        /\ BroughtByAnother(l, a) => BroughtByAnother(l, a)'
    BY SpentStays
  <2>3. holdings' = holdings /\ call'[l].before = call[l].before
    OBVIOUS
  <2>4. Wallet(l)' = Wallet(l) /\ Bought(l)' = Bought(l)
    BY <1>1
  <2> QED
    BY <2>1, <2>2, <2>3, <2>4, GrownStays
<1>5. GrowthOK(l)'
  BY <1>1, <1>4, Zenon DEF GrowthOK
<1> QED
  BY <1>3, <1>5

\* What a plan brings in it does not spend.
LEMMA GainsAreAssets ==
  ASSUME NEW i, i.protocol \in Protocols
  PROVE  /\ PlanOf(i).gains \subseteq Assets
         /\ PlanOf(i).gains \intersect PlanOf(i).costs = {}
<1>1. CASE i.protocol = "jupiter"
  <2>1. PlanOf(i) = JupiterPlan(i)
    BY <1>1 DEF PlanOf
  <2> QED
    BY <2>1 DEF JupiterPlan, Plan, Assets
<1>2. CASE i.protocol = "raydium"
  <2>1. PlanOf(i) = RaydiumPlan
    BY <1>2 DEF PlanOf
  <2> QED
    BY <2>1 DEF RaydiumPlan, Plan, Assets
<1>3. CASE i.protocol = "kamino"
  <2>1. PlanOf(i) = KaminoPlan(i)
    BY <1>3 DEF PlanOf
  <2> QED
    BY <2>1 DEF KaminoPlan, Plan, Assets
<1>4. CASE i.protocol = "marinade"
  <2>1. PlanOf(i) = MarinadePlan
    BY <1>4 DEF PlanOf
  <2> QED
    BY <2>1 DEF MarinadePlan, Plan, Assets
<1> QED
  BY <1>1, <1>2, <1>3, <1>4 DEF Protocols

LEMMA WalletIsOne ==
  ASSUME NEW l \in Lanes
  PROVE  Wallet(l) \in Wallets
BY DEF Wallet, Wallets

\* The lane that moves.
LEMMA GrowthGoes ==
  ASSUME IndInv, GrowthInv, NEW l \in Lanes, LaneMove(l), LandedStays
  PROVE  GrowthOK(l)' /\ IntentOK(l)'
<1> DEFINE n == Current(l)
           i == call[l].intent
           t == ledger[l][n]
<1>1. /\ Shape /\ CallShape /\ LedgerShape /\ IntentOK(l) /\ GrowthOK(l)
      /\ UNCHANGED <<setting, holdings>>
      /\ holdings \in [Wallets -> [Assets -> Nat]] /\ Wallet(l) \in Wallets
  BY WalletIsOne DEF IndInv, Shape, GrowthInv, LaneMove
<1>2. CASE \/ call'[l].pc \in Elsewhere
           \/ call'[l].pc \in {"prerequisites", "snapshot"} /\ call'[l].intent.protocol \in Protocols
           \/ call'[l].pc = "build" /\ call'[l].intent.protocol = "none"
  BY <1>2 DEF GrowthOK, IntentOK, Elsewhere, LivePath, IsPlain, MarketOnly
<1>3. CASE SnapshotTaken(l)
  <2>1. /\ call[l].pc = "snapshot" /\ outcomes' = outcomes /\ ledger' = ledger
        /\ call'[l].pc \in {"balance", "build"} /\ call'[l].intent = i
        /\ call'[l].before = holdings[Wallet(l)]
    BY <1>1, <1>3 DEF SnapshotTaken, CallShape, At
  <2>2. i.protocol \in Protocols /\ n \in 1..MaxCalls /\ call[l].pc \in Unsent
    BY <1>1, <2>1, AwaitingFits DEF IntentOK, IndInv, Unsent, MarketOnly
  <2>3. Kinds(l, n) = {}
    BY <2>2, NothingSent
  <2>4. t.live = "absent" /\ Current(l)' = n /\ ledger'[l][n] = t
    BY <2>1, <2>3 DEF Kinds, Current
  <2>5. holdings[Wallet(l)] \in [Assets -> Nat] /\ Wallet(l)' = Wallet(l)
    BY <1>1 DEF Wallet
  <2>6. Bought(l)' = 0
    BY <2>4 DEF Bought
  <2>7. \A a \in PlanOf(i).gains : /\ holdings[Wallet(l)][a] >= holdings[Wallet(l)][a] + 0
                                   /\ holdings[Wallet(l)][a] <= holdings[Wallet(l)][a] + 0
    <3>1. PlanOf(i).gains \subseteq Assets
      BY <2>2, GainsAreAssets
    <3> QED
      BY <2>5, <3>1
  <2>8. IntentOK(l)'
    BY <2>1, <2>2 DEF IntentOK
  <2>9. GrowthOK(l)'
    BY <1>1, <2>1, <2>4, <2>5, <2>6, <2>7 DEF GrowthOK, GrownBy
  <2> QED
    BY <2>8, <2>9
<1>4. ASSUME NEW pc \in LivePath, call[l].pc \in LivePath,
             Await(l, pc, i),
             pc \in MarketOnly => ~IsPlain(l),
             (ledger'[l][n].live = "landed") <=> (t.live = "landed"),
             \/ ledger'[l][n].live = t.live /\ ledger'[l][n].intent = t.intent
             \/ ledger'[l][n].intent = i
      PROVE  GrowthOK(l)' /\ IntentOK(l)'
  <2>1. /\ call'[l].pc = pc /\ call'[l].intent = i /\ call'[l].before = call[l].before
        /\ outcomes' = outcomes
    BY <1>1, <1>4, AwaitKeeps
  <2>2. Current(l)' = n /\ Wallet(l)' = Wallet(l) /\ IsPlain(l)' = IsPlain(l)
    BY <1>1, <2>1 DEF Current, Wallet, IsPlain
  <2>3. Bought(l)' = Bought(l)
    BY <1>4, <2>2 DEF Bought
  <2>4. \A a : /\ SpentByAnother(l, a) => SpentByAnother(l, a)'
               /\ BroughtByAnother(l, a) => BroughtByAnother(l, a)'
    BY <1>1, <2>1, SpentStays
  <2>5. ledger'[l][n].live # "absent" /\ ~IsPlain(l) => ledger'[l][n].intent = i
    BY <1>1, <1>4 DEF GrowthOK
  <2>6. IntentOK(l)'
    BY <1>1, <1>4, <2>1 DEF IntentOK, IsPlain, LivePath, MarketOnly
  <2>7. ASSUME ~IsPlain(l), NEW a \in PlanOf(i).gains
        PROVE  GrownBy(l, a)'
    <3>1. GrownBy(l, a)
      BY <1>1, <1>4, <2>7 DEF GrowthOK
    <3>2. /\ SpentByAnother(l, a) => SpentByAnother(l, a)'
          /\ BroughtByAnother(l, a) => BroughtByAnother(l, a)'
      BY <1>1, <2>1, SpentStays
    <3>3. holdings' = holdings /\ call'[l].before = call[l].before
      BY <1>1, <2>1
    <3>4. Wallet(l)' = Wallet(l) /\ Bought(l)' = Bought(l)
      BY <2>2, <2>3
    <3> QED
      BY <3>1, <3>2, <3>3, <3>4, GrownStays
  <2>8. GrowthOK(l)'
    <3>1. ~IsPlain(l) => call[l].before \in [Assets -> Nat]
      BY <1>1, <1>4 DEF GrowthOK
    <3> QED
      BY <2>1, <2>2, <2>5, <2>7, <3>1, Zenon DEF GrowthOK
  <2> QED
    BY <2>6, <2>8
<1>5. CASE /\ call[l].pc = "build" /\ Await(l, "sandbox", i)
           /\ ledger' = [ledger EXCEPT ![l][n].allowed = TRUE]
  <2>1. n \in 1..MaxCalls
    BY <1>1, <1>5, AwaitingFits DEF IndInv
  <2>2. ledger'[l][n].live = t.live /\ ledger'[l][n].intent = t.intent
    BY <1>1, <1>5, <2>1 DEF LedgerShape
  <2> QED
    BY <1>4, <1>5, <2>2 DEF LivePath, MarketOnly
<1>6. CASE Sent(l)
  <2>1. call[l].pc = "sandbox" /\ Await(l, "confirm", i)
        /\ ledger' = [ledger EXCEPT ![l][n].live = "sent", ![l][n].intent = i]
    BY <1>6 DEF Sent, At
  <2>2. n \in 1..MaxCalls /\ call[l].pc \in Admitted
    BY <1>1, <2>1, AwaitingFits DEF IndInv, Admitted
  <2>3. t.live = "absent"
    BY <2>2, NothingSent DEF Kinds
  <2>4. ledger'[l][n].live = "sent" /\ ledger'[l][n].intent = i
    <3>1. ledger'[l][n] = [t EXCEPT !.live = "sent", !.intent = i]
      BY <1>1, <2>1, <2>2 DEF LedgerShape
    <3>2. DOMAIN t = {"live", "memo", "evm", "intent", "allowed"}
      BY <1>1, <2>2 DEF LedgerShape
    <3> QED
      BY <3>1, <3>2
  <2>5. "confirm" \in LivePath /\ call[l].pc \in LivePath /\ "confirm" \notin MarketOnly
    BY <2>1 DEF LivePath, MarketOnly
  <2>6. Await(l, "confirm", i)
    BY <2>1
  <2>7. ledger'[l][n].live = "landed" <=> t.live = "landed"
    BY <2>3, <2>4
  <2> HIDE DEF n, i, t
  <2> QED
    BY <1>4, <2>4, <2>5, <2>6, <2>7
<1>7. CASE Confirmed(l) /\ ~IsPlain(l) /\ Await(l, "verify", i)
  <2>1. call[l].pc = "confirm" /\ ledger' = ledger
    BY <1>7 DEF Confirmed, At
  <2> QED
    BY <1>4, <1>7, <2>1 DEF LivePath
<1>8. CASE Verified(l) /\ At(l, "verify") /\ Await(l, "verifyBalance", i)
  <2>1. call[l].pc = "verify" /\ ledger' = ledger
    BY <1>8 DEF Verified, At
  <2>2. ~IsPlain(l)
    BY <1>1, <2>1 DEF IntentOK, MarketOnly, IsPlain, Protocols
  <2> QED
    BY <1>4, <1>8, <2>1, <2>2 DEF LivePath
<1>9. CASE BalanceTaken(l)
  <2> DEFINE b == call[l].before
             h == holdings[Wallet(l)]
  <2>1. /\ call[l].pc = "balance" /\ outcomes' = outcomes /\ ledger' = ledger
        /\ call'[l].pc = "build" /\ call'[l].intent = i
        /\ call'[l].before = [b EXCEPT !["usdc"] = h["usdc"]]
    BY <1>1, <1>9 DEF BalanceTaken, CallShape, At
  <2>2. i.protocol \in Protocols /\ n \in 1..MaxCalls /\ call[l].pc \in Unsent
    BY <1>1, <2>1, AwaitingFits DEF IntentOK, IndInv, Unsent, MarketOnly
  <2>3. Kinds(l, n) = {}
    BY <2>2, NothingSent
  <2>4. t.live = "absent" /\ Current(l)' = n /\ ledger'[l][n] = t /\ Wallet(l)' = Wallet(l)
    BY <1>1, <2>1, <2>3 DEF Kinds, Current, Wallet
  <2>5. Bought(l) = 0 /\ Bought(l)' = 0
    BY <2>4 DEF Bought
  <2>6. /\ b \in [Assets -> Nat] /\ h \in [Assets -> Nat]
        /\ \A a \in PlanOf(i).gains : GrownBy(l, a)
    BY <1>1, <2>1, <2>2 DEF GrowthOK, LivePath, IsPlain, Protocols
  <2>7. call'[l].before \in [Assets -> Nat]
    BY <2>1, <2>6 DEF Assets
  <2>8. ASSUME NEW a \in PlanOf(i).gains PROVE GrownBy(l, a)'
    <3>1. a \in Assets /\ h[a] \in Nat /\ b[a] \in Nat
      BY <2>2, <2>6, <2>8, GainsAreAssets
    <3>2. CASE a = "usdc"
      <4>1. call'[l].before[a] = h[a]
        BY <2>1, <2>6, <3>1, <3>2
      <4>2. holdings'[Wallet(l)'][a] = h[a]
        BY <1>1, <2>4
      <4> QED
        BY <2>5, <3>1, <4>1, <4>2 DEF GrownBy
    <3>3. CASE a # "usdc"
      <4>1. call'[l].before[a] = b[a]
        BY <2>1, <2>6, <3>1, <3>3
      <4>2. holdings'[Wallet(l)'][a] = h[a]
        BY <1>1, <2>4
      <4>3. /\ SpentByAnother(l, a) => SpentByAnother(l, a)'
            /\ BroughtByAnother(l, a) => BroughtByAnother(l, a)'
        BY <1>1, <2>1, SpentStays
      <4>4. /\ h[a] >= b[a] + 0 \/ SpentByAnother(l, a)
            /\ h[a] <= b[a] + 0 \/ BroughtByAnother(l, a)
        BY <2>5, <2>6, <2>8 DEF GrownBy
      <4> QED
        BY <2>5, <4>1, <4>2, <4>3, <4>4 DEF GrownBy
    <3> QED
      BY <3>2, <3>3
  <2>9. IntentOK(l)'
    BY <2>1, <2>2 DEF IntentOK
  <2>10. GrowthOK(l)'
    BY <1>1, <2>1, <2>4, <2>7, <2>8 DEF GrowthOK
  <2> QED
    BY <2>9, <2>10
<1> QED
  BY <1>2, <1>3, <1>5, <1>6, <1>7, <1>8, <1>9 DEF LaneMove, Goes

\* A transaction that lands moves the balances: if it spends, or brings, what
\* another call waits to see grown, that call may name it.
LEMMA GrowthLands ==
  ASSUME IndInv, GrowthInv, NEW l \in Lanes, NEW n \in 1..MaxCalls, NEW kind \in Networks,
         Land(l, n, kind)
  PROVE  GrowthInv'
<1> DEFINE w == Wallet(l)
           plan == IF kind = "live" THEN PlanOf(ledger[l][n].intent) ELSE Plan(<<>>, NoPatch, {}, {})
           moved == [a \in Assets |-> holdings[w][a] + (IF a \in plan.gains THEN 1 ELSE 0)
                                                     - (IF a \in plan.costs THEN 1 ELSE 0)]
<1>1. /\ Shape /\ LedgerShape /\ UNCHANGED <<setting, round, call, outcomes>>
      /\ ledger[l][n][kind] = "sent"
      /\ holdings \in [Wallets -> [Assets -> Nat]] /\ w \in Wallets
  BY WalletIsOne DEF IndInv, Shape, GrowthInv, Land
<1>2. PICK s \in {"landed", "failed"} :
        /\ ledger' = [ledger EXCEPT ![l][n][kind] = s]
        /\ \/ /\ s = "landed" /\ \A a \in Assets : moved[a] \in 0..MaxHeld
              /\ holdings' = [holdings EXCEPT ![w] = moved]
           \/ s = "failed" /\ holdings' = holdings
  BY DEF Land
<1>3. /\ ledger'[l][n] = [ledger[l][n] EXCEPT ![kind] = s]
      /\ DOMAIN ledger[l][n] = {"live", "memo", "evm", "intent", "allowed"}
      /\ \A k \in Lanes, m \in 1..MaxCalls : ~(k = l /\ m = n) => ledger'[k][m] = ledger[k][m]
  <2>1. \A k \in Lanes \ {l} : ledger'[k] = ledger[k]
    BY <1>1, <1>2 DEF LedgerShape
  <2>2. \A m \in 1..MaxCalls \ {n} : ledger'[l][m] = ledger[l][m]
    BY <1>1, <1>2 DEF LedgerShape
  <2>3. ledger'[l][n] = [ledger[l][n] EXCEPT ![kind] = s]
    BY <1>1, <1>2 DEF LedgerShape
  <2>4. DOMAIN ledger[l][n] = {"live", "memo", "evm", "intent", "allowed"}
    BY <1>1 DEF LedgerShape
  <2>5. ASSUME NEW k \in Lanes, NEW m \in 1..MaxCalls, ~(k = l /\ m = n)
        PROVE  ledger'[k][m] = ledger[k][m]
    BY <2>1, <2>2, <2>5
  <2> QED
    BY <2>3, <2>4, <2>5
<1>4. /\ ledger'[l][n].intent = ledger[l][n].intent
      /\ ledger'[l][n][kind] = s
      /\ \A c \in Networks \ {kind} : ledger'[l][n][c] = ledger[l][n][c]
  BY <1>3 DEF Networks
<1>5. LandedStays
  <2>1. ASSUME NEW k \in Lanes, NEW m \in 1..MaxCalls, ledger[k][m].live = "landed"
        PROVE  ledger'[k][m].live = "landed" /\ ledger'[k][m].intent = ledger[k][m].intent
    <3>1. CASE k = l /\ m = n
      <4>1. kind # "live"
        BY <1>1, <2>1, <3>1
      <4> QED
        BY <1>4, <2>1, <3>1, <4>1 DEF Networks
    <3>2. CASE ~(k = l /\ m = n)
      <4>1. ledger'[k][m] = ledger[k][m]
        BY <1>3, <3>2
      <4> QED
        BY <2>1, <4>1
    <3> QED
      BY <3>1, <3>2
  <2> QED
    BY <2>1 DEF LandedStays
<1>6. holdings' \in [Wallets -> [Assets -> Nat]]
  <2>1. CASE s = "landed"
    <3>1. moved \in [Assets -> Nat]
      <4>1. \A a \in Assets : moved[a] \in Nat
        <5>1. ASSUME NEW a \in Assets PROVE moved[a] \in Nat
          <6>1. moved[a] \in 0..MaxHeld
            BY <1>2, <2>1
          <6> HIDE DEF moved
          <6> QED
            BY <6>1
        <5> QED
          BY <5>1
      <4>2. DOMAIN moved = Assets /\ moved = [a \in Assets |-> moved[a]]
        OBVIOUS
      <4> HIDE DEF moved
      <4> QED
        BY <4>1, <4>2
    <3>2. holdings' = [holdings EXCEPT ![w] = moved]
      BY <1>2, <2>1
    <3> HIDE DEF moved
    <3> QED
      BY <1>1, <3>1, <3>2
  <2>2. CASE s = "failed"
    BY <1>1, <1>2, <2>2
  <2> QED
    BY <2>1, <2>2
<1>7. ASSUME NEW k \in Lanes PROVE IntentOK(k)' /\ GrowthOK(k)'
  <2> DEFINE c == Current(k)
             i == call[k].intent
  <2>1. /\ IntentOK(k) /\ GrowthOK(k)
        /\ Current(k)' = c /\ Wallet(k)' = Wallet(k) /\ IsPlain(k)' = IsPlain(k)
        /\ Wallet(k) \in Wallets
    BY <1>1, WalletIsOne DEF GrowthInv, Current, Wallet, IsPlain
  <2>2. IntentOK(k)'
    BY <1>1, <2>1 DEF IntentOK
  <2>3. SUFFICES ASSUME call[k].pc \in LivePath, ~IsPlain(k) PROVE GrowthOK(k)'
    BY <1>1, <2>1, <2>2 DEF GrowthOK
  <2>4. /\ c \in 1..MaxCalls /\ i.protocol \in Protocols
        /\ call[k].before \in [Assets -> Nat]
        /\ ledger[k][c].live # "absent" => ledger[k][c].intent = i
        /\ \A a \in PlanOf(i).gains :
             /\ holdings[Wallet(k)][a] >= call[k].before[a] + Bought(k) \/ SpentByAnother(k, a)
             /\ holdings[Wallet(k)][a] <= call[k].before[a] + Bought(k) \/ BroughtByAnother(k, a)
    BY <1>1, <2>1, <2>3, AwaitingFits DEF GrowthOK, GrownBy, IntentOK, IsPlain, LivePath, IndInv
  <2>5. ledger'[k][c].live # "absent" => ledger'[k][c].intent = i
    <3>1. CASE k = l /\ c = n
      <4>1. ledger'[l][n].live # "absent" => ledger[l][n].live # "absent"
        BY <1>1, <1>4 DEF Networks
      <4> QED
        BY <1>4, <2>4, <3>1, <4>1
    <3>2. CASE ~(k = l /\ c = n)
      BY <1>3, <2>4, <3>2
    <3> QED
      BY <3>1, <3>2
  <2>6. ASSUME NEW a \in PlanOf(i).gains
        PROVE  /\ holdings'[Wallet(k)][a] >= call[k].before[a] + Bought(k)' \/ SpentByAnother(k, a)'
               /\ holdings'[Wallet(k)][a] <= call[k].before[a] + Bought(k)' \/ BroughtByAnother(k, a)'
    <3>1. a \in Assets /\ call[k].before[a] \in Nat /\ holdings[Wallet(k)][a] \in Nat
      BY <1>1, <2>1, <2>4, GainsAreAssets
    <3>2. /\ SpentByAnother(k, a) => SpentByAnother(k, a)'
          /\ BroughtByAnother(k, a) => BroughtByAnother(k, a)'
      BY <1>1, <1>5, SpentStays
    <3>3. Bought(k) \in {0, 1} /\ Bought(k)' \in {0, 1}
      BY DEF Bought
    <3>4. CASE s = "failed"
      <4>1. holdings' = holdings
        BY <1>2, <3>4
      <4>2. Bought(k)' = Bought(k)
        <5>1. CASE k = l /\ c = n
          <6>1. ledger'[l][n].live = "landed" <=> ledger[l][n].live = "landed"
            BY <1>1, <1>4, <3>4 DEF Networks
          <6> QED
            BY <2>1, <5>1, <6>1 DEF Bought
        <5>2. CASE ~(k = l /\ c = n)
          BY <1>3, <2>1, <2>4, <5>2 DEF Bought
        <5> QED
          BY <5>1, <5>2
      <4> QED
        BY <2>4, <3>2, <4>1, <4>2
    <3>5. CASE s = "landed" /\ k = l /\ c = n /\ kind = "live"
      <4>1. plan = PlanOf(i)
        BY <1>1, <2>4, <3>5
      <4>2. a \in plan.gains /\ a \notin plan.costs
        BY <2>4, <4>1, GainsAreAssets
      <4>3. holdings' = [holdings EXCEPT ![w] = moved] /\ Wallet(k) = w
        BY <1>2, <3>5
      <4>4. moved[a] = holdings[w][a] + 1 - 0
        BY <3>1, <4>2
      <4>5. holdings'[w][a] = holdings[w][a] + 1 - 0
        <5> HIDE DEF moved
        <5> QED
          BY <1>1, <4>3, <4>4
      <4>6. Bought(k) = 0 /\ Bought(k)' = 1
        <5>1. ledger[k][c].live = "sent" /\ ledger'[k][c].live = "landed"
          BY <1>1, <1>4, <3>5
        <5> QED
          BY <2>1, <5>1 DEF Bought
      <4>7. holdings'[Wallet(k)][a] = holdings[Wallet(k)][a] + 1
        BY <3>1, <4>3, <4>5
      <4> QED
        BY <2>4, <3>1, <3>2, <4>6, <4>7
    <3>6. CASE s = "landed" /\ ~(k = l /\ c = n /\ kind = "live")
      <4>1. Bought(k)' = Bought(k)
        <5>1. CASE k = l /\ c = n
          <6>1. ledger'[l][n].live = ledger[l][n].live
            BY <1>4, <3>6, <5>1 DEF Networks
          <6> QED
            BY <2>1, <5>1, <6>1 DEF Bought
        <5>2. CASE ~(k = l /\ c = n)
          BY <1>3, <2>1, <2>4, <5>2 DEF Bought
        <5> QED
          BY <5>1, <5>2
      <4>2. holdings' = [holdings EXCEPT ![w] = moved]
        BY <1>2, <3>6
      <4>3. CASE Wallet(k) # w
        <5>1. holdings'[Wallet(k)] = holdings[Wallet(k)]
          <6> HIDE DEF moved
          <6> QED
            BY <1>1, <2>1, <4>2, <4>3
        <5> QED
          BY <2>4, <3>2, <4>1, <5>1
      <4>4. CASE Wallet(k) = w
        <5>1. PICK g \in {0, 1}, d \in {0, 1} :
                /\ g = 1 => a \in plan.gains
                /\ d = 1 => a \in plan.costs
                /\ moved[a] = holdings[w][a] + g - d
          BY <3>1
        <5>2. holdings'[w][a] = moved[a]
          <6> HIDE DEF moved
          <6> QED
            BY <1>1, <3>1, <4>2
        <5>3. ASSUME a \in plan.gains \/ a \in plan.costs
              PROVE  /\ IsOther(k, l, n)' /\ kind = "live"
                     /\ PlanOf(ledger'[l][n].intent) = plan
          <6>1. kind = "live" /\ plan = PlanOf(ledger[l][n].intent)
            BY <5>3 DEF Plan
          <6>2. <<l, n>> # <<k, c>> /\ ledger'[l][n].live = "landed"
            BY <1>4, <3>6, <6>1
          <6>3. ledger'[l][n].intent = ledger[l][n].intent /\ Wallet(l)' = Wallet(k)'
            BY <1>1, <1>4, <4>4, <6>1 DEF Wallet
          <6> QED
            BY <2>1, <6>1, <6>2, <6>3 DEF IsOther
        <5>4. d = 1 => SpentByAnother(k, a)'
          BY <5>1, <5>3 DEF SpentByAnother
        <5>5. g = 1 => BroughtByAnother(k, a)'
          BY <5>1, <5>3 DEF BroughtByAnother
        <5>6. holdings'[Wallet(k)][a] = holdings[Wallet(k)][a] + g - d
          BY <4>4, <5>1, <5>2
        <5> HIDE DEF moved, plan
        <5> QED
          BY <2>4, <3>1, <3>2, <3>3, <4>1, <5>4, <5>5, <5>6
      <4> QED
        BY <4>3, <4>4
    <3> QED
      BY <1>2, <3>4, <3>5, <3>6
  <2>7. GrowthOK(k)'
    BY <1>1, <2>1, <2>4, <2>5, <2>6 DEF GrowthOK, GrownBy
  <2> QED
    BY <2>2, <2>7
<1> QED
  BY <1>6, <1>7 DEF GrowthInv, Wallets

LEMMA InitGrowth == Init => GrowthInv
<1> SUFFICES ASSUME Init PROVE GrowthInv
  OBVIOUS
<1>1. holdings \in [Wallets -> [Assets -> Nat]]
  BY DEF Init
<1>2. \A l \in Lanes : call[l].pc = "idle"
  BY DEF Init, Idle
<1> QED
  BY <1>1, <1>2 DEF GrowthInv, IntentOK, GrowthOK, LivePath, MarketOnly

LEMMA NextGrowth ==
  ASSUME IndInv, GrowthInv, [Next]_vars
  PROVE  GrowthInv'
<1>1. CASE NextRound \/ UNCHANGED vars
  <2>1. UNCHANGED <<setting, call, outcomes, ledger, holdings>>
    BY <1>1 DEF NextRound, vars
  <2>2. LandedStays
    BY <2>1 DEF LandedStays
  <2> QED
    BY <2>1, <2>2, GrowthStays DEF GrowthInv, Wallets
<1>2. ASSUME NEW l \in Lanes, Lane(l) PROVE GrowthInv'
  <2>1. Shape /\ IntentOK(l)
    BY DEF IndInv, GrowthInv
  <2>2. LaneMove(l)
    BY <1>2, <2>1, BeginMoves, LiveMoves, OtherMoves DEF Lane
  <2>3. LandedStays /\ \A k \in Lanes \ {l} : ledger'[k] = ledger[k]
    BY <2>2, WritesKeep DEF LaneMove
  <2>4. GrowthOK(l)' /\ IntentOK(l)'
    BY <2>2, <2>3, GrowthGoes
  <2>5. ASSUME NEW k \in Lanes \ {l} PROVE GrowthOK(k)' /\ IntentOK(k)'
    <3>1. GrowthOK(k) /\ IntentOK(k)
      BY DEF GrowthInv
    <3> QED
      BY <2>2, <2>3, <3>1, GrowthStays DEF LaneMove
  <2>6. holdings' = holdings
    BY <2>2 DEF LaneMove
  <2> QED
    BY <2>4, <2>5, <2>6 DEF GrowthInv, Wallets
<1>3. ASSUME NEW l \in Lanes, NEW n \in 1..MaxCalls, NEW kind \in Networks, Land(l, n, kind)
      PROVE  GrowthInv'
  BY <1>3, GrowthLands
<1> QED
  BY <1>1, <1>2, <1>3 DEF Next, Networks

\* What a verification compares is the snapshot with what this call and the
\* other calls of its wallet have moved, in every reachable state.
THEOREM GrowthCorrect == Spec => []GrowthInv
BY IndCorrect, InitGrowth, NextGrowth, PTL DEF Spec

\* PostTransactionVerifier fails a transaction that landed only if another landed
\* call of the wallet spent an asset it looks at, and passes one that failed only if
\* other landed calls of the wallet brought in all of them.
THEOREM WrongVerificationHasCauseHolds == Spec => []WrongVerificationHasCause
<1>1. IndInv /\ GrowthInv => WrongVerificationHasCause
  <2> SUFFICES ASSUME IndInv, GrowthInv, NEW l \in Lanes, call[l].pc \in {"verify", "verifyBalance"}
               PROVE  LET planOf(t) == PlanOf(ledger[t[1]][t[2]].intent)
                          landed == ledger[l][Current(l)].live = "landed"
                      IN /\ landed /\ ~Grown(l) =>
                              \E t \in Others(l) : planOf(t).costs \intersect LookedAt(l) # {}
                         /\ ~landed /\ Grown(l) =>
                              \A a \in LookedAt(l) : \E t \in Others(l) : a \in planOf(t).gains
    BY DEF WrongVerificationHasCause
  <2> DEFINE i == call[l].intent
             h == holdings[Wallet(l)]
             b == call[l].before
  <2>1. /\ Shape /\ LaneOK(l) /\ IntentOK(l) /\ GrowthOK(l)
        /\ call[l].pc \in {"verify", "verifyBalance"}
        /\ holdings \in [Wallets -> [Assets -> Nat]] /\ Wallet(l) \in Wallets
    BY WalletIsOne DEF IndInv, GrowthInv
  <2>2. Current(l) \in 1..MaxCalls /\ i.protocol \in Protocols
    BY <2>1, AwaitingFits DEF IntentOK, MarketOnly
  <2>3. LookedAt(l) \subseteq PlanOf(i).gains
    <3>1. CASE LooksTwice(l)
      <4>1. i.protocol = "kamino" /\ i.action = "borrow"
        BY <3>1 DEF LooksTwice
      <4>2. PlanOf(i) = KaminoPlan(i)
        BY <4>1 DEF PlanOf
      <4>3. PlanOf(i).gains = {"debt", "usdc"}
        BY <4>1, <4>2 DEF KaminoPlan, Plan
      <4> QED
        BY <3>1, <4>3 DEF LookedAt
    <3>2. CASE ~LooksTwice(l)
      BY <3>2 DEF LookedAt
    <3> QED
      BY <3>1, <3>2
  <2>4. /\ b \in [Assets -> Nat] /\ h \in [Assets -> Nat]
        /\ PlanOf(i).gains \subseteq Assets
        /\ \A a \in LookedAt(l) : /\ h[a] >= b[a] + Bought(l) \/ SpentByAnother(l, a)
                                  /\ h[a] <= b[a] + Bought(l) \/ BroughtByAnother(l, a)
    <3>1. PlanOf(i).gains \subseteq Assets
      BY <2>2, GainsAreAssets
    <3>2. /\ b \in [Assets -> Nat] /\ h \in [Assets -> Nat]
          /\ \A a \in PlanOf(i).gains : GrownBy(l, a)
      BY <2>1, <2>2 DEF GrowthOK, LivePath, IsPlain, Protocols
    <3> QED
      BY <2>3, <3>1, <3>2 DEF GrownBy
  <2>5. ASSUME NEW k \in Lanes, NEW m \in 1..MaxCalls, IsOther(l, k, m)
        PROVE  <<k, m>> \in Others(l)
    BY <2>5 DEF Others, IsOther
  <2>6. ASSUME ledger[l][Current(l)].live = "landed", ~Grown(l)
        PROVE  \E t \in Others(l) :
                 PlanOf(ledger[t[1]][t[2]].intent).costs \intersect LookedAt(l) # {}
    <3>1. PICK a \in LookedAt(l) : ~(h[a] > b[a])
      BY <2>6 DEF Grown
    <3>2. h[a] \in Nat /\ b[a] \in Nat /\ Bought(l) = 1
      BY <2>3, <2>4, <2>6, <3>1 DEF Bought
    <3>3. SpentByAnother(l, a)
      BY <2>4, <3>1, <3>2
    <3>4. PICK k \in Lanes, m \in 1..MaxCalls :
            IsOther(l, k, m) /\ a \in PlanOf(ledger[k][m].intent).costs
      BY <3>3 DEF SpentByAnother
    <3> QED
      BY <2>5, <3>1, <3>4
  <2>7. ASSUME ledger[l][Current(l)].live # "landed", Grown(l), NEW a \in LookedAt(l)
        PROVE  \E t \in Others(l) : a \in PlanOf(ledger[t[1]][t[2]].intent).gains
    <3>1. h[a] > b[a]
      BY <2>7 DEF Grown
    <3>2. h[a] \in Nat /\ b[a] \in Nat /\ Bought(l) = 0
      BY <2>3, <2>4, <2>7 DEF Bought
    <3>3. BroughtByAnother(l, a)
      BY <2>4, <3>1, <3>2
    <3>4. PICK k \in Lanes, m \in 1..MaxCalls :
            IsOther(l, k, m) /\ a \in PlanOf(ledger[k][m].intent).gains
      BY <3>3 DEF BroughtByAnother
    <3> QED
      BY <2>5, <3>4
  <2> QED
    BY <2>6, <2>7
<1> QED
  BY IndCorrect, GrowthCorrect, <1>1, PTL

-----------------------------------------------------------------------------
(* What a policy patch changes: what it denies, and what it opens.         *)

IsPolicy(policy) ==
  /\ {"limits", "flags", "programs", "opaque", "closeDestinations", "mints",
      "destinations", "expires"} \subseteq DOMAIN policy
  /\ {"maxSol", "maxSpl"} \subseteq DOMAIN policy.limits
  /\ {"denyUnknown", "rejectDeltas"} \subseteq DOMAIN policy.flags

\* The patch lowers no limit, turns on no flag, and begins no list: a first mint,
\* or a first destination, forbids all the others.
Relaxes(policy, patch) ==
  /\ "maxSol" \in DOMAIN patch.limits => patch.limits.maxSol >= policy.limits.maxSol
  /\ "maxSpl" \in DOMAIN patch.limits => patch.limits.maxSpl >= policy.limits.maxSpl
  /\ "denyUnknown" \in DOMAIN patch.flags /\ patch.flags.denyUnknown => policy.flags.denyUnknown
  /\ "rejectDeltas" \in DOMAIN patch.flags /\ patch.flags.rejectDeltas => policy.flags.rejectDeltas
  /\ policy.mints = {} => patch.mints = {}
  /\ policy.destinations = {} => patch.destinations = {}

\* Where the patch sets a limit, it and what it is compared with are numbers.
AreNumbers(policy, patch, tx) ==
  /\ "maxSol" \in DOMAIN patch.limits =>
       {policy.limits.maxSol, patch.limits.maxSol, SolSpent(tx)} \subseteq Int
  /\ "maxSpl" \in DOMAIN patch.limits =>
       {policy.limits.maxSpl, patch.limits.maxSpl, SplSpent(tx)} \subseteq Int

\* An instruction the patch may open: it belongs to a program the patch names, it
\* closes an account in favour of one the patch names, it pays a destination the
\* patch names, or the patch sets what is done with unknown instructions.
Concerns(patch, i) ==
  \/ i.program \in patch.programs \union patch.opaque
  \/ /\ i.program = "token" /\ i.kind = "closeAccount"
     /\ i.destination \in patch.closeDestinations
  \/ IsSpend(i) /\ i.destination \in patch.destinations
  \/ "denyUnknown" \in DOMAIN patch.flags

LEMMA SpreadField ==
  ASSUME NEW base, NEW extra, NEW f \in DOMAIN base
  PROVE  Spread(base, extra)[f] = IF f \in DOMAIN extra THEN extra[f] ELSE base[f]
BY DEF Spread

LEMMA MergedFields ==
  ASSUME NEW policy, IsPolicy(policy), NEW patch
  PROVE  /\ Merged(policy, patch).limits = Spread(policy.limits, patch.limits)
         /\ Merged(policy, patch).flags = Spread(policy.flags, patch.flags)
         /\ Merged(policy, patch).programs = policy.programs \union patch.programs
         /\ Merged(policy, patch).opaque = policy.opaque \union patch.opaque
         /\ Merged(policy, patch).closeDestinations =
              policy.closeDestinations \union patch.closeDestinations
         /\ Merged(policy, patch).mints = policy.mints \union patch.mints
         /\ Merged(policy, patch).destinations = policy.destinations \union patch.destinations
<1> DEFINE limits == Spread(policy.limits, patch.limits)
           flags == Spread(policy.flags, patch.flags)
           expires == IF patch.expires = {} THEN policy.expires
                      ELSE CHOOSE t \in patch.expires : TRUE
<1>1. Merged(policy, patch) =
        [policy EXCEPT !.limits = limits, !.flags = flags,
                       !.programs = policy.programs \union patch.programs,
                       !.opaque = policy.opaque \union patch.opaque,
                       !.closeDestinations = policy.closeDestinations \union patch.closeDestinations,
                       !.mints = policy.mints \union patch.mints,
                       !.destinations = policy.destinations \union patch.destinations,
                       !.expires = expires]
  BY DEF Merged
<1> HIDE DEF limits, flags, expires
<1>2. /\ Merged(policy, patch).limits = limits
      /\ Merged(policy, patch).flags = flags
      /\ Merged(policy, patch).programs = policy.programs \union patch.programs
      /\ Merged(policy, patch).opaque = policy.opaque \union patch.opaque
      /\ Merged(policy, patch).closeDestinations =
           policy.closeDestinations \union patch.closeDestinations
      /\ Merged(policy, patch).mints = policy.mints \union patch.mints
      /\ Merged(policy, patch).destinations = policy.destinations \union patch.destinations
  BY <1>1 DEF IsPolicy
<1> QED
  BY <1>2 DEF limits, flags

\* A limit or a flag of the merged policy is the patch's, where it sets one.
LEMMA MergedSettings ==
  ASSUME NEW policy, IsPolicy(policy), NEW patch
  PROVE  LET m == Merged(policy, patch) IN
         /\ m.limits.maxSol = IF "maxSol" \in DOMAIN patch.limits
                                THEN patch.limits.maxSol ELSE policy.limits.maxSol
         /\ m.limits.maxSpl = IF "maxSpl" \in DOMAIN patch.limits
                                THEN patch.limits.maxSpl ELSE policy.limits.maxSpl
         /\ m.flags.denyUnknown = IF "denyUnknown" \in DOMAIN patch.flags
                                    THEN patch.flags.denyUnknown ELSE policy.flags.denyUnknown
         /\ m.flags.rejectDeltas = IF "rejectDeltas" \in DOMAIN patch.flags
                                     THEN patch.flags.rejectDeltas ELSE policy.flags.rejectDeltas
BY MergedFields, SpreadField DEF IsPolicy

LEMMA InstructionPatched ==
  ASSUME NEW policy, IsPolicy(policy), NEW patch, NEW i
  PROVE  /\ InstructionPermitted(policy, i) /\ Relaxes(policy, patch) =>
              InstructionPermitted(Merged(policy, patch), i)
         /\ InstructionPermitted(Merged(policy, patch), i) /\ ~Concerns(patch, i) =>
              InstructionPermitted(policy, i)
<1> DEFINE m == Merged(policy, patch)
<1>1. /\ m.programs = policy.programs \union patch.programs
      /\ m.opaque = policy.opaque \union patch.opaque
      /\ m.closeDestinations = policy.closeDestinations \union patch.closeDestinations
      /\ m.destinations = policy.destinations \union patch.destinations
  BY MergedFields
<1>2. /\ "denyUnknown" \notin DOMAIN patch.flags =>
           m.flags.denyUnknown = policy.flags.denyUnknown
      /\ "denyUnknown" \in DOMAIN patch.flags =>
           m.flags.denyUnknown = patch.flags.denyUnknown
  BY MergedSettings
<1> HIDE DEF m
<1>3. ASSUME InstructionPermitted(policy, i), Relaxes(policy, patch)
      PROVE  InstructionPermitted(m, i)
  <2>1. i.program \in m.programs /\ ~IsBlockedVector(m.closeDestinations, i)
    BY <1>1, <1>3 DEF InstructionPermitted, IsBlockedVector
  <2>2. IsSpend(i) \/ i.program \in m.opaque \union Known \/ ~m.flags.denyUnknown
    BY <1>1, <1>2, <1>3 DEF InstructionPermitted, Relaxes
  <2>3. IsSpend(i) /\ m.destinations # {} => i.destination \in m.destinations
    BY <1>1, <1>3 DEF InstructionPermitted, Relaxes
  <2> QED
    BY <2>1, <2>2, <2>3 DEF InstructionPermitted
<1>4. ASSUME InstructionPermitted(m, i), ~Concerns(patch, i)
      PROVE  InstructionPermitted(policy, i)
  <2>1. i.program \in policy.programs /\ ~IsBlockedVector(policy.closeDestinations, i)
    BY <1>1, <1>4 DEF InstructionPermitted, IsBlockedVector, Concerns
  <2>2. IsSpend(i) \/ i.program \in policy.opaque \union Known \/ ~policy.flags.denyUnknown
    BY <1>1, <1>2, <1>4 DEF InstructionPermitted, Concerns
  <2>3. IsSpend(i) /\ policy.destinations # {} => i.destination \in policy.destinations
    BY <1>1, <1>4 DEF InstructionPermitted, Concerns
  <2> QED
    BY <2>1, <2>2, <2>3 DEF InstructionPermitted
<1> QED
  BY <1>3, <1>4 DEF m

\* mergePolicyConfig keeps what the agent's own policy allows, if the patch lowers
\* no limit, turns on no flag, and adds mints and destinations only to lists that
\* the policy has begun.
THEOREM PatchDeniesNothing ==
  ASSUME NEW policy, IsPolicy(policy), NEW patch, Relaxes(policy, patch),
         NEW tx, AreNumbers(policy, patch, tx), NEW deltas, Permits(policy, tx, deltas)
  PROVE  Permits(Merged(policy, patch), tx, deltas)
<1> DEFINE m == Merged(policy, patch)
<1>1. \A n \in DOMAIN tx : InstructionPermitted(m, tx[n])
  BY InstructionPatched DEF Permits
<1>2. SolSpent(tx) <= m.limits.maxSol
  <2>1. SolSpent(tx) <= policy.limits.maxSol
    BY DEF Permits
  <2>2. m.limits.maxSol = IF "maxSol" \in DOMAIN patch.limits
                            THEN patch.limits.maxSol ELSE policy.limits.maxSol
    BY MergedSettings
  <2> HIDE DEF m
  <2> QED
    BY <2>1, <2>2 DEF Relaxes, AreNumbers
<1>3. SplSpent(tx) <= m.limits.maxSpl
  <2>1. SplSpent(tx) <= policy.limits.maxSpl
    BY DEF Permits
  <2>2. m.limits.maxSpl = IF "maxSpl" \in DOMAIN patch.limits
                            THEN patch.limits.maxSpl ELSE policy.limits.maxSpl
    BY MergedSettings
  <2> HIDE DEF m
  <2> QED
    BY <2>1, <2>2 DEF Relaxes, AreNumbers
<1>4. MintsPermitted(m, tx)
  BY MergedFields DEF Permits, MintsPermitted, Relaxes
<1>5. DeltasPermitted(m, deltas)
  <2>1. m.flags.rejectDeltas => policy.flags.rejectDeltas
    BY MergedSettings DEF Relaxes
  <2> HIDE DEF m
  <2> QED
    BY <2>1 DEF Permits, DeltasPermitted
<1> QED
  BY <1>1, <1>2, <1>3, <1>4, <1>5 DEF Permits

\* Each thing for which the agent's own policy denies a transaction, and the patched
\* policy does not, is one the patch speaks of: an instruction it concerns, a limit
\* it sets, a mint it names, or the flag on balance changes.
THEOREM PatchOpensOnlyItself ==
  ASSUME NEW policy, IsPolicy(policy), NEW patch, NEW tx, NEW deltas,
         Permits(Merged(policy, patch), tx, deltas)
  PROVE  /\ \A n \in DOMAIN tx : InstructionPermitted(policy, tx[n]) \/ Concerns(patch, tx[n])
         /\ SolSpent(tx) <= policy.limits.maxSol \/ "maxSol" \in DOMAIN patch.limits
         /\ SplSpent(tx) <= policy.limits.maxSpl \/ "maxSpl" \in DOMAIN patch.limits
         /\ \/ MintsPermitted(policy, tx)
            \/ \E n \in DOMAIN tx : IsSplSpend(tx[n]) /\ tx[n].mint \in patch.mints
         /\ DeltasPermitted(policy, deltas) \/ "rejectDeltas" \in DOMAIN patch.flags
<1> DEFINE m == Merged(policy, patch)
<1>1. \A n \in DOMAIN tx : InstructionPermitted(policy, tx[n]) \/ Concerns(patch, tx[n])
  BY InstructionPatched DEF Permits
<1>2. /\ SolSpent(tx) <= m.limits.maxSol /\ SplSpent(tx) <= m.limits.maxSpl
      /\ MintsPermitted(m, tx) /\ DeltasPermitted(m, deltas)
  BY DEF Permits
<1>3. /\ "maxSol" \notin DOMAIN patch.limits => m.limits.maxSol = policy.limits.maxSol
      /\ "maxSpl" \notin DOMAIN patch.limits => m.limits.maxSpl = policy.limits.maxSpl
      /\ "rejectDeltas" \notin DOMAIN patch.flags =>
           m.flags.rejectDeltas = policy.flags.rejectDeltas
  BY MergedSettings
<1>4. \/ MintsPermitted(policy, tx)
      \/ \E n \in DOMAIN tx : IsSplSpend(tx[n]) /\ tx[n].mint \in patch.mints
  BY <1>2, MergedFields DEF MintsPermitted
<1> HIDE DEF m
<1>5. DeltasPermitted(policy, deltas) \/ "rejectDeltas" \in DOMAIN patch.flags
  BY <1>2, <1>3 DEF DeltasPermitted
<1> QED
  BY <1>1, <1>2, <1>3, <1>4, <1>5

\* What the live executors patch: the program of their protocol, and for Kamino the
\* accounts that are closed in favour of the wallet.
LEMMA ExecutorPatch ==
  ASSUME NEW i, i.protocol \in Protocols
  PROVE  LET patch == PlanOf(i).patch IN
         /\ patch.limits = Nothing /\ patch.flags = Nothing
         /\ patch.mints = {} /\ patch.destinations = {}
         /\ patch.programs \subseteq {i.protocol} /\ patch.opaque \subseteq {i.protocol}
         /\ patch.closeDestinations \subseteq {"wallet"}
<1>1. CASE i.protocol = "jupiter"
  <2>1. PlanOf(i) = JupiterPlan(i)
    BY <1>1 DEF PlanOf
  <2> QED
    BY <2>1 DEF JupiterPlan, Plan, NoPatch
<1>2. CASE i.protocol = "raydium"
  <2>1. PlanOf(i) = RaydiumPlan
    BY <1>2 DEF PlanOf
  <2>2. PlanOf(i).patch = Opens("raydium", {})
    BY <2>1 DEF RaydiumPlan, Plan
  <2> QED
    BY <1>2, <2>2 DEF Opens, NoPatch
<1>3. CASE i.protocol = "kamino"
  <2>1. PlanOf(i) = KaminoPlan(i)
    BY <1>3 DEF PlanOf
  <2>2. PlanOf(i).patch = Opens("kamino", {"wallet"})
    BY <2>1 DEF KaminoPlan, Plan
  <2> QED
    BY <1>3, <2>2 DEF Opens, NoPatch
<1>4. CASE i.protocol = "marinade"
  <2>1. PlanOf(i) = MarinadePlan
    BY <1>4 DEF PlanOf
  <2>2. PlanOf(i).patch = Opens("marinade", {})
    BY <2>1 DEF MarinadePlan, Plan
  <2> QED
    BY <1>4, <2>2 DEF Opens, NoPatch
<1> QED
  BY <1>1, <1>2, <1>3, <1>4 DEF Protocols

\* The patches of the live executors change a decision in one way only.  All that the
\* agent's own policy allows stays allowed; and what is allowed beyond it are the
\* instructions of the protocol's own program and closes that pay the wallet: the
\* limits, the mints, the destinations and the balance changes are still the policy's.
THEOREM LivePatchOpensItsProtocol ==
  ASSUME NEW policy, IsPolicy(policy), NEW i, i.protocol \in Protocols, NEW tx, NEW deltas
  PROVE  LET patched == Merged(policy, PlanOf(i).patch)
             ofProtocol(n) ==
               \/ tx[n].program = i.protocol
               \/ /\ tx[n].program = "token" /\ tx[n].kind = "closeAccount"
                  /\ tx[n].destination = "wallet"
         IN /\ Permits(policy, tx, deltas) => Permits(patched, tx, deltas)
            /\ Permits(patched, tx, deltas) =>
                 /\ \A n \in DOMAIN tx : InstructionPermitted(policy, tx[n]) \/ ofProtocol(n)
                 /\ SolSpent(tx) <= policy.limits.maxSol
                 /\ SplSpent(tx) <= policy.limits.maxSpl
                 /\ MintsPermitted(policy, tx)
                 /\ DeltasPermitted(policy, deltas)
<1> DEFINE patch == PlanOf(i).patch
<1>1. /\ patch.limits = Nothing /\ patch.flags = Nothing
      /\ patch.mints = {} /\ patch.destinations = {}
      /\ patch.programs \subseteq {i.protocol} /\ patch.opaque \subseteq {i.protocol}
      /\ patch.closeDestinations \subseteq {"wallet"}
  BY ExecutorPatch
<1> HIDE DEF patch
<1>2. DOMAIN patch.limits = {} /\ DOMAIN patch.flags = {}
  BY <1>1 DEF Nothing
<1>3. Relaxes(policy, patch) /\ AreNumbers(policy, patch, tx)
  BY <1>1, <1>2 DEF Relaxes, AreNumbers
<1>4. Permits(policy, tx, deltas) => Permits(Merged(policy, patch), tx, deltas)
  BY <1>3, PatchDeniesNothing
<1>5. ASSUME Permits(Merged(policy, patch), tx, deltas)
      PROVE  /\ \A n \in DOMAIN tx : InstructionPermitted(policy, tx[n]) \/ Concerns(patch, tx[n])
             /\ SolSpent(tx) <= policy.limits.maxSol
             /\ SplSpent(tx) <= policy.limits.maxSpl
             /\ MintsPermitted(policy, tx)
             /\ DeltasPermitted(policy, deltas)
  BY <1>1, <1>2, <1>5, PatchOpensOnlyItself
<1>6. ASSUME NEW n \in DOMAIN tx, Concerns(patch, tx[n])
      PROVE  \/ tx[n].program = i.protocol
             \/ /\ tx[n].program = "token" /\ tx[n].kind = "closeAccount"
                /\ tx[n].destination = "wallet"
  BY <1>1, <1>2, <1>6 DEF Concerns
<1> QED
  BY <1>4, <1>5, <1>6 DEF patch
=============================================================================
