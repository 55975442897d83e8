---------------------- MODULE PolicyGuardProgramProofs ----------------------
(***************************************************************************)
(* Proofs about the on-chain policy program, for every set of owners,      *)
(* sessions and payloads, every day length and every limit.                *)
(***************************************************************************)
EXTENDS PolicyGuardProgram, FiniteSetTheorems, NaturalsInduction, TLAPS

-----------------------------------------------------------------------------
(* Calendar days.                                                          *)

\* The day of a second of the clock is one of the days of the model.
LEMMA DayInDays ==
  ASSUME NEW t \in 0..MaxTime
  PROVE  Day(t) \in Days
BY DEF Days

\* Days are natural numbers.
LEMMA DaysNat == Days \subseteq Nat
BY ConstantsAssumption DEF Days, Day

\* Time does not go back to an earlier day (current_day_bucket).
LEMMA DayMonotone ==
  ASSUME NEW t \in Nat, NEW u \in Nat, t <= u
  PROVE  Day(t) \in Nat /\ Day(u) \in Nat /\ Day(t) <= Day(u)
BY ConstantsAssumption DEF Day

\* The day of the clock.
LEMMA DayOfClock ==
  ASSUME TypeOK
  PROVE  Day(clock) \in Days /\ Day(clock) \in Nat
<1>1. clock \in 0..MaxTime
  BY DEF TypeOK
<1>2. Day(clock) \in Days
  BY <1>1, DayInDays
<1> QED
  BY <1>2, DaysNat

\* The vault of an owner is one of the accounts.
LEMMA VaultAccount == \A o \in Owners : VaultOf[o] \in Accounts
BY InputsAssumption

\* Amounts are natural numbers, and so are the rent and the deposits.
LEMMA AmountNat ==
  /\ Amount \subseteq Nat
  /\ VaultRent \in Nat
  /\ Deposits \subseteq Nat
BY ConstantsAssumption DEF Amount

-----------------------------------------------------------------------------
(* Types.                                                                  *)

\* The initial state is well typed.
LEMMA InitType == Init => TypeOK
BY ConstantsAssumption, DaysNat DEF Init, TypeOK, Amount

\* Initializing a policy keeps the types.
LEMMA InitializePolicyType ==
  ASSUME TypeOK, NEW o \in Owners, NEW params \in PolicyParams,
         InitializePolicy(o, params)
  PROVE  TypeOK'
<1>1. Day(clock) \in Int
  BY DayOfClock
<1>2. [kill |-> FALSE, spent |-> 0, lastDay |-> Day(clock),
       params |-> params] \in Policy
  BY <1>1, ConstantsAssumption, InputsAssumption DEF Policy, Amount
<1>3. policy' \in [Owners -> Policy \cup {NoPolicy}]
  BY <1>2 DEF InitializePolicy, TypeOK
<1>4. lamports' \in [Accounts -> Nat]
  BY AmountNat, VaultAccount DEF InitializePolicy, TypeOK
<1>5. funded' \in 0..MaxFunding
  BY ConstantsAssumption DEF InitializePolicy, TypeOK, Amount
<1>6. vaultLive' \in [Owners -> BOOLEAN]
  BY DEF InitializePolicy, TypeOK
<1>7. WellFormed(params)
  BY DEF InitializePolicy, WithinAllowlistSpace, WellFormed
<1>8. \A q \in Owners : policy'[q] # NoPolicy => WellFormed(policy'[q].params)
  BY <1>7 DEF InitializePolicy, TypeOK
<1> QED
  BY <1>3, <1>4, <1>5, <1>6, <1>8 DEF InitializePolicy, TypeOK

\* Toggling the kill switch keeps the types.
LEMMA SetKillSwitchType ==
  ASSUME TypeOK, NEW o \in Owners, NEW active \in BOOLEAN,
         SetKillSwitch(o, active)
  PROVE  TypeOK'
<1>1. policy[o] \in Policy
  BY DEF SetKillSwitch, TypeOK
<1>2. [policy[o] EXCEPT !.kill = active] \in Policy
  BY <1>1 DEF Policy
<1>3. policy' \in [Owners -> Policy \cup {NoPolicy}]
  BY <1>2 DEF SetKillSwitch, TypeOK
<1>4. policy'[o].params = policy[o].params
  BY <1>1 DEF SetKillSwitch, TypeOK, Policy
<1>5. \A q \in Owners : policy'[q] # NoPolicy => WellFormed(policy'[q].params)
  BY <1>4 DEF SetKillSwitch, TypeOK
<1> QED
  BY <1>3, <1>5 DEF SetKillSwitch, TypeOK

\* What open_session writes is a session account.
LEMMA OpenedIsSession ==
  ASSUME TypeOK, NEW o \in Owners, policy[o] # NoPolicy
  PROVE  [active |-> TRUE,
          expiresAt |-> clock + policy[o].params.ttl * SecondsPerMinute,
          nextNonce |-> 0] \in Session
<1>1. policy[o] \in Policy
  BY DEF TypeOK
<1>2. policy[o].params.ttl \in Nat
  BY <1>1 DEF Policy, Params
<1>3. policy[o].params.ttl * SecondsPerMinute \in Int
  BY <1>2, ConstantsAssumption
<1>4. clock + policy[o].params.ttl * SecondsPerMinute \in Int
  BY <1>3 DEF TypeOK
<1> QED
  BY <1>4, ConstantsAssumption DEF Session, Amount

\* Opening a session keeps the types.
LEMMA OpenSessionType ==
  ASSUME TypeOK, NEW o \in Owners, NEW s \in SessionIds, OpenSession(o, s)
  PROVE  TypeOK'
<1> DEFINE opened == [active |-> TRUE,
               expiresAt |-> clock + policy[o].params.ttl * SecondsPerMinute,
               nextNonce |-> 0]
<1>1. opened \in Session
  BY OpenedIsSession DEF OpenSession
<1>2. session' = [session EXCEPT ![o][s] = opened]
  BY DEF OpenSession
<1>3. session' \in [Owners -> [SessionIds -> Session \cup {NoSession}]]
  BY <1>1, <1>2 DEF TypeOK
<1> QED
  BY <1>3 DEF OpenSession, TypeOK

\* Closing a session keeps the types.
LEMMA CloseSessionType ==
  ASSUME TypeOK, NEW o \in Owners, NEW s \in SessionIds, CloseSession(o, s)
  PROVE  TypeOK'
<1>1. session[o][s] \in Session
  BY DEF CloseSession, TypeOK
<1>2. [session[o][s] EXCEPT !.active = FALSE] \in Session
  BY <1>1 DEF Session
<1>3. session' = [session EXCEPT ![o][s] = [@ EXCEPT !.active = FALSE]]
  BY DEF CloseSession
<1>4. session' \in [Owners -> [SessionIds -> Session \cup {NoSession}]]
  BY <1>2, <1>3 DEF TypeOK
<1> QED
  BY <1>4 DEF CloseSession, TypeOK

\* What a transfer writes is well typed: the new counter fits its width
\* because it is at most the limit, and the vault is not overdrawn.
LEMMA ExecuteTransferType ==
  ASSUME TypeOK, NEW o \in Owners, NEW p \in Payloads, NEW proof \in Proofs,
         ExecuteTransfer(o, p, proof)
  PROVE  TypeOK'
<1> DEFINE pol == policy[o]
           ses == session[o][p.session]
           newSpend == RefreshedSpend(pol, clock) + p.amount
           balances == Moved(VaultOf[o], p.recipient, p.amount)
<1>1. /\ p \in Payload /\ p.session \in SessionIds
      /\ p.amount \in Amount /\ p.recipient \in Accounts
  BY InputsAssumption DEF Payload
<1>2. pol \in Policy /\ ses \in Session
  BY <1>1 DEF ExecuteTransfer, TypeOK
<1>3. Day(clock) \in Int /\ Day(clock) \in Days
  BY DayOfClock
<1>4. newSpend \in Amount
  <2>1. pol.spent \in Amount /\ pol.params.limit \in Amount
    BY <1>2 DEF Policy, Params
  <2>2. newSpend <= pol.params.limit
    BY DEF ExecuteTransfer
  <2>3. newSpend \in Nat
    BY <1>1, <2>1, ConstantsAssumption DEF RefreshedSpend, Amount
  <2> QED
    BY <2>1, <2>2, <2>3, ConstantsAssumption DEF Amount
<1>5. /\ policy' \in [Owners -> Policy \cup {NoPolicy}]
      /\ \A q \in Owners :
           policy'[q] # NoPolicy => WellFormed(policy'[q].params)
  <2>1. [pol EXCEPT !.spent = newSpend, !.lastDay = Day(clock)] \in Policy
    BY <1>2, <1>3, <1>4 DEF Policy
  <2>2. policy' = [policy EXCEPT ![o] =
                    [pol EXCEPT !.spent = newSpend, !.lastDay = Day(clock)]]
    BY DEF ExecuteTransfer, TypeOK
  <2>3. policy'[o].params = pol.params
    BY <1>2, <1>3, <1>4, <2>2 DEF TypeOK, Policy
  <2>4. \A q \in Owners :
          policy'[q] # NoPolicy => WellFormed(policy'[q].params)
    BY <2>2, <2>3 DEF ExecuteTransfer, TypeOK
  <2> QED
    BY <2>1, <2>2, <2>4 DEF TypeOK
<1>6. session' \in [Owners -> [SessionIds -> Session \cup {NoSession}]]
  <2>1. ses.nextNonce < U64Max
    BY DEF ExecuteTransfer
  <2>2. ses.nextNonce + 1 \in Amount
    BY <1>2, <2>1, ConstantsAssumption DEF Session, Amount
  <2>3. [ses EXCEPT !.nextNonce = ses.nextNonce + 1] \in Session
    BY <1>2, <2>2 DEF Session
  <2>4. session' = [session EXCEPT ![o][p.session] =
                      [ses EXCEPT !.nextNonce = ses.nextNonce + 1]]
    BY <1>1 DEF ExecuteTransfer, TypeOK
  <2> QED
    BY <1>1, <2>3, <2>4 DEF TypeOK
<1>7. lamports' \in [Accounts -> Nat]
  <2>1. VaultOf[o] \in Accounts /\ p.amount \in Nat
    BY <1>1, InputsAssumption, ConstantsAssumption DEF Amount
  <2>2. lamports[VaultOf[o]] >= p.amount /\ lamports' = balances
    BY DEF ExecuteTransfer
  <2>3. lamports \in [Accounts -> Nat]
    BY DEF TypeOK
  <2> QED
    BY <1>1, <2>1, <2>2, <2>3 DEF Moved
<1>8. vaultLive' \in [Owners -> BOOLEAN]
  <2>1. vaultLive' = [vaultLive EXCEPT ![o] =
                        vaultLive[o] /\ balances[VaultOf[o]] # 0]
    BY DEF ExecuteTransfer, TypeOK
  <2>2. (vaultLive[o] /\ balances[VaultOf[o]] # 0) \in BOOLEAN
    OBVIOUS
  <2> HIDE DEF balances
  <2> QED
    BY <2>1, <2>2, Zenon DEF TypeOK
<1>9. paid' \in [Owners -> [Days -> Nat]]
  <2>1. paid' = [paid EXCEPT ![o][Day(clock)] = @ + p.amount]
    BY DEF ExecuteTransfer
  <2>2. p.amount \in Nat
    BY <1>1, ConstantsAssumption DEF Amount
  <2> QED
    BY <1>3, <2>1, <2>2 DEF TypeOK
<1>10. executed' \in
         [Owners -> [SessionIds -> Seq([payload : Payloads, at : 0..MaxTime])]]
  <2> DEFINE Entry == [payload : Payloads, at : 0..MaxTime]
             entry == [payload |-> p, at |-> clock]
  <2>1. entry \in Entry
    BY DEF TypeOK
  <2>2. executed \in [Owners -> [SessionIds -> Seq(Entry)]]
    BY DEF TypeOK
  <2>3. executed' = [executed EXCEPT ![o][p.session] = Append(@, entry)]
    BY DEF ExecuteTransfer
  <2> HIDE DEF Entry, entry
  <2>4. Append(executed[o][p.session], entry) \in Seq(Entry)
    BY <1>1, <2>1, <2>2
  <2>5. executed' \in [Owners -> [SessionIds -> Seq(Entry)]]
    BY <1>1, <2>2, <2>3, <2>4
  <2> QED
    BY <2>5 DEF Entry
<1> QED
  BY <1>5, <1>6, <1>7, <1>8, <1>9, <1>10 DEF ExecuteTransfer, TypeOK

\* Every step keeps the types.
LEMMA NextType == TypeOK /\ [Next]_vars => TypeOK'
<1> SUFFICES ASSUME TypeOK, [Next]_vars PROVE TypeOK'
  OBVIOUS
<1>1. CASE Tick
  <2>1. clock' \in 0..MaxTime
    BY <1>1, ConstantsAssumption DEF Tick, TypeOK
  <2> QED
    BY <1>1, <2>1 DEF Tick, TypeOK
<1>2. ASSUME NEW o \in Owners, NEW amount \in Deposits, Deposit(o, amount)
      PROVE  TypeOK'
  <2>1. lamports' \in [Accounts -> Nat]
    BY <1>2, AmountNat, VaultAccount DEF Deposit, TypeOK
  <2>2. funded' \in 0..MaxFunding
    BY <1>2, AmountNat, ConstantsAssumption DEF Deposit, TypeOK
  <2> QED
    BY <1>2, <2>1, <2>2 DEF Deposit, TypeOK
<1>3. CASE UNCHANGED vars
  BY <1>3 DEF vars, TypeOK
<1> QED
  BY <1>1, <1>2, <1>3, InitializePolicyType, SetKillSwitchType,
     OpenSessionType, CloseSessionType, ExecuteTransferType DEF Next

\* The accounts of the program always hold well-typed values.
THEOREM TypeCorrect == Spec => []TypeOK
BY InitType, NextType, PTL DEF Spec

-----------------------------------------------------------------------------
(* The daily limit and the nonces.                                         *)

\* The invariant holds before any policy exists.
LEMMA InitInd == Init => IndInv
<1> SUFFICES ASSUME Init PROVE IndInv
  OBVIOUS
<1>1. TypeOK
  BY InitType
<1>2. SpentMatchesHistory
  BY DEF Init, SpentMatchesHistory
<1>3. NonceMatchesHistory
  BY DEF Init, NonceMatchesHistory
<1>4. DailyLimit
  BY DEF Init, DailyLimit
<1>5. NoncesConsecutive
  BY DEF Init, NoncesConsecutive
<1> QED
  BY <1>1, <1>2, <1>3, <1>4, <1>5 DEF IndInv

\* Time passing cannot make the last reset lie in the future.
LEMMA TickInd ==
  ASSUME IndInv, TypeOK', Tick
  PROVE  IndInv'
<1>1. clock \in Nat /\ clock' \in Nat /\ clock <= clock'
  BY ConstantsAssumption DEF IndInv, TypeOK, Tick
<1>2. /\ Day(clock) \in Nat /\ Day(clock') \in Nat
      /\ Day(clock) <= Day(clock')
  BY <1>1, DayMonotone
<1>3. SpentMatchesHistory'
  <2> SUFFICES ASSUME NEW o \in Owners, policy[o] # NoPolicy
               PROVE  policy[o].lastDay <= Day(clock')
    BY DEF IndInv, SpentMatchesHistory, Tick
  <2>1. policy[o].lastDay \in Days /\ policy[o].lastDay <= Day(clock)
    BY DEF IndInv, SpentMatchesHistory
  <2>2. policy[o].lastDay \in Nat
    BY <2>1, DaysNat
  <2> QED
    BY <1>2, <2>1, <2>2
<1> QED
  BY <1>3 DEF IndInv, NonceMatchesHistory, DailyLimit, NoncesConsecutive, Tick

\* A new policy starts with a counter of zero and an empty history.
LEMMA InitializePolicyInd ==
  ASSUME IndInv, TypeOK', NEW o \in Owners, NEW params \in PolicyParams,
         InitializePolicy(o, params)
  PROVE  IndInv'
<1> DEFINE fresh == [kill |-> FALSE, spent |-> 0, lastDay |-> Day(clock),
                     params |-> params]
<1>1. /\ policy[o] = NoPolicy
      /\ policy' = [policy EXCEPT ![o] = fresh]
      /\ UNCHANGED <<clock, session, paid, executed>>
  BY DEF InitializePolicy
<1>2. \A d \in Days : paid[o][d] = 0
  BY <1>1 DEF IndInv, SpentMatchesHistory
<1>3. Day(clock) \in Days /\ Day(clock) \in Nat
  BY DayOfClock DEF IndInv
<1>4. fresh # NoPolicy
  <2>1. params \in Params
    BY InputsAssumption
  <2>2. fresh \in Policy
    BY <1>3, <2>1, ConstantsAssumption DEF Policy, Amount
  <2> QED
    BY <2>2, InputsAssumption
<1>5. policy'[o] = fresh /\ \A q \in Owners \ {o} : policy'[q] = policy[q]
  BY <1>1 DEF IndInv, TypeOK
<1>6. SpentMatchesHistory'
  <2> SUFFICES ASSUME NEW q \in Owners
               PROVE  IF policy'[q] = NoPolicy
                      THEN /\ \A d \in Days : paid[q][d] = 0
                           /\ \A s \in SessionIds : session[q][s] = NoSession
                      ELSE /\ policy'[q].lastDay \in Days
                           /\ policy'[q].lastDay <= Day(clock)
                           /\ paid[q][policy'[q].lastDay] = policy'[q].spent
                           /\ \A d \in Days :
                                d > policy'[q].lastDay => paid[q][d] = 0
    BY <1>1 DEF SpentMatchesHistory
  <2>1. CASE q = o
    BY <1>2, <1>3, <1>4, <1>5, <2>1
  <2>2. CASE q # o
    BY <1>5, <2>2 DEF IndInv, SpentMatchesHistory
  <2> QED
    BY <2>1, <2>2
<1>7. DailyLimit'
  <2> SUFFICES ASSUME NEW q \in Owners, NEW d \in Days, policy'[q] # NoPolicy
               PROVE  paid[q][d] <= policy'[q].params.limit
    BY <1>1 DEF DailyLimit
  <2>1. CASE q = o
    <3>1. policy'[q].params = params
      BY <1>5, <2>1
    <3>2. params \in Params
      BY InputsAssumption
    <3>3. params.limit \in Nat
      BY <3>2, AmountNat DEF Params
    <3> QED
      BY <1>2, <2>1, <3>1, <3>3
  <2>2. CASE q # o
    BY <1>5, <2>2 DEF IndInv, DailyLimit
  <2> QED
    BY <2>1, <2>2
<1>8. NonceMatchesHistory' /\ NoncesConsecutive'
  BY <1>1 DEF IndInv, NonceMatchesHistory, NoncesConsecutive
<1> QED
  BY <1>6, <1>7, <1>8 DEF IndInv

\* The kill switch touches neither the counter nor the limit.
LEMMA SetKillSwitchInd ==
  ASSUME IndInv, TypeOK', NEW o \in Owners, NEW active \in BOOLEAN,
         SetKillSwitch(o, active)
  PROVE  IndInv'
<1>1. UNCHANGED <<clock, session, paid, executed>>
  BY DEF SetKillSwitch
<1>2. \A q \in Owners : policy[q] = NoPolicy <=> policy'[q] = NoPolicy
  BY InputsAssumption DEF SetKillSwitch, IndInv, TypeOK, Policy
<1>3. \A q \in Owners : policy[q] # NoPolicy =>
        /\ policy'[q].lastDay = policy[q].lastDay
        /\ policy'[q].spent = policy[q].spent
        /\ policy'[q].params = policy[q].params
  BY DEF SetKillSwitch, IndInv, TypeOK, Policy
<1>4. SpentMatchesHistory'
  BY <1>1, <1>2, <1>3 DEF IndInv, SpentMatchesHistory
<1>5. DailyLimit'
  BY <1>1, <1>2, <1>3 DEF IndInv, DailyLimit
<1> QED
  BY <1>1, <1>4, <1>5 DEF IndInv, NonceMatchesHistory, NoncesConsecutive

\* A session opens with nonce zero and has executed nothing.
LEMMA OpenSessionInd ==
  ASSUME IndInv, TypeOK', NEW o \in Owners, NEW s \in SessionIds,
         OpenSession(o, s)
  PROVE  IndInv'
<1>1. /\ policy[o] # NoPolicy
      /\ session[o][s] = NoSession
      /\ UNCHANGED <<clock, policy, paid, executed>>
  BY DEF OpenSession
<1>2. /\ session'[o][s] # NoSession
      /\ session'[o][s].nextNonce = 0
  <2> DEFINE opened == [active |-> TRUE,
               expiresAt |-> clock + policy[o].params.ttl * SecondsPerMinute,
               nextNonce |-> 0]
  <2>1. session'[o][s] = opened
    BY DEF OpenSession, IndInv, TypeOK
  <2>2. opened \in Session
    BY <1>1, OpenedIsSession DEF IndInv
  <2>3. opened # NoSession
    BY <2>2, InputsAssumption
  <2> QED
    BY <2>1, <2>3
<1>3. \A q \in Owners, r \in SessionIds :
        ~(q = o /\ r = s) => session'[q][r] = session[q][r]
  BY DEF OpenSession, IndInv, TypeOK
<1>4. SpentMatchesHistory'
  BY <1>1, <1>3 DEF IndInv, SpentMatchesHistory
<1>5. NonceMatchesHistory'
  BY <1>1, <1>2, <1>3 DEF IndInv, NonceMatchesHistory
<1> QED
  BY <1>1, <1>4, <1>5 DEF IndInv, DailyLimit, NoncesConsecutive

\* Closing a session leaves its nonce alone.
LEMMA CloseSessionInd ==
  ASSUME IndInv, TypeOK', NEW o \in Owners, NEW s \in SessionIds,
         CloseSession(o, s)
  PROVE  IndInv'
<1>1. /\ policy[o] # NoPolicy
      /\ session[o][s] # NoSession
      /\ UNCHANGED <<clock, policy, paid, executed>>
  BY DEF CloseSession
<1>2. /\ session'[o][s] # NoSession
      /\ session'[o][s].nextNonce = session[o][s].nextNonce
  <2>1. session[o][s] \in Session
    BY <1>1 DEF IndInv, TypeOK
  <2>2. session' = [session EXCEPT ![o][s] =
                      [session[o][s] EXCEPT !.active = FALSE]]
    BY DEF CloseSession, IndInv, TypeOK
  <2>3. session'[o][s] = [session[o][s] EXCEPT !.active = FALSE]
    BY <2>2 DEF IndInv, TypeOK
  <2>4. /\ [session[o][s] EXCEPT !.active = FALSE] \in Session
        /\ [session[o][s] EXCEPT !.active = FALSE].nextNonce
             = session[o][s].nextNonce
    BY <2>1 DEF Session
  <2> QED
    BY <2>3, <2>4, InputsAssumption
<1>3. \A q \in Owners, r \in SessionIds :
        ~(q = o /\ r = s) => session'[q][r] = session[q][r]
  BY DEF CloseSession, IndInv, TypeOK
<1>4. SpentMatchesHistory'
  BY <1>1, <1>3 DEF IndInv, SpentMatchesHistory
<1>5. NonceMatchesHistory'
  BY <1>1, <1>2, <1>3 DEF IndInv, NonceMatchesHistory
<1> QED
  BY <1>1, <1>4, <1>5 DEF IndInv, DailyLimit, NoncesConsecutive

\* A transfer adds the same amount to the counter and to the day's payments,
\* after bringing the counter up to date, and appends the expected nonce.
LEMMA ExecuteTransferInd ==
  ASSUME IndInv, TypeOK', NEW o \in Owners, NEW p \in Payloads,
         NEW proof \in Proofs, ExecuteTransfer(o, p, proof)
  PROVE  IndInv'
<1> DEFINE pol == policy[o]
           s == p.session
           ses == session[o][s]
           today == Day(clock)
           newSpend == RefreshedSpend(pol, clock) + p.amount
           entry == [payload |-> p, at |-> clock]
<1>1. /\ pol # NoPolicy /\ ses # NoSession
      /\ p.nonce = ses.nextNonce
      /\ newSpend <= pol.params.limit
      /\ UNCHANGED clock
      /\ paid' = [paid EXCEPT ![o][today] = @ + p.amount]
      /\ executed' = [executed EXCEPT ![o][s] = Append(@, entry)]
  BY DEF ExecuteTransfer, InWindow
<1>2. /\ p \in Payload /\ s \in SessionIds /\ p.amount \in Nat
  BY InputsAssumption, AmountNat DEF Payload
<1>3. /\ pol \in Policy /\ ses \in Session
      /\ pol.spent \in Nat /\ pol.params.limit \in Nat
      /\ ses.nextNonce \in Nat
  <2>1. pol \in Policy /\ ses \in Session
    BY <1>1, <1>2 DEF IndInv, TypeOK
  <2> QED
    BY <2>1, AmountNat DEF Policy, Session, Params
<1>4. today \in Days /\ today \in Nat
  BY DayOfClock DEF IndInv
<1>5. /\ pol.lastDay \in Days /\ pol.lastDay <= today
      /\ pol.lastDay \in Nat
      /\ paid[o][pol.lastDay] = pol.spent
      /\ \A d \in Days : d > pol.lastDay => paid[o][d] = 0
  BY <1>1, DaysNat DEF IndInv, SpentMatchesHistory
<1>6. paid[o][today] = RefreshedSpend(pol, clock)
  <2>1. CASE pol.lastDay = today
    BY <1>5, <2>1 DEF RefreshedSpend
  <2>2. CASE pol.lastDay # today
    BY <1>4, <1>5, <2>2 DEF RefreshedSpend
  <2> QED
    BY <2>1, <2>2
<1>7. /\ paid'[o][today] = newSpend
      /\ \A d \in Days \ {today} : paid'[o][d] = paid[o][d]
      /\ \A q \in Owners \ {o} : paid'[q] = paid[q]
  BY <1>1, <1>4, <1>6 DEF IndInv, TypeOK
<1>8. /\ policy'[o].spent = newSpend /\ policy'[o].lastDay = today
      /\ policy'[o].params = pol.params
      /\ policy'[o] # NoPolicy
      /\ \A q \in Owners \ {o} : policy'[q] = policy[q]
  <2>1. policy' = [policy EXCEPT ![o] =
                    [pol EXCEPT !.spent = newSpend, !.lastDay = today]]
    BY DEF ExecuteTransfer, IndInv, TypeOK
  <2>2. policy'[o] = [pol EXCEPT !.spent = newSpend, !.lastDay = today]
    BY <2>1 DEF IndInv, TypeOK
  <2>3. newSpend \in Amount
    <3>1. newSpend \in Nat
      BY <1>2, <1>3 DEF RefreshedSpend
    <3>2. pol.params.limit \in Amount
      BY <1>3 DEF Policy, Params
    <3> QED
      BY <1>1, <3>1, <3>2, ConstantsAssumption DEF Amount
  <2>4. /\ policy'[o] \in Policy
        /\ policy'[o].params = pol.params
        /\ policy'[o].spent = newSpend
        /\ policy'[o].lastDay = today
    <3>1. pol \in Policy /\ newSpend \in Amount /\ today \in Int
      BY <1>3, <1>4, <2>3
    <3> HIDE DEF newSpend, today, pol
    <3> QED
      BY <2>2, <3>1 DEF Policy
  <2>5. \A q \in Owners \ {o} : policy'[q] = policy[q]
    BY <2>1 DEF IndInv, TypeOK
  <2> HIDE DEF newSpend, today, pol
  <2> QED
    BY <2>4, <2>5, InputsAssumption
<1>9. /\ session'[o][s] # NoSession
      /\ session'[o][s].nextNonce = ses.nextNonce + 1
      /\ \A q \in Owners, r \in SessionIds :
           ~(q = o /\ r = s) => session'[q][r] = session[q][r]
  <2>1. session' = [session EXCEPT ![o][s] =
                      [ses EXCEPT !.nextNonce = ses.nextNonce + 1]]
    BY <1>2 DEF ExecuteTransfer, IndInv, TypeOK
  <2>2. session'[o][s] = [ses EXCEPT !.nextNonce = ses.nextNonce + 1]
    BY <1>2, <2>1 DEF IndInv, TypeOK
  <2>3. ses.nextNonce < U64Max
    BY DEF ExecuteTransfer
  <2>4. ses.nextNonce + 1 \in Amount
    BY <1>3, <2>3, ConstantsAssumption DEF Amount
  <2>5. [ses EXCEPT !.nextNonce = ses.nextNonce + 1] \in Session
    BY <1>3, <2>4 DEF Session
  <2>6. [ses EXCEPT !.nextNonce = ses.nextNonce + 1].nextNonce
          = ses.nextNonce + 1
    BY <1>3 DEF Session
  <2>7. \A q \in Owners, r \in SessionIds :
          ~(q = o /\ r = s) => session'[q][r] = session[q][r]
    BY <1>2, <2>1 DEF IndInv, TypeOK
  <2> QED
    BY <2>2, <2>5, <2>6, <2>7, InputsAssumption
<1>10. /\ Len(executed[o][s]) = ses.nextNonce
       /\ executed'[o][s] = Append(executed[o][s], entry)
       /\ \A q \in Owners, r \in SessionIds :
            ~(q = o /\ r = s) => executed'[q][r] = executed[q][r]
  BY <1>1, <1>2 DEF IndInv, TypeOK, NonceMatchesHistory
<1>11. executed[o][s] \in Seq([payload : Payloads, at : 0..MaxTime])
  BY <1>2 DEF IndInv, TypeOK
<1>12. /\ Len(executed'[o][s]) = ses.nextNonce + 1
       /\ \A k \in 1..ses.nextNonce : executed'[o][s][k] = executed[o][s][k]
       /\ executed'[o][s][ses.nextNonce + 1] = entry
  <2>1. entry \in [payload : Payloads, at : 0..MaxTime]
    BY DEF IndInv, TypeOK
  <2> HIDE DEF entry
  <2> QED
    BY <1>3, <1>10, <1>11, <2>1
<1>13. SpentMatchesHistory'
  <2> SUFFICES ASSUME NEW q \in Owners
               PROVE  IF policy'[q] = NoPolicy
                      THEN /\ \A d \in Days : paid'[q][d] = 0
                           /\ \A r \in SessionIds : session'[q][r] = NoSession
                      ELSE /\ policy'[q].lastDay \in Days
                           /\ policy'[q].lastDay <= Day(clock)
                           /\ paid'[q][policy'[q].lastDay] = policy'[q].spent
                           /\ \A d \in Days :
                                d > policy'[q].lastDay => paid'[q][d] = 0
    BY <1>1 DEF SpentMatchesHistory
  <2>1. CASE q = o
    <3>1. ASSUME NEW d \in Days, d > today PROVE paid'[o][d] = 0
      <4>1. d \in Nat /\ d > pol.lastDay /\ d # today
        BY <1>4, <1>5, <3>1, DaysNat
      <4> QED
        BY <1>5, <1>7, <4>1
    <3> QED
      BY <1>4, <1>7, <1>8, <2>1, <3>1
  <2>2. CASE q # o
    BY <1>7, <1>8, <1>9, <2>2 DEF IndInv, SpentMatchesHistory
  <2> QED
    BY <2>1, <2>2
<1>14. DailyLimit'
  <2> SUFFICES ASSUME NEW q \in Owners, NEW d \in Days, policy'[q] # NoPolicy
               PROVE  paid'[q][d] <= policy'[q].params.limit
    BY DEF DailyLimit
  <2>1. CASE q = o /\ d = today
    BY <1>1, <1>7, <1>8, <2>1
  <2>2. CASE q = o /\ d # today
    BY <1>1, <1>7, <1>8, <2>2 DEF IndInv, DailyLimit
  <2>3. CASE q # o
    BY <1>7, <1>8, <2>3 DEF IndInv, DailyLimit
  <2> QED
    BY <2>1, <2>2, <2>3
<1>15. NonceMatchesHistory'
  <2> SUFFICES ASSUME NEW q \in Owners, NEW r \in SessionIds
               PROVE  Len(executed'[q][r]) =
                        IF session'[q][r] = NoSession
                        THEN 0 ELSE session'[q][r].nextNonce
    BY DEF NonceMatchesHistory
  <2>1. CASE q = o /\ r = s
    BY <1>9, <1>12, <2>1
  <2>2. CASE ~(q = o /\ r = s)
    BY <1>9, <1>10, <2>2 DEF IndInv, NonceMatchesHistory
  <2> QED
    BY <2>1, <2>2
<1>16. NoncesConsecutive'
  <2> SUFFICES ASSUME NEW q \in Owners, NEW r \in SessionIds,
                      NEW k \in 1..Len(executed'[q][r])
               PROVE  executed'[q][r][k].payload.nonce = k - 1
    BY DEF NoncesConsecutive
  <2>1. CASE q = o /\ r = s /\ k = ses.nextNonce + 1
    <3>1. executed'[q][r][k] = entry
      BY <1>12, <2>1
    <3>2. executed'[q][r][k].payload.nonce = p.nonce
      BY <3>1
    <3>3. k - 1 = ses.nextNonce
      BY <1>3, <2>1
    <3> QED
      BY <1>1, <3>2, <3>3
  <2>2. CASE q = o /\ r = s /\ k # ses.nextNonce + 1
    <3>1. k \in 1..(ses.nextNonce + 1)
      BY <1>12, <2>2
    <3>2. k \in 1..ses.nextNonce
      BY <1>3, <2>2, <3>1
    <3>3. executed'[q][r][k] = executed[o][s][k]
      BY <1>12, <2>2, <3>2
    <3>4. executed[o][s][k].payload.nonce = k - 1
      BY <1>2, <1>10, <3>2 DEF IndInv, NoncesConsecutive
    <3> QED
      BY <3>3, <3>4
  <2>3. CASE ~(q = o /\ r = s)
    BY <1>10, <2>3 DEF IndInv, NoncesConsecutive
  <2> QED
    BY <2>1, <2>2, <2>3
<1> QED
  BY <1>13, <1>14, <1>15, <1>16 DEF IndInv

\* Every step preserves the invariant.
LEMMA NextInd == IndInv /\ [Next]_vars => IndInv'
<1> SUFFICES ASSUME IndInv, [Next]_vars PROVE IndInv'
  OBVIOUS
<1>1. TypeOK'
  BY NextType DEF IndInv
<1>2. ASSUME NEW o \in Owners, NEW amount \in Deposits, Deposit(o, amount)
      PROVE  IndInv'
  BY <1>1, <1>2 DEF Deposit, IndInv, SpentMatchesHistory,
     NonceMatchesHistory, DailyLimit, NoncesConsecutive
<1>3. CASE UNCHANGED vars
  BY <1>1, <1>3 DEF vars, IndInv, SpentMatchesHistory,
     NonceMatchesHistory, DailyLimit, NoncesConsecutive
<1> QED
  BY <1>1, <1>2, <1>3, TickInd, InitializePolicyInd, SetKillSwitchInd,
     OpenSessionInd, CloseSessionInd, ExecuteTransferInd DEF Next

\* The inductive invariant holds in every reachable state.
THEOREM IndCorrect == Spec => []IndInv
BY InitInd, NextInd, PTL DEF Spec

\* For every set of owners, sessions and payloads, every limit and every day
\* length: no vault pays more than its limit on one day.
THEOREM DailyLimitHolds == Spec => []DailyLimit
<1>1. IndInv => DailyLimit
  BY DEF IndInv
<1> QED
  BY <1>1, IndCorrect, PTL

\* The transfers of a session carry the nonces 0, 1, 2, ...: no signed payload
\* executes twice in a session.
THEOREM NoncesConsecutiveHolds == Spec => []NoncesConsecutive
<1>1. IndInv => NoncesConsecutive
  BY DEF IndInv
<1> QED
  BY <1>1, IndCorrect, PTL

-----------------------------------------------------------------------------
(* What executed was authorised, and what ended stays ended.               *)

\* What a transfer leaves alone: every session but its own, and what its own
\* keeps; the history grows at the end of that session only.
LEMMA TransferSessionFrame ==
  ASSUME TypeOK, NEW o \in Owners, NEW p \in Payloads, NEW proof \in Proofs,
         ExecuteTransfer(o, p, proof)
  PROVE  /\ p.session \in SessionIds
         /\ session[o][p.session] \in Session
         /\ session[o][p.session].active
         /\ clock <= session[o][p.session].expiresAt
         /\ clock <= p.expiresAt
         /\ session'[o][p.session].active
         /\ session'[o][p.session].expiresAt = session[o][p.session].expiresAt
         /\ session'[o][p.session] # NoSession
         /\ executed'[o][p.session] =
              Append(executed[o][p.session], [payload |-> p, at |-> clock])
         /\ \A q \in Owners, r \in SessionIds : ~(q = o /\ r = p.session) =>
              /\ session'[q][r] = session[q][r]
              /\ executed'[q][r] = executed[q][r]
<1> DEFINE s == p.session
           ses == session[o][s]
<1>1. p \in Payload /\ s \in SessionIds
  BY InputsAssumption DEF Payload
<1>2. /\ ses # NoSession /\ ses.active
      /\ clock <= ses.expiresAt /\ clock <= p.expiresAt
      /\ executed' = [executed EXCEPT ![o][s] =
                        Append(@, [payload |-> p, at |-> clock])]
      /\ session' = [session EXCEPT ![o][s].nextNonce = @ + 1]
  BY DEF ExecuteTransfer, InWindow
<1>3. ses \in Session
  BY <1>1, <1>2 DEF TypeOK
<1>4. session'[o][s] = [ses EXCEPT !.nextNonce = ses.nextNonce + 1]
  BY <1>1, <1>2 DEF TypeOK
<1>5. /\ session'[o][s].active = ses.active
      /\ session'[o][s].expiresAt = ses.expiresAt
  BY <1>3, <1>4 DEF Session
<1>6. session'[o][s] \in Session
  <2>1. ses.nextNonce < U64Max
    BY DEF ExecuteTransfer
  <2>2. ses.nextNonce + 1 \in Amount
    BY <1>3, <2>1, ConstantsAssumption DEF Session, Amount
  <2> QED
    BY <1>3, <1>4, <2>2 DEF Session
<1>7. executed'[o][s] = Append(executed[o][s], [payload |-> p, at |-> clock])
  BY <1>1, <1>2 DEF TypeOK
<1>8. \A q \in Owners, r \in SessionIds : ~(q = o /\ r = s) =>
        session'[q][r] = session[q][r] /\ executed'[q][r] = executed[q][r]
  BY <1>1, <1>2 DEF TypeOK
<1> QED
  BY <1>1, <1>2, <1>3, <1>5, <1>6, <1>7, <1>8, InputsAssumption

\* A transfer changes no other owner's policy, and of its own neither the
\* parameters nor whether it exists.
LEMMA TransferPolicyFrame ==
  ASSUME TypeOK, TypeOK', NEW o \in Owners, NEW p \in Payloads,
         NEW proof \in Proofs, ExecuteTransfer(o, p, proof)
  PROVE  /\ policy[o] # NoPolicy /\ ~policy[o].kill
         /\ policy'[o] # NoPolicy /\ policy'[o].params = policy[o].params
         /\ \A q \in Owners \ {o} : policy'[q] = policy[q]
<1> DEFINE pol == policy[o]
           newSpend == RefreshedSpend(pol, clock) + p.amount
           today == Day(clock)
<1>1. /\ pol # NoPolicy /\ ~pol.kill
      /\ policy' = [policy EXCEPT ![o] =
           [pol EXCEPT !.spent = newSpend, !.lastDay = today]]
  BY DEF ExecuteTransfer, InWindow
<1>2. pol \in Policy
  BY <1>1 DEF TypeOK
<1> HIDE DEF newSpend, today
<1>3. /\ policy'[o] = [pol EXCEPT !.spent = newSpend, !.lastDay = today]
      /\ \A q \in Owners \ {o} : policy'[q] = policy[q]
  BY <1>1 DEF TypeOK
<1>4. policy'[o].params = pol.params
  BY <1>2, <1>3 DEF Policy
<1>5. policy'[o] # NoPolicy
  <2>1. DOMAIN policy'[o] = DOMAIN pol
    BY <1>3
  <2>2. [pol EXCEPT !.spent = newSpend, !.lastDay = today] \in Policy
        \/ policy'[o] = NoPolicy
    BY <1>3 DEF TypeOK
  <2>3. newSpend \in Amount
    <3>1. p \in Payload /\ p.amount \in Nat
      BY InputsAssumption, AmountNat DEF Payload
    <3>2. pol.spent \in Nat /\ pol.params.limit \in Amount
      BY <1>2, AmountNat DEF Policy, Params
    <3>3. newSpend \in Nat
      BY <3>1, <3>2 DEF RefreshedSpend, newSpend
    <3>4. newSpend <= pol.params.limit
      BY DEF ExecuteTransfer, newSpend
    <3> QED
      BY <3>2, <3>3, <3>4, ConstantsAssumption DEF Amount
  <2>4. today \in Int
    BY DayOfClock DEF today
  <2>5. policy'[o] \in Policy
    BY <1>2, <1>3, <2>3, <2>4 DEF Policy
  <2> QED
    BY <2>5, InputsAssumption
<1> QED
  BY <1>1, <1>3, <1>4, <1>5

\* A transfer takes lamports out of its own vault only, and out of that one
\* only while it is live; another owner's vault can only receive.
LEMMA TransferVaultFrame ==
  ASSUME TypeOK, NEW o \in Owners, NEW p \in Payloads, NEW proof \in Proofs,
         ExecuteTransfer(o, p, proof)
  PROVE  /\ \A q \in Owners \ {o} :
              /\ lamports'[VaultOf[q]] >= lamports[VaultOf[q]]
              /\ vaultLive'[q] = vaultLive[q]
         /\ ~vaultLive[o] => /\ lamports'[VaultOf[o]] >= lamports[VaultOf[o]]
                             /\ ~vaultLive'[o]
<1> DEFINE from == VaultOf[o]
           to == p.recipient
           balances == Moved(from, to, p.amount)
<1>1. /\ p.amount \in Nat /\ to \in Accounts /\ from \in Accounts
  BY InputsAssumption, AmountNat DEF Payload
<1>2. /\ lamports' = balances /\ lamports[from] >= p.amount
      /\ p.amount # 0 => vaultLive[o]
      /\ vaultLive' = [vaultLive EXCEPT ![o] = @ /\ balances[from] # 0]
  BY DEF ExecuteTransfer, RuntimeAccepts
<1>3. lamports \in [Accounts -> Nat]
  BY DEF TypeOK
<1>4. \A q \in Owners \ {o} : VaultOf[q] \in Accounts /\ VaultOf[q] # from
  BY VaultAssumption, VaultAccount
<1>5. \A a \in Accounts \ {from} : balances[a] >= lamports[a]
  BY <1>1, <1>3 DEF Moved
<1>6. p.amount = 0 => balances[from] >= lamports[from]
  BY <1>1, <1>3 DEF Moved
<1> HIDE DEF balances
<1>7. /\ \A q \in Owners \ {o} : vaultLive'[q] = vaultLive[q]
      /\ vaultLive'[o] = (vaultLive[o] /\ balances[from] # 0)
  BY <1>2, Zenon DEF TypeOK
<1> QED
  BY <1>1, <1>2, <1>4, <1>5, <1>6, <1>7

\* What the executed transfers of one session were checked against.
AuthorisedIn(o, s) ==
  \A k \in 1..Len(executed[o][s]) :
    LET p == executed[o][s][k].payload
        at == executed[o][s][k].at
        params == policy[o].params
    IN  /\ p.session = s
        /\ p \in SignedBy[params.verifier]
        /\ Allows(params.programs, p.program)
        /\ Allows(params.recipients, p.recipient)
        /\ at <= p.expiresAt
        /\ at <= session[o][s].expiresAt

\* A session that has executed a transfer exists, and so does its policy.
LEMMA ExecutedHasAccounts ==
  ASSUME IndInv, NEW o \in Owners, NEW s \in SessionIds, executed[o][s] # <<>>
  PROVE  session[o][s] # NoSession /\ policy[o] # NoPolicy
<1>1. executed[o][s] \in Seq([payload : Payloads, at : 0..MaxTime])
  BY DEF IndInv, TypeOK
<1>2. Len(executed[o][s]) # 0
  BY <1>1
<1>3. session[o][s] # NoSession
  BY <1>2 DEF IndInv, NonceMatchesHistory
<1> QED
  BY <1>3 DEF IndInv, SpentMatchesHistory

\* A step that leaves the history, the expiry and the parameters of a session
\* alone keeps what its transfers were checked against.
LEMMA AuthorisedFrame ==
  ASSUME IndInv, NEW o \in Owners, NEW s \in SessionIds, AuthorisedIn(o, s),
         executed'[o][s] = executed[o][s],
         executed[o][s] # <<>> =>
           /\ session'[o][s].expiresAt = session[o][s].expiresAt
           /\ policy'[o].params = policy[o].params
  PROVE  AuthorisedIn(o, s)'
<1>1. CASE executed[o][s] = <<>>
  BY <1>1 DEF AuthorisedIn
<1>2. CASE executed[o][s] # <<>>
  BY <1>2 DEF AuthorisedIn
<1> QED
  BY <1>1, <1>2

\* The transfer that executes was signed, allowed and in time; the earlier
\* ones of its session were checked against the same policy and expiry.
LEMMA TransferAuthorised ==
  ASSUME IndInv, IndInv', NEW o \in Owners, NEW p \in Payloads,
         NEW proof \in Proofs, ExecuteTransfer(o, p, proof),
         AuthorisedIn(o, p.session)
  PROVE  AuthorisedIn(o, p.session)'
<1> DEFINE s == p.session
           old == executed[o][s]
           entry == [payload |-> p, at |-> clock]
<1>1. TypeOK /\ TypeOK'
  BY DEF IndInv
<1>2. /\ s \in SessionIds
      /\ executed'[o][s] = Append(old, entry)
      /\ session'[o][s].expiresAt = session[o][s].expiresAt
      /\ clock <= session[o][s].expiresAt /\ clock <= p.expiresAt
  BY <1>1, TransferSessionFrame
<1>3. policy'[o].params = policy[o].params
  BY <1>1, TransferPolicyFrame
<1>4. /\ p \in SignedBy[policy[o].params.verifier]
      /\ Allows(policy[o].params.programs, p.program)
      /\ Allows(policy[o].params.recipients, p.recipient)
  BY DEF ExecuteTransfer, ProvenBy
<1>5. /\ old \in Seq([payload : Payloads, at : 0..MaxTime])
      /\ entry \in [payload : Payloads, at : 0..MaxTime]
  BY <1>1, <1>2 DEF TypeOK
<1>6. /\ Len(executed'[o][s]) = Len(old) + 1 /\ Len(old) \in Nat
      /\ \A k \in 1..Len(old) : executed'[o][s][k] = old[k]
      /\ executed'[o][s][Len(old) + 1] = entry
  <2> HIDE DEF entry, old
  <2> QED
    BY <1>2, <1>5
<1> SUFFICES ASSUME NEW k \in 1..Len(executed'[o][s])
             PROVE  LET q == executed'[o][s][k].payload
                        at == executed'[o][s][k].at
                        params == policy[o].params
                    IN  /\ q.session = s
                        /\ q \in SignedBy[params.verifier]
                        /\ Allows(params.programs, q.program)
                        /\ Allows(params.recipients, q.recipient)
                        /\ at <= q.expiresAt
                        /\ at <= session[o][s].expiresAt
  BY <1>2, <1>3 DEF AuthorisedIn
<1>7. CASE k = Len(old) + 1
  <2>1. executed'[o][s][k].payload = p /\ executed'[o][s][k].at = clock
    BY <1>6, <1>7
  <2> QED
    BY <1>2, <1>4, <2>1
<1>8. CASE k # Len(old) + 1
  <2>1. k \in 1..Len(old)
    BY <1>6, <1>8
  <2>2. executed'[o][s][k] = executed[o][s][k]
    BY <1>6, <2>1
  <2> QED
    BY <2>1, <2>2 DEF AuthorisedIn
<1> QED
  BY <1>7, <1>8

\* Every step keeps the history authorised, given the inductive invariant.
LEMMA NextAuthorised ==
  IndInv /\ IndInv' /\ ExecutedWasAuthorised /\ [Next]_vars
    => ExecutedWasAuthorised'
<1> SUFFICES ASSUME IndInv, IndInv', ExecutedWasAuthorised, [Next]_vars,
                    NEW q \in Owners, NEW r \in SessionIds
             PROVE  AuthorisedIn(q, r)'
  BY DEF ExecutedWasAuthorised, AuthorisedIn
<1>0. TypeOK /\ TypeOK' /\ AuthorisedIn(q, r)
  BY DEF IndInv, ExecutedWasAuthorised, AuthorisedIn
<1>1. executed[q][r] # <<>> => session[q][r] # NoSession /\ policy[q] # NoPolicy
  BY ExecutedHasAccounts
<1>2. CASE Tick
  BY <1>0, <1>2, AuthorisedFrame DEF Tick
<1>3. ASSUME NEW o \in Owners, NEW amount \in Deposits, Deposit(o, amount)
      PROVE  AuthorisedIn(q, r)'
  BY <1>0, <1>3, AuthorisedFrame DEF Deposit
<1>4. ASSUME NEW o \in Owners, NEW params \in PolicyParams,
             InitializePolicy(o, params)
      PROVE  AuthorisedIn(q, r)'
  <2>1. policy[q] # NoPolicy => policy'[q] = policy[q]
    BY <1>0, <1>4 DEF InitializePolicy, TypeOK
  <2> QED
    BY <1>0, <1>1, <1>4, <2>1, AuthorisedFrame DEF InitializePolicy
<1>5. ASSUME NEW o \in Owners, NEW active \in BOOLEAN, SetKillSwitch(o, active)
      PROVE  AuthorisedIn(q, r)'
  <2>1. policy[q] # NoPolicy => policy'[q].params = policy[q].params
    BY <1>0, <1>5 DEF SetKillSwitch, TypeOK, Policy
  <2> QED
    BY <1>0, <1>1, <1>5, <2>1, AuthorisedFrame DEF SetKillSwitch
<1>6. ASSUME NEW o \in Owners, NEW s \in SessionIds, OpenSession(o, s)
      PROVE  AuthorisedIn(q, r)'
  <2>1. session[q][r] # NoSession => session'[q][r] = session[q][r]
    BY <1>0, <1>6 DEF OpenSession, TypeOK
  <2> QED
    BY <1>0, <1>1, <1>6, <2>1, AuthorisedFrame DEF OpenSession
<1>7. ASSUME NEW o \in Owners, NEW s \in SessionIds, CloseSession(o, s)
      PROVE  AuthorisedIn(q, r)'
  <2>1. session[q][r] # NoSession =>
          session'[q][r].expiresAt = session[q][r].expiresAt
    BY <1>0, <1>7 DEF CloseSession, TypeOK, Session
  <2> QED
    BY <1>0, <1>1, <1>7, <2>1, AuthorisedFrame DEF CloseSession
<1>8. ASSUME NEW o \in Owners, NEW p \in Payloads, NEW proof \in Proofs,
             ExecuteTransfer(o, p, proof)
      PROVE  AuthorisedIn(q, r)'
  <2>1. CASE q = o /\ r = p.session
    BY <1>0, <1>8, <2>1, TransferAuthorised
  <2>2. CASE ~(q = o /\ r = p.session)
    <3>1. \A a \in Owners, b \in SessionIds : ~(a = o /\ b = p.session) =>
            session'[a][b] = session[a][b] /\ executed'[a][b] = executed[a][b]
      BY <1>0, <1>8, TransferSessionFrame
    <3>2. policy'[q].params = policy[q].params
      BY <1>0, <1>8, TransferPolicyFrame
    <3> QED
      BY <1>0, <2>2, <3>1, <3>2, AuthorisedFrame
  <2> QED
    BY <2>1, <2>2
<1>9. CASE UNCHANGED vars
  BY <1>0, <1>9, AuthorisedFrame DEF vars
<1> QED
  BY <1>2, <1>3, <1>4, <1>5, <1>6, <1>7, <1>8, <1>9 DEF Next

\* Whoever submits the transfers and in whatever order: each one that executed
\* was signed by the policy's verifier, named an allowed program and recipient,
\* and ran before its own expiry and its session's.
THEOREM ExecutedWasAuthorisedHolds == Spec => []ExecutedWasAuthorised
<1>1. Init => ExecutedWasAuthorised
  BY DEF Init, ExecutedWasAuthorised
<1> QED
  BY <1>1, IndCorrect, NextAuthorised, PTL DEF Spec

-----------------------------------------------------------------------------
(* What a step may never do.                                               *)

\* An ended session pays nothing in this step and is still ended after it.
StaysEnded(o, s) ==
  /\ session[o][s] # NoSession
  /\ ~session[o][s].active \/ clock > session[o][s].expiresAt
  => /\ executed'[o][s] = executed[o][s]
     /\ ~session'[o][s].active \/ clock' > session'[o][s].expiresAt

\* No step revives an ended session.
LEMMA NextStaysEnded ==
  ASSUME TypeOK, TypeOK', [Next]_vars, NEW q \in Owners, NEW r \in SessionIds
  PROVE  StaysEnded(q, r)
<1> SUFFICES ASSUME session[q][r] # NoSession,
                    ~session[q][r].active \/ clock > session[q][r].expiresAt
             PROVE  /\ executed'[q][r] = executed[q][r]
                    /\ ~session'[q][r].active \/ clock' > session'[q][r].expiresAt
  BY DEF StaysEnded
<1>1. session[q][r] \in Session /\ session[q][r].expiresAt \in Int /\ clock \in Int
  BY DEF TypeOK, Session
<1>2. CASE Tick
  BY <1>1, <1>2 DEF Tick
<1>3. ASSUME NEW o \in Owners, NEW amount \in Deposits, Deposit(o, amount)
      PROVE  UNCHANGED <<executed, session, clock>>
  BY <1>3 DEF Deposit
<1>4. ASSUME NEW o \in Owners, NEW params \in PolicyParams,
             InitializePolicy(o, params)
      PROVE  UNCHANGED <<executed, session, clock>>
  BY <1>4 DEF InitializePolicy
<1>5. ASSUME NEW o \in Owners, NEW active \in BOOLEAN, SetKillSwitch(o, active)
      PROVE  UNCHANGED <<executed, session, clock>>
  BY <1>5 DEF SetKillSwitch
<1>6. ASSUME NEW o \in Owners, NEW s \in SessionIds, OpenSession(o, s)
      PROVE  /\ UNCHANGED <<executed, clock>>
             /\ session'[q][r] = session[q][r]
  BY <1>6 DEF OpenSession, TypeOK
<1>7. ASSUME NEW o \in Owners, NEW s \in SessionIds, CloseSession(o, s)
      PROVE  /\ UNCHANGED <<executed, clock>>
             /\ \/ session'[q][r] = session[q][r]
                \/ ~session'[q][r].active
  <2>1. UNCHANGED <<executed, clock>>
    BY <1>7 DEF CloseSession
  <2>2. CASE q = o /\ r = s
    <3>1. session'[q][r] = [session[q][r] EXCEPT !.active = FALSE]
      BY <1>7, <2>2 DEF CloseSession, TypeOK
    <3> QED
      BY <1>1, <2>1, <3>1 DEF Session
  <2>3. CASE ~(q = o /\ r = s)
    BY <1>7, <2>1, <2>3 DEF CloseSession, TypeOK
  <2> QED
    BY <2>2, <2>3
<1>8. ASSUME NEW o \in Owners, NEW p \in Payloads, NEW proof \in Proofs,
             ExecuteTransfer(o, p, proof)
      PROVE  /\ executed'[q][r] = executed[q][r]
             /\ session'[q][r] = session[q][r]
             /\ clock' = clock
  <2>1. /\ session[o][p.session].active
        /\ clock <= session[o][p.session].expiresAt
        /\ \A a \in Owners, b \in SessionIds : ~(a = o /\ b = p.session) =>
             /\ session'[a][b] = session[a][b]
             /\ executed'[a][b] = executed[a][b]
    BY <1>8, TransferSessionFrame
  <2>2. ~(q = o /\ r = p.session)
    BY <1>1, <2>1
  <2>3. clock' = clock
    BY <1>8 DEF ExecuteTransfer
  <2> QED
    BY <2>1, <2>2, <2>3
<1>9. CASE UNCHANGED vars
  BY <1>9 DEF vars
<1> QED
  BY <1>2, <1>3, <1>4, <1>5, <1>6, <1>7, <1>8, <1>9 DEF Next

\* Closing a session, or letting it run out, is for good: no later submission
\* of a payload signed for it executes, and it cannot be opened again.
THEOREM EndedSessionIsFinalHolds == Spec => EndedSessionIsFinal
<1>1. TypeOK /\ TypeOK' /\ [Next]_vars =>
        [\A o \in Owners, s \in SessionIds :
           /\ session[o][s] # NoSession
           /\ ~session[o][s].active \/ clock > session[o][s].expiresAt
           => /\ executed'[o][s] = executed[o][s]
              /\ ~session'[o][s].active
                 \/ clock' > session'[o][s].expiresAt]_vars
  BY NextStaysEnded DEF StaysEnded
<1> QED
  BY <1>1, TypeCorrect, PTL DEF Spec, EndedSessionIsFinal

\* A step takes lamports out of no vault whose policy is missing or halted.
LEMMA NextHoldsVault ==
  ASSUME TypeOK, TypeOK', [Next]_vars, NEW q \in Owners,
         policy[q] = NoPolicy \/ policy[q].kill
  PROVE  lamports'[VaultOf[q]] >= lamports[VaultOf[q]]
<1>1. /\ VaultOf[q] \in Accounts /\ lamports \in [Accounts -> Nat]
      /\ lamports[VaultOf[q]] \in Nat
  BY VaultAccount DEF TypeOK
<1>2. ASSUME UNCHANGED lamports
      PROVE  lamports'[VaultOf[q]] >= lamports[VaultOf[q]]
  BY <1>1, <1>2
<1>3. CASE Tick \/ UNCHANGED vars
  BY <1>2, <1>3 DEF Tick, vars
<1>4. ASSUME NEW o \in Owners, NEW amount \in Deposits, Deposit(o, amount)
      PROVE  lamports'[VaultOf[q]] >= lamports[VaultOf[q]]
  BY <1>1, <1>4, AmountNat, VaultAccount DEF Deposit
<1>5. ASSUME NEW o \in Owners, NEW params \in PolicyParams,
             InitializePolicy(o, params)
      PROVE  lamports'[VaultOf[q]] >= lamports[VaultOf[q]]
  BY <1>1, <1>5, AmountNat, VaultAccount DEF InitializePolicy, AddressFree
<1>6. ASSUME NEW o \in Owners, NEW active \in BOOLEAN, SetKillSwitch(o, active)
      PROVE  UNCHANGED lamports
  BY <1>6 DEF SetKillSwitch
<1>7. ASSUME NEW o \in Owners, NEW s \in SessionIds,
             OpenSession(o, s) \/ CloseSession(o, s)
      PROVE  UNCHANGED lamports
  BY <1>7 DEF OpenSession, CloseSession
<1>8. ASSUME NEW o \in Owners, NEW p \in Payloads, NEW proof \in Proofs,
             ExecuteTransfer(o, p, proof)
      PROVE  lamports'[VaultOf[q]] >= lamports[VaultOf[q]]
  <2>1. q # o
    BY <1>8, TransferPolicyFrame
  <2> QED
    BY <1>8, <2>1, TransferVaultFrame
<1> QED
  BY <1>2, <1>3, <1>4, <1>5, <1>6, <1>7, <1>8 DEF Next

\* While the kill switch of an owner is on, and before his policy exists, his
\* vault can only gain.
THEOREM KillSwitchHoldsVaultHolds == Spec => KillSwitchHoldsVault
<1>1. TypeOK /\ TypeOK' /\ [Next]_vars =>
        [\A o \in Owners :
           policy[o] = NoPolicy \/ policy[o].kill
           => lamports'[VaultOf[o]] >= lamports[VaultOf[o]]]_vars
  BY NextHoldsVault
<1> QED
  BY <1>1, TypeCorrect, PTL DEF Spec, KillSwitchHoldsVault

\* A step neither revives a deleted vault nor takes lamports from its address.
LEMMA NextStranded ==
  ASSUME TypeOK, TypeOK', [Next]_vars, NEW q \in Owners,
         policy[q] # NoPolicy, ~vaultLive[q]
  PROVE  /\ ~vaultLive'[q]
         /\ lamports'[VaultOf[q]] >= lamports[VaultOf[q]]
<1>1. /\ VaultOf[q] \in Accounts /\ lamports \in [Accounts -> Nat]
      /\ lamports[VaultOf[q]] \in Nat
  BY VaultAccount DEF TypeOK
<1>2. ASSUME UNCHANGED <<lamports, vaultLive>>
      PROVE  /\ ~vaultLive'[q]
             /\ lamports'[VaultOf[q]] >= lamports[VaultOf[q]]
  BY <1>1, <1>2
<1>3. CASE Tick \/ UNCHANGED vars
  BY <1>2, <1>3 DEF Tick, vars
<1>4. ASSUME NEW o \in Owners, NEW amount \in Deposits, Deposit(o, amount)
      PROVE  /\ ~vaultLive'[q]
             /\ lamports'[VaultOf[q]] >= lamports[VaultOf[q]]
  BY <1>1, <1>4, AmountNat, VaultAccount DEF Deposit
<1>5. ASSUME NEW o \in Owners, NEW params \in PolicyParams,
             InitializePolicy(o, params)
      PROVE  /\ ~vaultLive'[q]
             /\ lamports'[VaultOf[q]] >= lamports[VaultOf[q]]
  <2>1. q # o /\ vaultLive'[q] = vaultLive[q]
    BY <1>5 DEF InitializePolicy, TypeOK
  <2> QED
    BY <1>1, <1>5, <2>1, AmountNat, VaultAccount DEF InitializePolicy, AddressFree
<1>6. ASSUME NEW o \in Owners, NEW active \in BOOLEAN, SetKillSwitch(o, active)
      PROVE  UNCHANGED <<lamports, vaultLive>>
  BY <1>6 DEF SetKillSwitch
<1>7. ASSUME NEW o \in Owners, NEW s \in SessionIds,
             OpenSession(o, s) \/ CloseSession(o, s)
      PROVE  UNCHANGED <<lamports, vaultLive>>
  BY <1>7 DEF OpenSession, CloseSession
<1>8. ASSUME NEW o \in Owners, NEW p \in Payloads, NEW proof \in Proofs,
             ExecuteTransfer(o, p, proof)
      PROVE  /\ ~vaultLive'[q]
             /\ lamports'[VaultOf[q]] >= lamports[VaultOf[q]]
  BY <1>8, TransferVaultFrame
<1> QED
  BY <1>2, <1>3, <1>4, <1>5, <1>6, <1>7, <1>8 DEF Next

\* A vault that a transfer has drained to nothing is gone for good, and what is
\* sent to its address afterwards can never be paid out.
THEOREM DrainedVaultIsStrandedHolds == Spec => DrainedVaultIsStranded
<1>1. TypeOK /\ TypeOK' /\ [Next]_vars =>
        [\A o \in Owners :
           policy[o] # NoPolicy /\ ~vaultLive[o]
           => /\ ~vaultLive'[o]
              /\ lamports'[VaultOf[o]] >= lamports[VaultOf[o]]]_vars
  BY NextStranded
<1> QED
  BY <1>1, TypeCorrect, PTL DEF Spec, DrainedVaultIsStranded

-----------------------------------------------------------------------------
(* The program implements the spending ledger.                             *)

\* The initial accounts map to an empty ledger.
LEMMA InitRefines == Init => Ledger!LedgerInit
<1> SUFFICES ASSUME Init PROVE Ledger!LedgerInit
  OBVIOUS
<1>1. Day(clock) \in Days
  BY InitType, DayOfClock
<1>2. Halted = [o \in Owners |-> FALSE]
  BY DEF Init, Halted
<1>3. Limit = [o \in Owners |-> 0]
  BY DEF Init, Limit
<1>4. Live = [o \in Owners |-> {}]
  BY DEF Init, Live
<1>5. Count = [o \in Owners |-> [s \in SessionIds |-> 0]]
  BY DEF Init, Count
<1> QED
  BY <1>1, <1>2, <1>3, <1>4, <1>5 DEF Init, Ledger!LedgerInit

\* Time passing only ends sessions.
LEMMA TickRefines ==
  ASSUME IndInv, IndInv', Tick
  PROVE  Ledger!PassTime
<1>1. clock \in Nat /\ clock' \in Nat /\ clock <= clock'
  BY ConstantsAssumption DEF IndInv, TypeOK, Tick
<1>2. Day(clock') \in Days /\ Day(clock') >= Day(clock)
  <2>1. Day(clock') \in Days
    <3>1. clock' \in 0..MaxTime
      BY DEF IndInv, TypeOK
    <3> QED
      BY <3>1 DEF Days
  <2>2. Day(clock) \in Nat /\ Day(clock') \in Nat /\ Day(clock) <= Day(clock')
    BY <1>1, DayMonotone
  <2> QED
    BY <2>1, <2>2
<1>3. UNCHANGED <<Halted, Limit, Count, paid>>
  BY DEF Tick, Halted, Limit, Count
<1>4. Live' \in [Owners -> SUBSET SessionIds]
  BY DEF Live
<1>5. ASSUME NEW o \in Owners, NEW s \in SessionIds, s \in Live'[o]
      PROVE  s \in Live[o]
  <2>1. /\ session[o][s] # NoSession /\ session[o][s].active
        /\ clock' <= session[o][s].expiresAt
    BY <1>5 DEF Live, Tick
  <2>2. session[o][s] \in Session
    BY <2>1 DEF IndInv, TypeOK
  <2>3. session[o][s].expiresAt \in Int
    BY <2>2 DEF Session
  <2>4. clock <= session[o][s].expiresAt
    BY <1>1, <2>1, <2>3
  <2> QED
    BY <2>1, <2>4 DEF Live
<1>6. \A o \in Owners : Live'[o] \subseteq Live[o]
  BY <1>4, <1>5
<1> QED
  BY <1>2, <1>3, <1>4, <1>6 DEF Ledger!PassTime

\* A new policy is a new limit: no session of it can be live yet.
LEMMA InitializePolicyRefines ==
  ASSUME IndInv, NEW o \in Owners, NEW params \in PolicyParams,
         InitializePolicy(o, params)
  PROVE  \E limit \in Amount : Ledger!SetLimit(o, limit)
<1> DEFINE fresh == [kill |-> FALSE, spent |-> 0, lastDay |-> Day(clock),
                     params |-> params]
<1>1. /\ policy[o] = NoPolicy
      /\ policy' = [policy EXCEPT ![o] = fresh]
      /\ UNCHANGED <<clock, session, paid>>
  BY DEF InitializePolicy
<1>2. params \in Params /\ params.limit \in Amount
  BY InputsAssumption DEF Params
<1>3. fresh # NoPolicy
  <2>1. Day(clock) \in Int
    BY DayOfClock DEF IndInv
  <2>2. fresh \in Policy
    BY <1>2, <2>1, ConstantsAssumption DEF Policy, Amount
  <2> QED
    BY <2>2, InputsAssumption
<1>4. policy'[o] = fresh /\ \A q \in Owners \ {o} : policy'[q] = policy[q]
  BY <1>1 DEF IndInv, TypeOK
<1>5. Live[o] = {}
  BY <1>1 DEF IndInv, SpentMatchesHistory, Live
<1>6. Limit' = [Limit EXCEPT ![o] = params.limit]
  <2>1. ASSUME NEW q \in Owners
        PROVE  Limit'[q] = IF q = o THEN params.limit ELSE Limit[q]
    BY <1>3, <1>4 DEF Limit
  <2>2. /\ Limit = [q \in Owners |-> Limit[q]]
        /\ Limit' = [q \in Owners |-> Limit'[q]]
    BY DEF Limit
  <2> QED
    BY <2>1, <2>2
<1>7. Halted' = Halted
  BY <1>1, <1>3, <1>4 DEF Halted
<1>8. Live' = Live /\ Count' = Count
  BY <1>1 DEF Live, Count
<1> QED
  BY <1>1, <1>2, <1>5, <1>6, <1>7, <1>8 DEF Ledger!SetLimit

\* The kill switch halts the ledger.
LEMMA SetKillSwitchRefines ==
  ASSUME IndInv, NEW o \in Owners, NEW active \in BOOLEAN,
         SetKillSwitch(o, active)
  PROVE  Ledger!Halt(o, active)
<1>1. /\ policy[o] # NoPolicy
      /\ UNCHANGED <<clock, session, paid>>
  BY DEF SetKillSwitch
<1>2. policy[o] \in Policy
  BY <1>1 DEF IndInv, TypeOK
<1>3. /\ policy'[o] = [policy[o] EXCEPT !.kill = active]
      /\ \A q \in Owners \ {o} : policy'[q] = policy[q]
  BY DEF SetKillSwitch, IndInv, TypeOK
<1>4. /\ policy'[o] \in Policy
      /\ policy'[o].kill = active
      /\ policy'[o].params = policy[o].params
  BY <1>2, <1>3 DEF Policy
<1>5. policy'[o] # NoPolicy
  BY <1>4, InputsAssumption
<1>6. Limit' = Limit
  BY <1>1, <1>3, <1>4, <1>5 DEF Limit
<1>7. Halted' = [Halted EXCEPT ![o] = active]
  BY <1>3, <1>4, <1>5 DEF Halted
<1>8. Live' = Live /\ Count' = Count
  BY <1>1 DEF Live, Count
<1> QED
  BY <1>1, <1>6, <1>7, <1>8 DEF Ledger!Halt

\* A session opens live, with no payment made.
LEMMA OpenSessionRefines ==
  ASSUME IndInv, NEW o \in Owners, NEW s \in SessionIds, OpenSession(o, s)
  PROVE  Ledger!Open(o, s)
<1> DEFINE opened == [active |-> TRUE,
               expiresAt |-> clock + policy[o].params.ttl * SecondsPerMinute,
               nextNonce |-> 0]
<1>1. /\ policy[o] # NoPolicy /\ session[o][s] = NoSession
      /\ UNCHANGED <<clock, policy, paid>>
  BY DEF OpenSession
<1>2. /\ session'[o][s] = opened
      /\ \A q \in Owners, r \in SessionIds :
           ~(q = o /\ r = s) => session'[q][r] = session[q][r]
  BY DEF OpenSession, IndInv, TypeOK
<1>3. opened \in Session /\ opened # NoSession
  <2>1. opened \in Session
    BY <1>1, OpenedIsSession DEF IndInv
  <2> QED
    BY <2>1, InputsAssumption
<1>4. clock <= opened.expiresAt
  <2>1. policy[o] \in Policy
    BY <1>1 DEF IndInv, TypeOK
  <2>2. policy[o].params.ttl \in Nat
    BY <2>1 DEF Policy, Params
  <2>3. policy[o].params.ttl * SecondsPerMinute \in Nat
    BY <2>2, ConstantsAssumption
  <2>4. clock \in Nat
    BY DEF IndInv, TypeOK
  <2> QED
    BY <2>3, <2>4
<1>5. Count[o][s] = 0
  BY <1>1 DEF Count
<1>6. Count' = Count
  <2>1. ASSUME NEW q \in Owners, NEW r \in SessionIds
        PROVE  (IF session'[q][r] = NoSession
                THEN 0 ELSE session'[q][r].nextNonce)
             = (IF session[q][r] = NoSession
                THEN 0 ELSE session[q][r].nextNonce)
    <3>1. CASE q = o /\ r = s
      BY <1>1, <1>2, <1>3, <3>1
    <3>2. CASE ~(q = o /\ r = s)
      BY <1>2, <3>2
    <3> QED
      BY <3>1, <3>2
  <2> QED
    BY <2>1 DEF Count
<1>7. Live' = [Live EXCEPT ![o] = @ \cup {s}]
  <2>1. ASSUME NEW q \in Owners
        PROVE  Live'[q] = IF q = o THEN Live[o] \cup {s} ELSE Live[q]
    <3>1. CASE q = o
      <4> HIDE DEF opened
      <4>1. opened.active
        BY DEF opened
      <4>2. \A r \in SessionIds \ {s} : session'[o][r] = session[o][r]
        BY <1>2
      <4> QED
        BY <1>1, <1>2, <1>3, <1>4, <3>1, <4>1, <4>2 DEF Live
    <3>2. CASE q # o
      <4>1. \A r \in SessionIds : session'[q][r] = session[q][r]
        BY <1>2, <3>2
      <4> QED
        BY <1>1, <3>2, <4>1 DEF Live
    <3> QED
      BY <3>1, <3>2
  <2>2. /\ Live = [q \in Owners |-> Live[q]]
        /\ Live' = [q \in Owners |-> Live'[q]]
    BY DEF Live
  <2> QED
    BY <2>1, <2>2
<1>8. Halted' = Halted /\ Limit' = Limit
  BY <1>1 DEF Halted, Limit
<1> QED
  BY <1>1, <1>5, <1>6, <1>7, <1>8 DEF Ledger!Open

\* Closing a session takes it out of the live ones.
LEMMA CloseSessionRefines ==
  ASSUME IndInv, NEW o \in Owners, NEW s \in SessionIds, CloseSession(o, s)
  PROVE  Ledger!Close(o, s)
<1>1. /\ policy[o] # NoPolicy /\ session[o][s] # NoSession
      /\ UNCHANGED <<clock, policy, paid>>
  BY DEF CloseSession
<1>2. session[o][s] \in Session
  BY <1>1 DEF IndInv, TypeOK
<1>3. /\ session'[o][s] = [session[o][s] EXCEPT !.active = FALSE]
      /\ \A q \in Owners, r \in SessionIds :
           ~(q = o /\ r = s) => session'[q][r] = session[q][r]
  BY DEF CloseSession, IndInv, TypeOK
<1>4. /\ session'[o][s] \in Session /\ session'[o][s] # NoSession
      /\ ~session'[o][s].active
      /\ session'[o][s].nextNonce = session[o][s].nextNonce
  <2>1. /\ session'[o][s] \in Session
        /\ ~session'[o][s].active
        /\ session'[o][s].nextNonce = session[o][s].nextNonce
    BY <1>2, <1>3 DEF Session
  <2> QED
    BY <2>1, InputsAssumption
<1>5. Count' = Count
  <2>1. ASSUME NEW q \in Owners, NEW r \in SessionIds
        PROVE  (IF session'[q][r] = NoSession
                THEN 0 ELSE session'[q][r].nextNonce)
             = (IF session[q][r] = NoSession
                THEN 0 ELSE session[q][r].nextNonce)
    <3>1. CASE q = o /\ r = s
      BY <1>1, <1>4, <3>1
    <3>2. CASE ~(q = o /\ r = s)
      BY <1>3, <3>2
    <3> QED
      BY <3>1, <3>2
  <2> QED
    BY <2>1 DEF Count
<1>6. Live' = [Live EXCEPT ![o] = @ \ {s}]
  <2>1. ASSUME NEW q \in Owners
        PROVE  Live'[q] = IF q = o THEN Live[o] \ {s} ELSE Live[q]
    <3>1. CASE q = o
      <4>1. \A r \in SessionIds \ {s} : session'[o][r] = session[o][r]
        BY <1>3
      <4> QED
        BY <1>1, <1>4, <3>1, <4>1 DEF Live
    <3>2. CASE q # o
      <4>1. \A r \in SessionIds : session'[q][r] = session[q][r]
        BY <1>3, <3>2
      <4> QED
        BY <1>1, <3>2, <4>1 DEF Live
    <3> QED
      BY <3>1, <3>2
  <2>2. /\ Live = [q \in Owners |-> Live[q]]
        /\ Live' = [q \in Owners |-> Live'[q]]
    BY DEF Live
  <2> QED
    BY <2>1, <2>2
<1>7. Halted' = Halted /\ Limit' = Limit
  BY <1>1 DEF Halted, Limit
<1> QED
  BY <1>1, <1>5, <1>6, <1>7 DEF Ledger!Close

\* A transfer is the next payment of its session: the up-to-date counter is
\* what was paid today, so the program's limit test is the ledger's.
LEMMA ExecuteTransferRefines ==
  ASSUME IndInv, IndInv', NEW o \in Owners, NEW p \in Payloads,
         NEW proof \in Proofs, ExecuteTransfer(o, p, proof)
  PROVE  /\ p.session \in SessionIds /\ p.amount \in Amount
         /\ Ledger!Pay(o, p.session, Count[o][p.session], p.amount)
<1> DEFINE pol == policy[o]
           s == p.session
           ses == session[o][s]
           today == Day(clock)
           newSpend == RefreshedSpend(pol, clock) + p.amount
<1>1. /\ pol # NoPolicy /\ ses # NoSession
      /\ ses.active /\ ~pol.kill /\ clock <= ses.expiresAt
      /\ newSpend <= pol.params.limit
      /\ UNCHANGED clock
      /\ paid' = [paid EXCEPT ![o][today] = @ + p.amount]
  BY DEF ExecuteTransfer, InWindow
<1>2. /\ s \in SessionIds /\ p.amount \in Amount /\ p.amount \in Nat
  BY InputsAssumption, AmountNat DEF Payload
<1>3. pol \in Policy /\ ses \in Session
  BY <1>1, <1>2 DEF IndInv, TypeOK
<1>4. /\ today \in Days /\ today \in Nat
      /\ pol.lastDay \in Days /\ pol.lastDay \in Nat /\ pol.lastDay <= today
      /\ paid[o][pol.lastDay] = pol.spent
      /\ \A d \in Days : d > pol.lastDay => paid[o][d] = 0
  BY <1>1, DayOfClock, DaysNat DEF IndInv, SpentMatchesHistory
<1>5. paid[o][today] = RefreshedSpend(pol, clock)
  <2>1. CASE pol.lastDay = today
    BY <1>4, <2>1 DEF RefreshedSpend
  <2>2. CASE pol.lastDay # today
    BY <1>4, <2>2 DEF RefreshedSpend
  <2> QED
    BY <2>1, <2>2
<1>6. paid[o][today] + p.amount <= Limit[o]
  BY <1>1, <1>5 DEF Limit
<1>7. ~Halted[o] /\ s \in Live[o]
  BY <1>1, <1>2 DEF Halted, Live
<1>8. /\ policy'[o].kill = pol.kill /\ policy'[o].params = pol.params
      /\ policy'[o] # NoPolicy
      /\ \A q \in Owners \ {o} : policy'[q] = policy[q]
  <2>1. policy' = [policy EXCEPT ![o] =
                    [pol EXCEPT !.spent = newSpend, !.lastDay = today]]
    BY DEF ExecuteTransfer, IndInv, TypeOK
  <2>2. policy'[o] = [pol EXCEPT !.spent = newSpend, !.lastDay = today]
    BY <2>1 DEF IndInv, TypeOK
  <2>3. \A q \in Owners \ {o} : policy'[q] = policy[q]
    BY <2>1 DEF IndInv, TypeOK
  <2>4. newSpend \in Amount
    <3>1. pol.spent \in Nat /\ pol.params.limit \in Amount
      BY <1>3, AmountNat DEF Policy, Params
    <3>2. newSpend \in Nat
      BY <1>2, <3>1 DEF RefreshedSpend
    <3> QED
      BY <1>1, <3>1, <3>2, ConstantsAssumption DEF Amount
  <2>5. /\ policy'[o] \in Policy
        /\ policy'[o].kill = pol.kill /\ policy'[o].params = pol.params
    <3>1. pol \in Policy /\ newSpend \in Amount /\ today \in Int
      BY <1>3, <1>4, <2>4
    <3> HIDE DEF newSpend, today, pol
    <3> QED
      BY <2>2, <3>1 DEF Policy
  <2> QED
    BY <2>3, <2>5, InputsAssumption
<1>9. /\ session'[o][s] \in Session /\ session'[o][s] # NoSession
      /\ session'[o][s].active = ses.active
      /\ session'[o][s].expiresAt = ses.expiresAt
      /\ session'[o][s].nextNonce = ses.nextNonce + 1
      /\ \A q \in Owners, r \in SessionIds :
           ~(q = o /\ r = s) => session'[q][r] = session[q][r]
  <2>1. session' = [session EXCEPT ![o][s] =
                      [ses EXCEPT !.nextNonce = ses.nextNonce + 1]]
    BY <1>2 DEF ExecuteTransfer, IndInv, TypeOK
  <2>2. session'[o][s] = [ses EXCEPT !.nextNonce = ses.nextNonce + 1]
    BY <1>2, <2>1 DEF IndInv, TypeOK
  <2>3. \A q \in Owners, r \in SessionIds :
          ~(q = o /\ r = s) => session'[q][r] = session[q][r]
    BY <1>2, <2>1 DEF IndInv, TypeOK
  <2>4. ses.nextNonce < U64Max /\ ses.nextNonce \in Amount
    BY <1>3 DEF ExecuteTransfer, Session
  <2>5. ses.nextNonce + 1 \in Amount
    BY <2>4, ConstantsAssumption DEF Amount
  <2>6. /\ session'[o][s] \in Session
        /\ session'[o][s].active = ses.active
        /\ session'[o][s].expiresAt = ses.expiresAt
        /\ session'[o][s].nextNonce = ses.nextNonce + 1
    BY <1>3, <2>2, <2>5 DEF Session
  <2> QED
    BY <2>3, <2>6, InputsAssumption
<1>10. Halted' = Halted /\ Limit' = Limit
  BY <1>1, <1>8 DEF Halted, Limit
<1>11. Live' = Live
  <2>1. ASSUME NEW q \in Owners, NEW r \in SessionIds
        PROVE  (/\ session'[q][r] # NoSession
                /\ session'[q][r].active
                /\ clock' <= session'[q][r].expiresAt)
           <=> (/\ session[q][r] # NoSession
                /\ session[q][r].active
                /\ clock <= session[q][r].expiresAt)
    <3>1. CASE q = o /\ r = s
      BY <1>1, <1>9, <3>1
    <3>2. CASE ~(q = o /\ r = s)
      BY <1>1, <1>9, <3>2
    <3> QED
      BY <3>1, <3>2
  <2> QED
    BY <2>1 DEF Live
<1>12. Count' = [Count EXCEPT ![o][s] = Count[o][s] + 1]
  <2>1. Count[o][s] = ses.nextNonce
    BY <1>1, <1>2 DEF Count
  <2>2. ASSUME NEW q \in Owners, NEW r \in SessionIds
        PROVE  Count'[q][r] =
                 IF q = o /\ r = s THEN Count[o][s] + 1 ELSE Count[q][r]
    <3>1. CASE q = o /\ r = s
      BY <1>9, <2>1, <3>1 DEF Count
    <3>2. CASE ~(q = o /\ r = s)
      BY <1>9, <3>2 DEF Count
    <3> QED
      BY <3>1, <3>2
  <2>3. /\ Count = [q \in Owners |-> [r \in SessionIds |-> Count[q][r]]]
        /\ Count' = [q \in Owners |-> [r \in SessionIds |-> Count'[q][r]]]
    BY DEF Count
  <2> HIDE DEF s
  <2> QED
    BY <2>2, <2>3
<1> QED
  BY <1>1, <1>2, <1>6, <1>7, <1>10, <1>11, <1>12 DEF Ledger!Pay

\* Every step of the program is a step of the ledger or changes nothing in it.
LEMMA NextRefines ==
  IndInv /\ IndInv' /\ [Next]_vars => [Ledger!LedgerNext]_(Ledger!ledgerVars)
<1> SUFFICES ASSUME IndInv, IndInv', [Next]_vars
             PROVE  [Ledger!LedgerNext]_(Ledger!ledgerVars)
  OBVIOUS
<1>1. CASE Tick
  BY <1>1, TickRefines DEF Ledger!LedgerNext
<1>2. ASSUME NEW o \in Owners, NEW amount \in Deposits, Deposit(o, amount)
      PROVE  UNCHANGED Ledger!ledgerVars
  BY <1>2 DEF Deposit, Ledger!ledgerVars, Halted, Limit, Live, Count
<1>3. ASSUME NEW o \in Owners, NEW params \in PolicyParams,
             InitializePolicy(o, params)
      PROVE  Ledger!LedgerNext
  BY <1>3, InitializePolicyRefines DEF Ledger!LedgerNext
<1>4. ASSUME NEW o \in Owners, NEW active \in BOOLEAN, SetKillSwitch(o, active)
      PROVE  Ledger!LedgerNext
  BY <1>4, SetKillSwitchRefines DEF Ledger!LedgerNext
<1>5. ASSUME NEW o \in Owners, NEW s \in SessionIds, OpenSession(o, s)
      PROVE  Ledger!LedgerNext
  BY <1>5, OpenSessionRefines DEF Ledger!LedgerNext
<1>6. ASSUME NEW o \in Owners, NEW s \in SessionIds, CloseSession(o, s)
      PROVE  Ledger!LedgerNext
  BY <1>6, CloseSessionRefines DEF Ledger!LedgerNext
<1>7. ASSUME NEW o \in Owners, NEW p \in Payloads, NEW proof \in Proofs,
             ExecuteTransfer(o, p, proof)
      PROVE  Ledger!LedgerNext
  BY <1>7, ExecuteTransferRefines DEF Ledger!LedgerNext
<1>8. CASE UNCHANGED vars
  BY <1>8 DEF vars, Ledger!ledgerVars, Halted, Limit, Live, Count
<1> QED
  BY <1>1, <1>2, <1>3, <1>4, <1>5, <1>6, <1>7, <1>8 DEF Next

\* The on-chain program implements the abstract spending ledger.
THEOREM ProgramImplementsLedger == Spec => ImplementsLedger
BY IndCorrect, InitRefines, NextRefines, PTL
DEF Spec, ImplementsLedger, Ledger!LedgerSpec

-----------------------------------------------------------------------------
(* Sums over finite sets.  A sum of natural numbers counts the units that   *)
(* make them up, and so has the laws of cardinalities.                     *)

\* A set of natural numbers that is not empty has a least one.
LEMMA LeastNat ==
  ASSUME NEW T, T \subseteq Nat, T # {}
  PROVE  \E m \in T : \A n \in T : m <= n
<1> DEFINE R == OpToRel(<, Nat)
<1>1. IsWellFoundedOn(R, Nat)
  BY NatLessThanWellFounded
<1>2. \A x \in Nat, y \in Nat : <<y, x>> \in R <=> y < x
  BY DEF OpToRel
<1> HIDE DEF R
<1>3. PICK m \in T : \A n \in T : ~(<<n, m>> \in R)
  BY <1>1, WFMin
<1>4. m \in Nat /\ \A n \in T : n \in Nat /\ ~(n < m)
  BY <1>2, <1>3
<1> QED
  BY <1>4

\* The units of the members of S, of which c has w[c].
Units(w, S) == UNION {{c} \X (1..w[c]) : c \in S}
Worth(w, S) == Cardinality(Units(w, S))

LEMMA UnitsFinite ==
  ASSUME NEW w, NEW S, IsFiniteSet(S), \A c \in S : w[c] \in Nat
  PROVE  IsFiniteSet(Units(w, S)) /\ Worth(w, S) \in Nat
<1> DEFINE f == [c \in S |-> {c} \X (1..w[c])]
           T == {{c} \X (1..w[c]) : c \in S}
<1>1. f \in Surjection(S, T)
  BY DEF Surjection
<1>2. IsFiniteSet(T)
  BY <1>1, FS_Surjection
<1>3. ASSUME NEW c \in S PROVE IsFiniteSet({c} \X (1..w[c]))
  <2>1. w[c] \in Int /\ 1 \in Int
    OBVIOUS
  <2>2. IsFiniteSet(1..w[c]) /\ IsFiniteSet({c})
    BY <2>1, FS_Interval, FS_Singleton
  <2> QED
    BY <2>2, FS_Product
<1>4. IsFiniteSet(UNION T)
  <2>1. \A X \in T : IsFiniteSet(X)
    BY <1>3
  <2> HIDE DEF T
  <2> QED
    BY <1>2, <2>1, FS_UNION
<1> QED
  BY <1>4, FS_CardinalityType DEF Units, Worth

\* One member more counts for what it is worth.
LEMMA CountAdds ==
  ASSUME NEW w, NEW S, IsFiniteSet(S), \A c \in S : w[c] \in Nat, NEW x \in S
  PROVE  Worth(w, S) = w[x] + Worth(w, S \ {x})
<1> DEFINE X == {x} \X (1..w[x])
           Y == Units(w, S \ {x})
<1>1. IsFiniteSet(S \ {x}) /\ \A c \in S \ {x} : w[c] \in Nat
  BY FS_RemoveElement
<1>2. IsFiniteSet(Y) /\ Cardinality(Y) \in Nat
  BY <1>1, UnitsFinite, Zenon DEF Worth
<1>3. IsFiniteSet(X) /\ Cardinality(X) = w[x]
  <2>1. IsFiniteSet(1..w[x]) /\ Cardinality(1..w[x]) = w[x]
    BY FS_Interval
  <2>2. IsFiniteSet({x}) /\ Cardinality({x}) = 1
    BY FS_Singleton
  <2>3. IsFiniteSet(X) /\ Cardinality(X) = Cardinality({x}) * Cardinality(1..w[x])
    BY <2>1, <2>2, FS_Product
  <2> QED
    BY <2>1, <2>2, <2>3
<1>4. Units(w, S) = X \union Y /\ X \intersect Y = {}
  <2>1. \A p \in X : p[1] = x
    OBVIOUS
  <2>2. \A p \in Y : p[1] # x
    BY DEF Units
  <2>3. Units(w, S) = X \union Y
    BY DEF Units
  <2> QED
    BY <2>1, <2>2, <2>3
<1> HIDE DEF X, Y
<1>5. Cardinality(X \union Y) = Cardinality(X) + Cardinality(Y) - Cardinality(X \intersect Y)
  BY <1>2, <1>3, FS_Union
<1>6. Cardinality(X \union Y) = w[x] + Cardinality(Y)
  <2>1. Cardinality(X \intersect Y) = 0
    BY <1>4, FS_EmptySet
  <2>2. w[x] \in Nat
    OBVIOUS
  <2> QED
    BY <1>2, <1>3, <1>5, <2>1, <2>2
<1> QED
  BY <1>4, <1>6, Zenon DEF Worth, Y

\* f has the sums of w over the subsets of T, added up one member at a time.
One(S) == CHOOSE x \in S : TRUE
Adds(f, w, T) ==
  f = [s \in SUBSET T |-> IF s = {} THEN 0 ELSE w[One(s)] + f[s \ {One(s)}]]

LEMMA OneIsMember ==
  ASSUME NEW S, S # {}
  PROVE  One(S) \in S
BY DEF One

LEMMA CountsAdd ==
  ASSUME NEW w, NEW T, IsFiniteSet(T), \A c \in T : w[c] \in Nat
  PROVE  Adds([s \in SUBSET T |-> Worth(w, s)], w, T)
<1> DEFINE f == [s \in SUBSET T |-> Worth(w, s)]
<1>1. ASSUME NEW s \in SUBSET T
      PROVE  Worth(w, s) = IF s = {} THEN 0 ELSE w[One(s)] + f[s \ {One(s)}]
  <2>1. CASE s = {}
    BY <2>1, FS_EmptySet DEF Worth, Units
  <2>2. CASE s # {}
    <3>1. One(s) \in s /\ s \ {One(s)} \in SUBSET T
      BY <2>2, OneIsMember
    <3>2. IsFiniteSet(s) /\ \A c \in s : w[c] \in Nat
      BY FS_Subset
    <3>3. Worth(w, s) = w[One(s)] + Worth(w, s \ {One(s)})
      BY <3>1, <3>2, CountAdds
    <3> QED
      BY <2>2, <3>1, <3>3
  <2> QED
    BY <2>1, <2>2
<1> QED
  BY <1>1 DEF Adds

LEMMA AddsCounts ==
  ASSUME NEW w, NEW T, IsFiniteSet(T), \A c \in T : w[c] \in Nat,
         NEW f, Adds(f, w, T)
  PROVE  f[T] = Worth(w, T)
<1> DEFINE Bad == {s \in SUBSET T : f[s] # Worth(w, s)}
<1>0. ASSUME NEW s \in SUBSET T
      PROVE  /\ IsFiniteSet(s) /\ Cardinality(s) \in Nat /\ \A c \in s : w[c] \in Nat
             /\ f[s] = IF s = {} THEN 0 ELSE w[One(s)] + f[s \ {One(s)}]
  BY FS_Subset, FS_CardinalityType DEF Adds
<1>1. SUFFICES ASSUME Bad # {} PROVE FALSE
  OBVIOUS
<1> DEFINE Sizes == {Cardinality(s) : s \in Bad}
<1>2. Sizes \subseteq Nat /\ Sizes # {}
  BY <1>0, <1>1
<1> HIDE DEF Sizes
<1>3. PICK n \in Sizes : \A m \in Sizes : n <= m
  BY <1>2, LeastNat
<1> USE DEF Sizes
<1>4. PICK s \in Bad : n = Cardinality(s)
  BY <1>3
<1>5. s \in SUBSET T /\ f[s] # Worth(w, s) /\ \A r \in Bad : Cardinality(s) <= Cardinality(r)
  BY <1>3, <1>4
<1>6. s # {}
  BY <1>0, <1>5, FS_EmptySet DEF Worth, Units
<1> DEFINE x == One(s)
           r == s \ {x}
<1>7. x \in s /\ r \in SUBSET T
  BY <1>5, <1>6, OneIsMember
<1>8. f[s] = w[x] + f[r]
  BY <1>0, <1>5, <1>6
<1>9. Worth(w, s) = w[x] + Worth(w, r)
  <2>1. IsFiniteSet(s) /\ \A c \in s : w[c] \in Nat
    BY <1>0, <1>5
  <2> QED
    BY <1>7, <2>1, CountAdds
<1>10. r \in Bad
  BY <1>5, <1>7, <1>8, <1>9
<1>11. Cardinality(r) = Cardinality(s) - 1
  BY <1>0, <1>5, <1>7, FS_RemoveElement
<1>12. Cardinality(s) \in Nat
  BY <1>0, <1>5
<1> HIDE DEF Bad
<1> QED
  BY <1>5, <1>10, <1>11, <1>12

\* Only what the members are worth matters, ...
LEMMA CountSame ==
  ASSUME NEW v, NEW w, NEW S, \A c \in S : v[c] = w[c]
  PROVE  Worth(v, S) = Worth(w, S)
BY DEF Worth, Units

\* The sum of a function of the model.
LEMMA SumCounts ==
  ASSUME NEW w, NEW T, IsFiniteSet(T), \A c \in T : w[c] \in Nat
  PROVE  SumFunctionOnSet(w, T) = Worth(w, T)
<1> DEFINE Sums(f) ==
             f = [s \in SUBSET T |-> IF s = {} THEN 0
                   ELSE w[CHOOSE x \in s : TRUE] + f[s \ {CHOOSE x \in s : TRUE}]]
           F == CHOOSE f : Sums(f)
<1>1. SumFunctionOnSet(w, T) = F[T]
  BY Zenon DEF SumFunctionOnSet, FoldFunctionOnSet, MapThenFoldSet
<1>2. ASSUME NEW f PROVE Sums(f) <=> Adds(f, w, T)
  BY DEF Adds, One
<1> HIDE DEF F
<1>3. Adds([s \in SUBSET T |-> Worth(w, s)], w, T)
  BY CountsAdd
<1>4. \E f : Sums(f)
  BY <1>2, <1>3
<1> HIDE DEF Sums
<1>5. Sums(F)
  BY <1>4, Zenon DEF F
<1>6. Adds(F, w, T)
  BY <1>2, <1>5
<1> QED
  BY <1>1, <1>6, AddsCounts

\* One balance that changes changes the sum by as much.
LEMMA SumChanges ==
  ASSUME NEW w \in [Accounts -> Nat], NEW x \in Accounts, NEW n \in Nat
  PROVE  /\ SumFunction([w EXCEPT ![x] = n]) = SumFunction(w) - w[x] + n
         /\ SumFunction(w) \in Nat
<1> DEFINE v == [w EXCEPT ![x] = n]
           A == Accounts \ {x}
<1>1. /\ v \in [Accounts -> Nat] /\ v[x] = n /\ \A c \in A : v[c] = w[c]
      /\ DOMAIN v = Accounts /\ DOMAIN w = Accounts
  OBVIOUS
<1>2. IsFiniteSet(Accounts) /\ IsFiniteSet(A)
  BY InputsAssumption, FS_RemoveElement
<1> HIDE DEF v
<1>3. /\ \A c \in Accounts : w[c] \in Nat /\ v[c] \in Nat
      /\ \A c \in A : w[c] \in Nat
  BY <1>1
<1>4. SumFunction(v) = Worth(v, Accounts) /\ SumFunction(w) = Worth(w, Accounts)
  BY <1>1, <1>2, <1>3, SumCounts DEF SumFunction
<1>5. Worth(v, Accounts) = n + Worth(v, A) /\ Worth(w, Accounts) = w[x] + Worth(w, A)
  BY <1>1, <1>2, <1>3, CountAdds
<1>6. Worth(v, A) = Worth(w, A)
  BY <1>1, CountSame
<1>7. Worth(w, A) \in Nat /\ Worth(w, Accounts) \in Nat
  BY <1>2, <1>3, UnitsFinite
<1>8. w[x] \in Nat
  OBVIOUS
<1> QED
  BY <1>4, <1>5, <1>6, <1>7, <1>8 DEF v

-----------------------------------------------------------------------------
(* The lamports.                                                           *)

LEMMA InitConserved == Init => LamportsConserved
<1> SUFFICES ASSUME Init PROVE LamportsConserved
  OBVIOUS
<1> DEFINE wallets == Accounts \ Vaults
<1>1. IsFiniteSet(wallets) /\ VaultRent \in Nat /\ 1 \in Int /\ IsFiniteSet(Accounts)
  <2>1. IsFiniteSet(Accounts)
    BY InputsAssumption
  <2>2. IsFiniteSet(wallets)
    BY <2>1, FS_Difference
  <2> QED
    BY <2>1, <2>2, ConstantsAssumption DEF Amount
<1>2. /\ lamports = [a \in Accounts |-> IF a \in Vaults THEN 0 ELSE VaultRent]
      /\ funded = 0
  BY DEF Init
<1>3. Units(lamports, Accounts) = wallets \X (1..VaultRent)
  BY <1>1, <1>2 DEF Units
<1>4. IsFiniteSet(1..VaultRent) /\ Cardinality(1..VaultRent) = VaultRent
  BY <1>1, FS_Interval
<1>5. Cardinality(wallets \X (1..VaultRent)) = Cardinality(wallets) * VaultRent
  BY <1>1, <1>4, FS_Product
<1>6. DOMAIN lamports = Accounts /\ \A a \in Accounts : lamports[a] \in Nat
  BY <1>1, <1>2
<1>7. SumFunction(lamports) = Cardinality(wallets) * VaultRent
  BY <1>1, <1>3, <1>5, <1>6, SumCounts DEF SumFunction, Worth
<1>8. Cardinality(wallets) \in Nat
  BY <1>1, FS_CardinalityType
<1> HIDE DEF wallets
<1>9. Cardinality(wallets) * VaultRent = 0 + VaultRent * Cardinality(wallets)
  BY <1>1, <1>8
<1> QED
  BY <1>2, <1>7, <1>9 DEF LamportsConserved, wallets

\* A transfer takes from the vault what it gives the recipient, who may be the vault.
LEMMA TransferConserves ==
  ASSUME TypeOK, NEW o \in Owners, NEW p \in Payloads, NEW proof \in Proofs,
         ExecuteTransfer(o, p, proof)
  PROVE  SumFunction(lamports') = SumFunction(lamports)
<1> DEFINE from == VaultOf[o]
           to == p.recipient
           debited == [lamports EXCEPT ![from] = lamports[from] - p.amount]
           credited == [debited EXCEPT ![to] = debited[to] + p.amount]
<1>1. /\ p.amount \in Nat /\ to \in Accounts /\ from \in Accounts
  BY InputsAssumption, AmountNat DEF Payload
<1>2. lamports' = credited /\ lamports[from] >= p.amount
  BY DEF ExecuteTransfer, Moved
<1>3. lamports \in [Accounts -> Nat]
  BY DEF TypeOK
<1>4. lamports[from] \in Nat /\ lamports[from] - p.amount \in Nat
  BY <1>1, <1>2, <1>3
<1>5. debited \in [Accounts -> Nat]
  BY <1>1, <1>3, <1>4
<1>6. /\ SumFunction(debited) = SumFunction(lamports) - lamports[from] + (lamports[from] - p.amount)
      /\ SumFunction(lamports) \in Nat
  BY <1>1, <1>3, <1>4, SumChanges
<1> HIDE DEF debited
<1>7. debited[to] \in Nat /\ debited[to] + p.amount \in Nat
  BY <1>1, <1>5
<1>8. SumFunction(credited) = SumFunction(debited) - debited[to] + (debited[to] + p.amount)
      /\ SumFunction(debited) \in Nat
  BY <1>1, <1>5, <1>7, SumChanges
<1> HIDE DEF credited
<1> QED
  BY <1>1, <1>2, <1>4, <1>6, <1>7, <1>8

LEMMA NextConserves ==
  ASSUME TypeOK, LamportsConserved, [Next]_vars
  PROVE  LamportsConserved'
<1> DEFINE base == VaultRent * Cardinality(Accounts \ Vaults)
<1>0. /\ SumFunction(lamports) = funded + base
      /\ lamports \in [Accounts -> Nat] /\ funded \in Nat /\ base \in Nat
  <2>1. Cardinality(Accounts \ Vaults) \in Nat
    BY InputsAssumption, FS_Difference, FS_CardinalityType
  <2> QED
    BY <2>1, ConstantsAssumption DEF TypeOK, LamportsConserved, Amount
<1> SUFFICES SumFunction(lamports') = funded' + base
  BY DEF LamportsConserved, SumFunction, Vaults
<1> HIDE DEF base
<1>1. CASE UNCHANGED <<lamports, funded>>
  BY <1>0, <1>1
<1>2. ASSUME NEW o \in Owners, NEW amount \in Deposits, Deposit(o, amount)
      PROVE  SumFunction(lamports') = funded' + base
  <2> DEFINE x == VaultOf[o]
  <2>1. x \in Accounts /\ amount \in Nat /\ lamports[x] \in Nat
    BY <1>0, AmountNat, VaultAccount, ConstantsAssumption
  <2>2. lamports' = [lamports EXCEPT ![x] = lamports[x] + amount] /\ funded' = funded + amount
    BY <1>2 DEF Deposit
  <2> HIDE DEF x
  <2>3. lamports[x] + amount \in Nat
    BY <2>1
  <2>4. SumFunction(lamports') = SumFunction(lamports) - lamports[x] + (lamports[x] + amount)
    BY <1>0, <2>1, <2>2, <2>3, SumChanges
  <2>5. SumFunction(lamports) - lamports[x] + (lamports[x] + amount) = SumFunction(lamports) + amount
    BY <1>0, <2>1
  <2> QED
    BY <1>0, <2>1, <2>2, <2>4, <2>5
<1>3. ASSUME NEW o \in Owners, NEW params \in PolicyParams, InitializePolicy(o, params)
      PROVE  SumFunction(lamports') = funded' + base
  <2> DEFINE x == VaultOf[o]
  <2>1. x \in Accounts /\ VaultRent \in Nat /\ lamports[x] = 0
    BY <1>3, VaultAccount, ConstantsAssumption DEF InitializePolicy, AddressFree, Amount
  <2>2. lamports' = [lamports EXCEPT ![x] = VaultRent] /\ funded' = funded + VaultRent
    BY <1>3 DEF InitializePolicy
  <2> HIDE DEF x
  <2>3. SumFunction(lamports') = SumFunction(lamports) - lamports[x] + VaultRent
    BY <1>0, <2>1, <2>2, SumChanges
  <2> QED
    BY <1>0, <2>1, <2>2, <2>3
<1>4. ASSUME NEW o \in Owners, NEW p \in Payloads, NEW proof \in Proofs,
             ExecuteTransfer(o, p, proof)
      PROVE  SumFunction(lamports') = funded' + base
  <2>1. funded' = funded
    BY <1>4 DEF ExecuteTransfer
  <2> QED
    BY <1>0, <1>4, <2>1, TransferConserves
<1>5. \/ UNCHANGED <<lamports, funded>>
      \/ \E o \in Owners :
           \/ \E amount \in Deposits : Deposit(o, amount)
           \/ \E params \in PolicyParams : InitializePolicy(o, params)
           \/ \E p \in Payloads, proof \in Proofs : ExecuteTransfer(o, p, proof)
  BY DEF Next, vars, Tick, SetKillSwitch, OpenSession, CloseSession
<1> QED
  BY <1>1, <1>2, <1>3, <1>4, <1>5

\* Whatever is deposited, initialised and transferred, also from a vault to itself, no
\* lamport is made or lost.
THEOREM LamportsConservedHolds == Spec => []LamportsConserved
BY InitConserved, NextConserves, TypeCorrect, PTL DEF Spec
=============================================================================
