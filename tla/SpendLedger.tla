---------------------------- MODULE SpendLedger ----------------------------
(***************************************************************************)
(* What the on-chain policy program promises the owner of a vault, with no *)
(* mention of how it keeps the promise: payments are drawn from sessions   *)
(* that are open, numbered 0, 1, 2, ... within each session, and the       *)
(* payments of one day never exceed the owner's daily limit.  There is no  *)
(* spent counter, no lazy reset and no signature here.                     *)
(***************************************************************************)
EXTENDS Integers

CONSTANTS
  Owners,        \* owners of a policy
  SessionIds,    \* 32-byte session identifiers
  Days,          \* calendar days
  Amounts        \* lamport amounts

VARIABLES
  today,         \* the current day
  halted,        \* halted[o]: the owner pressed the kill switch
  limit,         \* limit[o]: lamports per day, 0 before the policy exists
  live,          \* live[o]: sessions that may still pay
  count,         \* count[o][s]: payments session s has made
  paidOn         \* paidOn[o][d]: lamports paid out on day d

ledgerVars == <<today, halted, limit, live, count, paidOn>>

LedgerInit ==
  /\ today \in Days
  /\ halted = [o \in Owners |-> FALSE]
  /\ limit = [o \in Owners |-> 0]
  /\ live = [o \in Owners |-> {}]
  /\ count = [o \in Owners |-> [s \in SessionIds |-> 0]]
  /\ paidOn = [o \in Owners |-> [d \in Days |-> 0]]

\* Time passes; sessions may run out, none comes alive by itself.
PassTime ==
  /\ today' \in {d \in Days : d >= today}
  /\ live' \in [Owners -> SUBSET SessionIds]
  /\ \A o \in Owners : live'[o] \subseteq live[o]
  /\ UNCHANGED <<halted, limit, count, paidOn>>

\* The owner fixes the daily limit.
SetLimit(o, lamports) ==
  /\ live[o] = {}
  /\ limit' = [limit EXCEPT ![o] = lamports]
  /\ UNCHANGED <<today, halted, live, count, paidOn>>

Halt(o, active) ==
  /\ halted' = [halted EXCEPT ![o] = active]
  /\ UNCHANGED <<today, limit, live, count, paidOn>>

\* A session opens once, before it has paid anything.
Open(o, s) ==
  /\ count[o][s] = 0
  /\ live' = [live EXCEPT ![o] = @ \cup {s}]
  /\ UNCHANGED <<today, halted, limit, count, paidOn>>

Close(o, s) ==
  /\ live' = [live EXCEPT ![o] = @ \ {s}]
  /\ UNCHANGED <<today, halted, limit, count, paidOn>>

\* The n-th payment of session s.
Pay(o, s, n, lamports) ==
  /\ ~halted[o]
  /\ s \in live[o]
  /\ n = count[o][s]
  /\ paidOn[o][today] + lamports <= limit[o]
  /\ count' = [count EXCEPT ![o][s] = n + 1]
  /\ paidOn' = [paidOn EXCEPT ![o][today] = @ + lamports]
  /\ UNCHANGED <<today, halted, limit, live>>

LedgerNext ==
  \/ PassTime
  \/ \E o \in Owners :
       \/ \E lamports \in Amounts : SetLimit(o, lamports)
       \/ \E active \in BOOLEAN : Halt(o, active)
       \/ \E s \in SessionIds :
            \/ Open(o, s)
            \/ Close(o, s)
            \/ \E lamports \in Amounts : Pay(o, s, count[o][s], lamports)

LedgerSpec == LedgerInit /\ [][LedgerNext]_ledgerVars
=============================================================================
