------------------------------- MODULE Funding -------------------------------
(***************************************************************************)
(* DevnetFundingService over RpcClient and TransactionService: calls that  *)
(* put lamports into a wallet, from the treasury if it can pay, from the   *)
(* faucet otherwise, or from both.                                         *)
(*                                                                         *)
(* RpcFailoverClient repeats every request that errs, on every endpoint;   *)
(* an error says nothing of whether the request took effect.  A repeated   *)
(* transfer is the same signed transaction, which the ledger takes once; a *)
(* repeated airdrop is another airdrop.                                    *)
(*                                                                         *)
(* `credited', `refused' and `paid' are history variables: no guard reads  *)
(* them.                                                                   *)
(***************************************************************************)
EXTENDS Integers, FiniteSets

CONSTANTS
  Calls,               \* funding calls, of one process or several
  Amounts,             \* lamports they are asked for
  LAMPORTS_PER_SOL,    \* the faucet's limit for one request
  Reserve,             \* TREASURY_MINIMUM_REMAINING_LAMPORTS
  Fee,                 \* of a transaction, paid by the treasury
  Treasuries,          \* lamports the treasury may start with; -1: no treasury
  FaucetAttempts,      \* attempts for one chunk (5)
  RpcTries,            \* tries of one request: 1 without a fallback endpoint,
                       \* maxRetries on each of two with one
  WaitAttempts         \* polls of waitForMinimumBalance

ASSUME ConstantsAssumption ==
  /\ IsFiniteSet(Calls)
  /\ Amounts \subseteq Nat
  /\ LAMPORTS_PER_SOL \in Nat \ {0}
  /\ Reserve \in Nat
  /\ Fee \in Nat
  /\ Treasuries \subseteq Nat \union {-1}
  /\ FaucetAttempts \in Nat \ {0}
  /\ RpcTries \in Nat \ {0}
  /\ WaitAttempts \in Nat

VARIABLES
  treasury,  \* lamports of the treasury wallet, -1 when none is configured
  balance,   \* lamports of the recipient
  pc,        \* pc[c]: what the call c waits for
  amount,    \* amount[c]: lamports it was asked for
  tx,        \* tx[c]: its treasury transfer, and what became of it
  drop,      \* drop[c]: its requestAirdrop loop
  guarded,   \* guarded[c]: it runs inside the try of fundFromTreasuryOrAirdrop
  polls,     \* polls[c]: balances read by waitForMinimumBalance
  credited,  \* history: credited[c], lamports it brought to the recipient
  refused,   \* history: refused[c], lamports whose transaction it confirmed though
             \* the ledger had refused it
  paid       \* history: paid[c], lamports it took from the treasury

vars == <<treasury, balance, pc, amount, tx, drop, guarded, polls, credited, refused, paid>>

NoTx == [state |-> "none", lamports |-> 0]
Attempting(lamports, number) == [left |-> lamports, attempt |-> number, last |-> "dropped"]
Asking(lamports) == Attempting(lamports, 0)

Init ==
  /\ treasury \in Treasuries
  /\ balance = 0
  /\ pc = [c \in Calls |-> "idle"]
  /\ amount = [c \in Calls |-> 0]
  /\ tx = [c \in Calls |-> NoTx]
  /\ drop = [c \in Calls |-> Asking(0)]
  /\ guarded = [c \in Calls |-> FALSE]
  /\ polls = [c \in Calls |-> 0]
  /\ credited = [c \in Calls |-> 0]
  /\ refused = [c \in Calls |-> 0]
  /\ paid = [c \in Calls |-> 0]

Minimum(a, b) == IF a < b THEN a ELSE b

\* The lamports of the next airdrop request.
Chunk(c) == Minimum(drop[c].left, LAMPORTS_PER_SOL)

\* The call counts lamports of a transaction that ended in this state.
Counts(c, state, lamports) ==
  refused' = [refused EXCEPT ![c] = @ + (IF state = "erred" THEN lamports ELSE 0)]

Goto(c, label) == pc' = [pc EXCEPT ![c] = label]

\* requestAirdrop begins: nothing to request ends it at once, with no signature.
StartFaucet(c, lamports) ==
  /\ drop' = [drop EXCEPT ![c] = Asking(lamports)]
  /\ Goto(c, IF lamports = 0 THEN "failed" ELSE "request")

\* An error inside the try is swallowed and the whole amount asked of the faucet;
\* outside it the call rejects.
Reject(c) ==
  /\ guarded' = [guarded EXCEPT ![c] = FALSE]
  /\ IF guarded[c] THEN StartFaucet(c, amount[c])
     ELSE Goto(c, "failed") /\ UNCHANGED drop

-----------------------------------------------------------------------------
(* The entry points.                                                       *)

Fund(c, lamports) ==
  /\ amount' = [amount EXCEPT ![c] = lamports]
  /\ IF treasury # -1
       THEN /\ guarded' = [guarded EXCEPT ![c] = TRUE]
            /\ Goto(c, "readTreasury")
            /\ UNCHANGED drop
       ELSE StartFaucet(c, lamports) /\ UNCHANGED guarded

fundExactSol(c) ==
  /\ pc[c] = "idle"
  /\ \E lamports \in Amounts : Fund(c, lamports)
  /\ UNCHANGED <<treasury, balance, tx, polls, credited, refused, paid>>

\* The balance is read first, and what is missing is asked for.
ensureMinimumSol(c) ==
  /\ pc[c] = "idle"
  /\ \E minimum \in Amounts :
       IF balance >= minimum
         THEN Goto(c, "done") /\ UNCHANGED <<amount, drop, guarded>>
         ELSE Fund(c, minimum - balance)
  /\ UNCHANGED <<treasury, balance, tx, polls, credited, refused, paid>>

-----------------------------------------------------------------------------
(* fundFromTreasuryOrAirdrop.                                              *)

\* The treasury pays all of it, what it has above the reserve, or nothing.
ReadTreasury(c) ==
  /\ pc[c] = "readTreasury"
  /\ \/ LET transferable == IF treasury > Reserve THEN treasury - Reserve ELSE 0
        IN IF transferable >= amount[c] \/ transferable > 0
             THEN /\ tx' = [tx EXCEPT ![c] =
                       [state |-> "built", lamports |-> Minimum(amount[c], transferable)]]
                  /\ Goto(c, "send")
                  /\ UNCHANGED <<drop, guarded>>
             ELSE /\ guarded' = [guarded EXCEPT ![c] = FALSE]
                  /\ StartFaucet(c, amount[c])
                  /\ UNCHANGED tx
     \/ Reject(c) /\ UNCHANGED tx
  /\ UNCHANGED <<treasury, balance, amount, polls, credited, refused, paid>>

\* buildTransaction and sendTransaction: the request may err before it has any
\* effect or after, and a try that errs because an earlier one was accepted is
\* an error like any other.
SendTransfer(c) ==
  /\ pc[c] = "send"
  /\ \E taken \in BOOLEAN :
       /\ tx' = [tx EXCEPT ![c].state = IF taken THEN "sent" ELSE "dropped"]
       /\ \/ /\ taken
             /\ Goto(c, "confirm")
             /\ UNCHANGED <<drop, guarded>>
          \/ Reject(c)
  /\ UNCHANGED <<treasury, balance, amount, polls, credited, refused, paid>>

\* Mutant: a later try of the request signs a new transaction.
Settled_Resigned(state) == {state, "sent"}

\* What a transaction becomes once the ledger has executed it.
Settled(state) == {state}

\* The ledger executes the transfer; it fails when the treasury has been spent
\* since.
Land(c) ==
  /\ tx[c].state = "sent"
  /\ treasury >= Fee
  /\ LET pays == treasury >= tx[c].lamports + Fee
         moved == IF pays THEN tx[c].lamports ELSE 0
     IN /\ treasury' = treasury - moved - Fee
        /\ balance' = balance + moved
        /\ credited' = [credited EXCEPT ![c] = @ + moved]
        /\ paid' = [paid EXCEPT ![c] = @ + moved]
        /\ \E s \in Settled(IF pays THEN "landed" ELSE "erred") :
             tx' = [tx EXCEPT ![c].state = s]
  /\ UNCHANGED <<pc, amount, drop, guarded, polls, refused>>

\* Its blockhash expires first, or the treasury cannot pay the fee.
Expire(c) ==
  /\ tx[c].state = "sent"
  /\ tx' = [tx EXCEPT ![c].state = "dropped"]
  /\ UNCHANGED <<treasury, balance, pc, amount, drop, guarded, polls, credited, refused, paid>>

\* The part of the amount that the treasury did not pay.
Rest(c) == amount[c] - tx[c].lamports

\* confirmTransaction resolves for a transaction that landed, with or without an
\* error in its value, which nobody reads; it rejects whenever the wait fails.
ConfirmTransfer(c) ==
  /\ pc[c] = "confirm"
  /\ \/ /\ tx[c].state \in {"landed", "erred"}
        /\ Counts(c, tx[c].state, tx[c].lamports)
        /\ IF tx[c].lamports >= amount[c]
             THEN /\ Goto(c, "wait")
                  /\ guarded' = [guarded EXCEPT ![c] = FALSE]
                  /\ UNCHANGED drop
             ELSE StartFaucet(c, Rest(c)) /\ UNCHANGED guarded
     \/ Reject(c) /\ UNCHANGED refused
  /\ UNCHANGED <<treasury, balance, amount, tx, polls, credited, paid>>

-----------------------------------------------------------------------------
(* requestAirdrop.                                                         *)

DropStates == {"landed", "erred", "dropped"}

\* Mutant: a chunk whose attempts are used up is begun again.
Exhausted_Restarts(c) ==
  /\ drop' = [drop EXCEPT ![c].attempt = 0]
  /\ Goto(c, "request")
  /\ UNCHANGED guarded

\* Mutant: a chunk whose attempts are used up counts as granted.
Exhausted_Skips(c) ==
  /\ drop' = [drop EXCEPT ![c] = Asking(drop[c].left - Chunk(c))]
  /\ Goto(c, IF drop[c].left = Chunk(c) THEN "wait" ELSE "request")
  /\ UNCHANGED guarded

\* Five attempts erred: the loop ends, and what is missing is an error.
Exhausted(c) == Reject(c)

\* The catch of one attempt: another, unless it was the last.
NextAttempt(c) ==
  IF drop[c].attempt + 1 < FaucetAttempts
    THEN /\ drop' = [drop EXCEPT ![c] = Attempting(drop[c].left, drop[c].attempt + 1)]
         /\ Goto(c, "request")
         /\ UNCHANGED guarded
    ELSE Exhausted(c)

\* The faucet grants the request as many times as a try of it arrives.  The airdrop
\* of the last answer has landed, has ended with an error, or will do neither.
RequestAirdrop(c) ==
  /\ pc[c] = "request"
  /\ \E grants \in 0..RpcTries :
       /\ balance' = balance + grants * Chunk(c)
       /\ credited' = [credited EXCEPT ![c] = @ + grants * Chunk(c)]
       /\ \/ /\ \E last \in DropStates :
                  /\ last = "landed" => grants > 0
                  /\ last = "erred" => grants < RpcTries
                  /\ drop' = [drop EXCEPT ![c].last = last]
             /\ Goto(c, "confirmDrop")
             /\ UNCHANGED guarded
          \/ NextAttempt(c)
  /\ UNCHANGED <<treasury, amount, tx, polls, refused, paid>>

\* The airdrop of the last answer is confirmed, and nobody reads its error, or the
\* wait for it fails.
ConfirmAirdrop(c) ==
  /\ pc[c] = "confirmDrop"
  /\ \/ /\ drop[c].last \in {"landed", "erred"}
        /\ Counts(c, drop[c].last, Chunk(c))
        /\ LET left == drop[c].left - Chunk(c)
           IN /\ drop' = [drop EXCEPT ![c] = Asking(left)]
              /\ IF left = 0
                   THEN /\ Goto(c, "wait")
                        /\ guarded' = [guarded EXCEPT ![c] = FALSE]
                   ELSE Goto(c, "request") /\ UNCHANGED guarded
     \/ NextAttempt(c) /\ UNCHANGED refused
  /\ UNCHANGED <<treasury, balance, amount, tx, polls, credited, paid>>

\* waitForMinimumBalance: it polls, and returns the balance whatever it is.
PollBalance(c) ==
  /\ pc[c] = "wait"
  /\ polls' = [polls EXCEPT ![c] = @ + 1]
  /\ Goto(c, IF balance >= amount[c] \/ polls[c] >= WaitAttempts THEN "done" ELSE "wait")
  /\ UNCHANGED <<treasury, balance, amount, tx, drop, guarded, credited, refused, paid>>

Run(c) ==
  \/ ReadTreasury(c)
  \/ SendTransfer(c)
  \/ ConfirmTransfer(c)
  \/ RequestAirdrop(c)
  \/ ConfirmAirdrop(c)
  \/ PollBalance(c)

Next ==
  \E c \in Calls :
    \/ fundExactSol(c)
    \/ ensureMinimumSol(c)
    \/ Run(c)
    \/ Land(c)
    \/ Expire(c)

Spec == Init /\ [][Next]_vars

\* Every awaited request is answered or fails, and a transaction that was sent
\* lands or runs out of its blockhash.
FairSpec ==
  /\ Spec
  /\ \A c \in Calls : WF_vars(Run(c)) /\ WF_vars(Land(c) \/ Expire(c))

-----------------------------------------------------------------------------
(* Properties.                                                             *)

Labels == {"idle", "readTreasury", "send", "confirm", "request", "confirmDrop",
           "wait", "done", "failed"}
TxStates == {"none", "built", "sent", "landed", "erred", "dropped"}

TypeOK ==
  /\ treasury \in Int
  /\ balance \in Nat
  /\ pc \in [Calls -> Labels]
  /\ amount \in [Calls -> Nat]
  /\ tx \in [Calls -> [state : TxStates, lamports : Nat]]
  /\ drop \in [Calls -> [left : Nat, attempt : 0..(FaucetAttempts - 1), last : DropStates]]
  /\ guarded \in [Calls -> BOOLEAN]
  /\ polls \in [Calls -> 0..(WaitAttempts + 1)]
  /\ credited \in [Calls -> Nat]
  /\ refused \in [Calls -> Nat]
  /\ paid \in [Calls -> Nat]

\* A call that resolves brought at least what it was asked for, by one source,
\* two, or one after the other failed in the middle - short only of the transfer
\* and the airdrops that the ledger refused, which it does not notice.
SuccessMeansFunded ==
  \A c \in Calls :
    pc[c] \in {"wait", "done"} => credited[c] + refused[c] >= amount[c]

\* Whatever is lost, repeated or late, a call takes no more from the treasury
\* than it was asked for, and the treasury is never overdrawn.
TreasuryPaysOnce ==
  /\ treasury >= -1
  /\ \A c \in Calls : paid[c] <= amount[c]

\* Every call resolves or rejects.
CallsSettle == \A c \in Calls : pc[c] # "idle" ~> pc[c] \in {"done", "failed"}
=============================================================================
