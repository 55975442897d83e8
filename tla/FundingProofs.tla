----------------------------- MODULE FundingProofs -----------------------------
(***************************************************************************)
(* A funding call that resolves brought what it was asked for, and takes   *)
(* no more than that from the treasury: for any number of calls, amounts,  *)
(* tries and attempts, whatever is lost, repeated or late.                 *)
(*                                                                         *)
(* The invariant says of each call what it has still to bring: what was    *)
(* credited, with what it goes on asking the faucet for, makes up the      *)
(* amount (Owed).                                                          *)
(***************************************************************************)
EXTENDS Funding, TLAPS

\* What the faucet's confirmation in flight would take off what is left.
Granted(c) == IF pc[c] = "confirmDrop" /\ drop[c].last = "landed" THEN Chunk(c) ELSE 0

Owed(c) ==
  /\ pc[c] \in {"request", "confirmDrop"} =>
       credited[c] + refused[c] + drop[c].left >= amount[c] + Granted(c)
  /\ pc[c] \in {"wait", "done"} => credited[c] + refused[c] >= amount[c]

\* The treasury transfer of a call: one, built when the treasury was read, and
\* paid when it landed.
OneTransfer(c) ==
  /\ tx[c].lamports <= amount[c]
  /\ pc[c] = "idle" => amount[c] = 0
  /\ pc[c] \in {"idle", "readTreasury"} => tx[c].state = "none"
  /\ pc[c] = "send" => tx[c].state = "built"
  /\ paid[c] = IF tx[c].state = "landed" THEN tx[c].lamports ELSE 0
  /\ paid[c] <= credited[c]

CallOK(c) ==
  /\ OneTransfer(c)
  /\ Owed(c)
  /\ pc[c] # "done" => polls[c] <= WaitAttempts

IndInv ==
  /\ TypeOK
  /\ treasury >= -1
  /\ \A c \in Calls : CallOK(c)

\* A step brings the recipient something, or nothing, for the call.
Brings(c) ==
  /\ balance' \in Nat
  /\ credited' \in [Calls -> Nat]
  /\ credited'[c] >= credited[c]
  /\ refused' \in [Calls -> Nat]
  /\ refused'[c] >= refused[c]
  /\ \A k \in Calls \ {c} : credited'[k] = credited[k] /\ refused'[k] = refused[k]

\* What a call counts of a transaction that ended in this state.
Counted(c, state, lamports) ==
  /\ refused' \in [Calls -> Nat]
  /\ refused'[c] = refused[c] + (IF state = "erred" THEN lamports ELSE 0)
  /\ \A k \in Calls \ {c} : refused'[k] = refused[k]

-----------------------------------------------------------------------------
(* Helpers.                                                                 *)

LEMMA BringsNothing ==
  ASSUME TypeOK, NEW c \in Calls, UNCHANGED <<balance, credited, refused>>
  PROVE  Brings(c)
BY DEF TypeOK, Brings

LEMMA Counting ==
  ASSUME TypeOK, NEW c \in Calls, NEW state, NEW lamports \in Nat,
         Counts(c, state, lamports), UNCHANGED <<balance, credited>>
  PROVE  Counted(c, state, lamports) /\ Brings(c)
<1>1. Counted(c, state, lamports)
  BY DEF Counts, Counted, TypeOK
<1> QED
  BY <1>1 DEF TypeOK, Brings, Counted

LEMMA MinimumBounds ==
  ASSUME NEW a \in Nat, NEW b \in Nat
  PROVE  Minimum(a, b) \in Nat /\ Minimum(a, b) <= a /\ Minimum(a, b) <= b
BY DEF Minimum

LEMMA ChunkBounds ==
  ASSUME TypeOK, NEW c \in Calls
  PROVE  Chunk(c) \in Nat /\ Chunk(c) <= drop[c].left
BY ConstantsAssumption, MinimumBounds DEF TypeOK, Chunk

\* A step that writes at one call leaves the others as they were.
LEMMA OneCall ==
  ASSUME IndInv, TypeOK', treasury' >= -1, NEW c \in Calls, CallOK(c)',
         \A k \in Calls \ {c} :
           /\ pc'[k] = pc[k] /\ amount'[k] = amount[k] /\ tx'[k] = tx[k]
           /\ drop'[k] = drop[k] /\ polls'[k] = polls[k]
           /\ credited'[k] = credited[k] /\ refused'[k] = refused[k] /\ paid'[k] = paid[k]
  PROVE  IndInv'
<1>1. ASSUME NEW k \in Calls \ {c} PROVE CallOK(k)'
  BY DEF IndInv, CallOK, OneTransfer, Owed, Granted, Chunk
<1> QED
  BY <1>1 DEF IndInv

\* The faucet is asked for lamports that make up the amount.
LEMMA FaucetStep ==
  ASSUME IndInv, NEW c \in Calls, NEW lamports \in Nat, StartFaucet(c, lamports),
         guarded' \in [Calls -> BOOLEAN],
         tx' \in [Calls -> [state : TxStates, lamports : Nat]],
         \A k \in Calls \ {c} : tx'[k] = tx[k] /\ amount'[k] = amount[k],
         amount' \in [Calls -> Nat],
         UNCHANGED <<treasury, polls, paid>>, Brings(c),
         pc[c] # "done",
         tx'[c].lamports <= amount'[c],
         paid[c] = IF tx'[c].state = "landed" THEN tx'[c].lamports ELSE 0,
         credited'[c] + refused'[c] + lamports >= amount'[c]
  PROVE  IndInv'
<1>1. TypeOK /\ CallOK(c)
  BY DEF IndInv
<1>2. /\ pc' = [pc EXCEPT ![c] = IF lamports = 0 THEN "failed" ELSE "request"]
      /\ drop' = [drop EXCEPT ![c] = [left |-> lamports, attempt |-> 0, last |-> "dropped"]]
  BY DEF StartFaucet, Goto, Asking, Attempting
<1>3. TypeOK'
  <2>1. pc' \in [Calls -> Labels]
    BY <1>1, <1>2 DEF TypeOK, Labels
  <2>2. drop' \in [Calls -> [left : Nat, attempt : 0..(FaucetAttempts - 1), last : DropStates]]
    BY <1>1, <1>2, ConstantsAssumption DEF TypeOK, DropStates
  <2> QED
    BY <1>1, <2>1, <2>2 DEF TypeOK, Brings
<1>4. /\ pc'[c] \in {"failed", "request"}
      /\ drop'[c].left = lamports
      /\ \A k \in Calls \ {c} : pc'[k] = pc[k] /\ drop'[k] = drop[k]
  BY <1>1, <1>2 DEF TypeOK
<1>5. CallOK(c)'
  BY <1>1, <1>4 DEF CallOK, OneTransfer, Owed, Granted, TypeOK, Brings
<1> QED
  BY <1>3, <1>4, <1>5, OneCall DEF IndInv, Brings

\* An error sends a guarded call to the faucet for all of its amount, and ends
\* any other.
LEMMA RejectStep ==
  ASSUME IndInv, NEW c \in Calls, pc[c] \notin {"idle", "wait", "done"}, Reject(c),
         tx' \in [Calls -> [state : TxStates, lamports : Nat]],
         \A k \in Calls \ {c} : tx'[k] = tx[k],
         tx'[c].lamports = tx[c].lamports,
         tx'[c].state # tx[c].state => tx[c].state # "landed" /\ tx'[c].state # "landed",
         UNCHANGED <<treasury, amount, polls, paid>>, Brings(c)
  PROVE  IndInv'
<1>1. TypeOK /\ CallOK(c) /\ amount[c] \in Nat /\ credited[c] \in Nat
      /\ credited'[c] \in Nat /\ refused'[c] \in Nat
  BY DEF IndInv, TypeOK, Brings
<1>2. guarded' \in [Calls -> BOOLEAN]
  BY <1>1 DEF Reject, TypeOK
<1>3. /\ tx'[c].lamports <= amount[c]
      /\ paid[c] = IF tx'[c].state = "landed" THEN tx'[c].lamports ELSE 0
      /\ paid[c] <= credited'[c]
  BY <1>1 DEF CallOK, OneTransfer, Brings, TypeOK
<1>4. CASE StartFaucet(c, amount[c])
  BY <1>1, <1>2, <1>3, <1>4, FaucetStep DEF TypeOK
<1>5. CASE Goto(c, "failed") /\ UNCHANGED drop
  <2>1. TypeOK'
    BY <1>1, <1>2, <1>5 DEF TypeOK, Goto, Labels, Brings
  <2>2. pc'[c] = "failed" /\ \A k \in Calls \ {c} : pc'[k] = pc[k]
    BY <1>1, <1>5 DEF TypeOK, Goto
  <2>3. CallOK(c)'
    BY <1>1, <1>3, <2>2 DEF CallOK, OneTransfer, Owed, Brings
  <2> QED
    BY <1>5, <2>1, <2>2, <2>3, OneCall DEF IndInv, Brings
<1> QED
  BY <1>4, <1>5, Zenon DEF Reject

\* A step that leaves everything of a call alone but where it waits.
LEMMA MoveStep ==
  ASSUME IndInv, NEW c \in Calls, NEW label \in Labels, Goto(c, label),
         label \in {"confirm", "failed"},
         pc[c] \notin {"idle", "done"},
         tx' \in [Calls -> [state : TxStates, lamports : Nat]],
         guarded' \in [Calls -> BOOLEAN],
         \A k \in Calls \ {c} : tx'[k] = tx[k],
         tx'[c].lamports = tx[c].lamports,
         tx'[c].state # tx[c].state => tx[c].state # "landed" /\ tx'[c].state # "landed",
         UNCHANGED <<treasury, balance, amount, drop, polls, credited, refused, paid>>
  PROVE  IndInv'
<1>1. TypeOK /\ CallOK(c)
  BY DEF IndInv
<1>2. TypeOK'
  BY <1>1 DEF TypeOK, Goto
<1>3. pc'[c] = label /\ \A k \in Calls \ {c} : pc'[k] = pc[k]
  BY <1>1 DEF TypeOK, Goto
<1>4. CallOK(c)'
  BY <1>1, <1>3 DEF CallOK, OneTransfer, Owed
<1> QED
  BY <1>2, <1>3, <1>4, OneCall DEF IndInv

-----------------------------------------------------------------------------
(* The steps.                                                               *)

LEMMA FundStep ==
  ASSUME IndInv, NEW c \in Calls, fundExactSol(c) \/ ensureMinimumSol(c)
  PROVE  IndInv'
<1>1. TypeOK /\ CallOK(c) /\ pc[c] = "idle" /\ UNCHANGED <<treasury, balance, tx, polls, credited, refused, paid>>
  BY DEF IndInv, fundExactSol, ensureMinimumSol
<1>2. \/ Goto(c, "done") /\ UNCHANGED <<amount, drop, guarded>>
      \/ \E lamports \in Nat : Fund(c, lamports)
  <2>1. CASE fundExactSol(c)
    BY <2>1, ConstantsAssumption DEF fundExactSol
  <2>2. CASE ensureMinimumSol(c)
    <3>1. \A minimum \in Amounts : balance < minimum => minimum - balance \in Nat
      BY <1>1, ConstantsAssumption DEF TypeOK
    <3>2. \A minimum \in Amounts : balance >= minimum \/ balance < minimum
      BY <1>1, ConstantsAssumption DEF TypeOK
    <3> QED
      BY <2>2, <3>1, <3>2 DEF ensureMinimumSol
  <2> QED
    BY <2>1, <2>2
<1>3. tx[c].state = "none" /\ amount[c] = 0 /\ paid[c] = 0 /\ tx[c].lamports = 0
  BY <1>1 DEF CallOK, OneTransfer, TypeOK
<1>4. CASE Goto(c, "done") /\ UNCHANGED <<amount, drop, guarded>>
  <2>1. TypeOK'
    BY <1>1, <1>4 DEF TypeOK, Goto, Labels
  <2>2. pc'[c] = "done" /\ \A k \in Calls \ {c} : pc'[k] = pc[k]
    BY <1>1, <1>4 DEF TypeOK, Goto
  <2>3. CallOK(c)'
    BY <1>1, <1>3, <1>4, <2>2 DEF CallOK, OneTransfer, Owed, TypeOK
  <2> QED
    BY <1>1, <1>4, <2>1, <2>2, <2>3, OneCall DEF IndInv
<1>5. ASSUME NEW lamports \in Nat, Fund(c, lamports) PROVE IndInv'
  <2>1. /\ amount' \in [Calls -> Nat] /\ amount'[c] = lamports
        /\ \A k \in Calls \ {c} : amount'[k] = amount[k]
        /\ guarded' \in [Calls -> BOOLEAN]
    BY <1>1, <1>5 DEF Fund, TypeOK
  <2>2. CASE StartFaucet(c, lamports)
    <3>1. Brings(c) /\ credited'[c] + refused'[c] + lamports >= amount'[c]
      BY <1>1, <2>1, BringsNothing DEF TypeOK
    <3>2. /\ tx' \in [Calls -> [state : TxStates, lamports : Nat]]
          /\ tx'[c].lamports <= amount'[c]
          /\ paid[c] = IF tx'[c].state = "landed" THEN tx'[c].lamports ELSE 0
      BY <1>1, <1>3, <2>1 DEF TypeOK
    <3> QED
      BY <1>1, <2>1, <2>2, <3>1, <3>2, FaucetStep
  <2>3. CASE Goto(c, "readTreasury") /\ UNCHANGED drop
    <3>1. TypeOK'
      BY <1>1, <2>1, <2>3 DEF TypeOK, Goto, Labels
    <3>2. pc'[c] = "readTreasury" /\ \A k \in Calls \ {c} : pc'[k] = pc[k]
      BY <1>1, <2>3 DEF TypeOK, Goto
    <3>3. CallOK(c)'
      BY <1>1, <1>3, <2>1, <3>2 DEF CallOK, OneTransfer, Owed, TypeOK
    <3> QED
      BY <1>1, <2>1, <2>3, <3>1, <3>2, <3>3, OneCall DEF IndInv
  <2> QED
    BY <1>5, <2>2, <2>3 DEF Fund
<1> QED
  BY <1>2, <1>4, <1>5

LEMMA ReadTreasuryStep ==
  ASSUME IndInv, NEW c \in Calls, ReadTreasury(c)
  PROVE  IndInv'
<1> DEFINE transferable == IF treasury > Reserve THEN treasury - Reserve ELSE 0
           lamports == Minimum(amount[c], transferable)
<1>1. /\ TypeOK /\ CallOK(c) /\ pc[c] = "readTreasury"
      /\ UNCHANGED <<treasury, balance, amount, polls, credited, refused, paid>>
      /\ amount[c] \in Nat /\ credited[c] \in Nat
  BY DEF IndInv, ReadTreasury, TypeOK
<1>2. tx[c].state = "none" /\ paid[c] = 0
  BY <1>1 DEF CallOK, OneTransfer
<1>3. lamports \in Nat /\ lamports <= amount[c]
  <2>1. treasury \in Int /\ Reserve \in Nat
    BY <1>1, ConstantsAssumption DEF TypeOK
  <2>2. transferable \in Nat
    BY <2>1
  <2> QED
    BY <1>1, <2>2, MinimumBounds
<1>4. CASE /\ tx' = [tx EXCEPT ![c] = [state |-> "built", lamports |-> lamports]]
           /\ Goto(c, "send") /\ UNCHANGED <<drop, guarded>>
  <2>1. /\ tx' \in [Calls -> [state : TxStates, lamports : Nat]]
        /\ tx'[c].state = "built" /\ tx'[c].lamports = lamports
        /\ \A k \in Calls \ {c} : tx'[k] = tx[k]
    BY <1>1, <1>3, <1>4 DEF TypeOK, TxStates
  <2>2. TypeOK'
    BY <1>1, <1>4, <2>1 DEF TypeOK, Goto, Labels
  <2>3. pc'[c] = "send" /\ \A k \in Calls \ {c} : pc'[k] = pc[k]
    BY <1>1, <1>4 DEF TypeOK, Goto
  <2>4. CallOK(c)'
    BY <1>1, <1>2, <1>3, <2>1, <2>3 DEF CallOK, OneTransfer, Owed
  <2> QED
    BY <1>1, <1>4, <2>1, <2>2, <2>3, <2>4, OneCall DEF IndInv
<1>5. CASE /\ guarded' = [guarded EXCEPT ![c] = FALSE]
           /\ StartFaucet(c, amount[c]) /\ UNCHANGED tx
  <2>1. guarded' \in [Calls -> BOOLEAN]
    BY <1>1, <1>5 DEF TypeOK
  <2> QED
    BY <1>1, <1>2, <1>5, <2>1, BringsNothing, FaucetStep DEF TypeOK, CallOK, OneTransfer
<1>6. CASE Reject(c) /\ UNCHANGED tx
  BY <1>1, <1>6, BringsNothing, RejectStep DEF TypeOK
<1> QED
  BY <1>4, <1>5, <1>6, Zenon DEF ReadTreasury

LEMMA SendStep ==
  ASSUME IndInv, NEW c \in Calls, SendTransfer(c)
  PROVE  IndInv'
<1>1. /\ TypeOK /\ CallOK(c) /\ pc[c] = "send"
      /\ UNCHANGED <<treasury, balance, amount, polls, credited, refused, paid>>
  BY DEF IndInv, SendTransfer
<1>2. PICK taken \in BOOLEAN :
        /\ tx' = [tx EXCEPT ![c].state = IF taken THEN "sent" ELSE "dropped"]
        /\ \/ Goto(c, "confirm") /\ UNCHANGED <<drop, guarded>>
           \/ Reject(c)
  BY DEF SendTransfer
<1>3. /\ tx' \in [Calls -> [state : TxStates, lamports : Nat]]
      /\ tx'[c].state \in {"sent", "dropped"} /\ tx'[c].lamports = tx[c].lamports
      /\ \A k \in Calls \ {c} : tx'[k] = tx[k]
  BY <1>1, <1>2 DEF TypeOK, TxStates
<1>4. tx[c].state = "built"
  BY <1>1 DEF CallOK, OneTransfer
<1>5. CASE Goto(c, "confirm") /\ UNCHANGED <<drop, guarded>>
  BY <1>1, <1>3, <1>4, <1>5, MoveStep DEF TypeOK, Labels
<1>6. CASE Reject(c)
  BY <1>1, <1>3, <1>4, <1>6, BringsNothing, RejectStep
<1> QED
  BY <1>2, <1>5, <1>6

LEMMA LandStep ==
  ASSUME IndInv, NEW c \in Calls, Land(c)
  PROVE  IndInv'
<1> DEFINE pays == treasury >= tx[c].lamports + Fee
           moved == IF pays THEN tx[c].lamports ELSE 0
           state == IF pays THEN "landed" ELSE "erred"
<1>1. /\ TypeOK /\ CallOK(c) /\ tx[c].state = "sent" /\ treasury >= Fee
      /\ UNCHANGED <<pc, amount, drop, guarded, polls, refused>>
      /\ treasury' = treasury - moved - Fee /\ balance' = balance + moved
      /\ credited' = [credited EXCEPT ![c] = @ + moved]
      /\ paid' = [paid EXCEPT ![c] = @ + moved]
      /\ tx' = [tx EXCEPT ![c].state = state]
  BY DEF IndInv, Land, Settled
<1>2. moved \in Nat /\ tx[c].lamports \in Nat /\ Fee \in Nat /\ treasury \in Int
  BY <1>1, ConstantsAssumption DEF TypeOK
<1>3. treasury' \in Int /\ treasury' >= -1
  BY <1>1, <1>2
<1>4. /\ tx' \in [Calls -> [state : TxStates, lamports : Nat]]
      /\ tx'[c].state = state /\ tx'[c].lamports = tx[c].lamports
      /\ \A k \in Calls \ {c} : tx'[k] = tx[k]
  BY <1>1 DEF TypeOK, TxStates
<1>5. /\ credited' \in [Calls -> Nat] /\ credited'[c] = credited[c] + moved
      /\ paid' \in [Calls -> Nat] /\ paid'[c] = paid[c] + moved
      /\ \A k \in Calls \ {c} : credited'[k] = credited[k] /\ paid'[k] = paid[k]
      /\ credited[c] \in Nat /\ paid[c] \in Nat /\ amount[c] \in Nat /\ drop[c].left \in Nat
      /\ refused[c] \in Nat
  BY <1>1, <1>2 DEF TypeOK
<1>6. TypeOK'
  BY <1>1, <1>2, <1>3, <1>4, <1>5 DEF TypeOK
<1>7. CallOK(c)'
  <2>1. paid[c] = 0 /\ paid[c] <= credited[c] /\ tx[c].lamports <= amount[c]
        /\ pc[c] \notin {"idle", "readTreasury", "send"} /\ Owed(c)
    BY <1>1 DEF CallOK, OneTransfer
  <2>2. OneTransfer(c)'
    BY <1>1, <1>2, <1>4, <1>5, <2>1 DEF OneTransfer
  <2>3. Granted(c)' = Granted(c) /\ Granted(c) \in Nat
    BY <1>1, ChunkBounds DEF Granted, Chunk
  <2>4. Owed(c)'
    BY <1>1, <1>2, <1>5, <2>1, <2>3 DEF Owed
  <2> QED
    BY <1>1, <2>2, <2>4 DEF CallOK
<1> QED
  BY <1>1, <1>3, <1>4, <1>5, <1>6, <1>7, OneCall

LEMMA ExpireStep ==
  ASSUME IndInv, NEW c \in Calls, Expire(c)
  PROVE  IndInv'
<1>1. /\ TypeOK /\ CallOK(c) /\ tx[c].state = "sent"
      /\ tx' = [tx EXCEPT ![c].state = "dropped"]
      /\ UNCHANGED <<treasury, balance, pc, amount, drop, guarded, polls, credited, refused, paid>>
  BY DEF IndInv, Expire
<1>2. /\ tx' \in [Calls -> [state : TxStates, lamports : Nat]]
      /\ tx'[c].state = "dropped" /\ tx'[c].lamports = tx[c].lamports
      /\ \A k \in Calls \ {c} : tx'[k] = tx[k]
  BY <1>1 DEF TypeOK, TxStates
<1>3. TypeOK'
  BY <1>1, <1>2 DEF TypeOK
<1>4. CallOK(c)'
  BY <1>1, <1>2 DEF CallOK, OneTransfer, Owed, Granted, Chunk
<1> QED
  BY <1>1, <1>2, <1>3, <1>4, OneCall DEF IndInv

LEMMA ConfirmStep ==
  ASSUME IndInv, NEW c \in Calls, ConfirmTransfer(c)
  PROVE  IndInv'
<1>1. /\ TypeOK /\ CallOK(c) /\ pc[c] = "confirm"
      /\ UNCHANGED <<treasury, balance, amount, tx, polls, credited, paid>>
      /\ amount[c] \in Nat /\ credited[c] \in Nat /\ tx[c].lamports \in Nat
      /\ refused[c] \in Nat
  BY DEF IndInv, ConfirmTransfer, TypeOK
<1>2. /\ tx[c].lamports <= amount[c]
      /\ paid[c] = IF tx[c].state = "landed" THEN tx[c].lamports ELSE 0
      /\ paid[c] <= credited[c]
  BY <1>1 DEF CallOK, OneTransfer
<1>3. CASE Reject(c) /\ UNCHANGED refused
  BY <1>1, <1>3, BringsNothing, RejectStep DEF TypeOK
<1>4. CASE /\ tx[c].state \in {"landed", "erred"}
           /\ Counts(c, tx[c].state, tx[c].lamports)
           /\ IF tx[c].lamports >= amount[c]
                THEN /\ Goto(c, "wait") /\ guarded' = [guarded EXCEPT ![c] = FALSE]
                     /\ UNCHANGED drop
                ELSE StartFaucet(c, Rest(c)) /\ UNCHANGED guarded
  <2>1. Counted(c, tx[c].state, tx[c].lamports) /\ Brings(c)
    BY <1>1, <1>4, Counting
  <2>2. credited[c] + refused'[c] >= tx[c].lamports
    BY <1>1, <1>2, <1>4, <2>1 DEF Counted
  <2>3. CASE tx[c].lamports >= amount[c]
    <3>1. /\ Goto(c, "wait") /\ guarded' = [guarded EXCEPT ![c] = FALSE] /\ UNCHANGED drop
      BY <1>4, <2>3
    <3>2. TypeOK'
      BY <1>1, <2>1, <3>1 DEF TypeOK, Goto, Labels, Brings
    <3>3. pc'[c] = "wait" /\ \A k \in Calls \ {c} : pc'[k] = pc[k]
      BY <1>1, <3>1 DEF TypeOK, Goto
    <3>4. CallOK(c)'
      <4>1. credited[c] + refused'[c] >= amount[c]
        BY <1>1, <2>1, <2>2, <2>3 DEF Brings
      <4> QED
        BY <1>1, <1>2, <3>3, <4>1 DEF CallOK, OneTransfer, Owed
    <3> QED
      BY <1>1, <2>1, <3>1, <3>2, <3>3, <3>4, OneCall DEF IndInv, Brings
  <2>4. CASE ~(tx[c].lamports >= amount[c])
    <3>1. StartFaucet(c, Rest(c)) /\ UNCHANGED guarded
      BY <1>4, <2>4
    <3>2. Rest(c) \in Nat /\ Rest(c) = amount[c] - tx[c].lamports
      BY <1>1, <1>2 DEF Rest
    <3>3. credited[c] + refused'[c] + Rest(c) >= amount[c]
      BY <1>1, <2>1, <2>2, <3>2 DEF Brings
    <3> QED
      BY <1>1, <1>2, <2>1, <3>1, <3>2, <3>3, FaucetStep DEF TypeOK
  <2> QED
    BY <2>3, <2>4
<1> QED
  BY <1>3, <1>4, Zenon DEF ConfirmTransfer

\* An attempt at a chunk erred.
LEMMA NextAttemptStep ==
  ASSUME IndInv, NEW c \in Calls, pc[c] \in {"request", "confirmDrop"}, NextAttempt(c),
         UNCHANGED <<treasury, amount, tx, polls, paid>>, Brings(c)
  PROVE  IndInv'
<1>1. TypeOK /\ CallOK(c)
  BY DEF IndInv
<1>2. CASE drop[c].attempt + 1 < FaucetAttempts
  <2>1. /\ drop' = [drop EXCEPT ![c] = [left |-> drop[c].left, attempt |-> drop[c].attempt + 1,
                                       last |-> "dropped"]]
        /\ Goto(c, "request") /\ UNCHANGED guarded
    BY <1>2 DEF NextAttempt, Attempting
  <2>2. /\ drop' \in [Calls -> [left : Nat, attempt : 0..(FaucetAttempts - 1), last : DropStates]]
        /\ drop'[c].left = drop[c].left
        /\ \A k \in Calls \ {c} : drop'[k] = drop[k]
    <3>1. drop[c].left \in Nat /\ drop[c].attempt + 1 \in 0..(FaucetAttempts - 1)
      BY <1>1, <1>2, ConstantsAssumption DEF TypeOK
    <3> QED
      BY <1>1, <2>1, <3>1 DEF TypeOK, DropStates
  <2>3. pc'[c] = "request" /\ \A k \in Calls \ {c} : pc'[k] = pc[k]
    BY <1>1, <2>1 DEF TypeOK, Goto
  <2>4. TypeOK'
    BY <1>1, <2>1, <2>2 DEF TypeOK, Goto, Labels, Brings
  <2>5. CallOK(c)'
    <3>1. credited[c] + refused[c] + drop[c].left >= amount[c] + Granted(c)
      BY <1>1 DEF CallOK, Owed
    <3>2. Granted(c) \in Nat /\ Granted(c)' = 0
      BY <1>1, <2>3, ChunkBounds DEF Granted
    <3>3. /\ credited[c] \in Nat /\ credited'[c] \in Nat /\ credited'[c] >= credited[c]
          /\ refused[c] \in Nat /\ refused'[c] \in Nat /\ refused'[c] >= refused[c]
          /\ drop[c].left \in Nat /\ amount[c] \in Nat /\ paid[c] \in Nat
      BY <1>1 DEF TypeOK, Brings
    <3>4. Owed(c)'
      BY <2>2, <2>3, <3>1, <3>2, <3>3 DEF Owed
    <3> QED
      BY <1>1, <2>3, <3>3, <3>4 DEF CallOK, OneTransfer
  <2> QED
    BY <2>2, <2>3, <2>4, <2>5, OneCall DEF IndInv, Brings
<1>3. CASE ~(drop[c].attempt + 1 < FaucetAttempts)
  BY <1>1, <1>3, RejectStep DEF NextAttempt, Exhausted, TypeOK
<1> QED
  BY <1>2, <1>3

LEMMA RequestStep ==
  ASSUME IndInv, NEW c \in Calls, RequestAirdrop(c)
  PROVE  IndInv'
<1>1. /\ TypeOK /\ CallOK(c) /\ pc[c] = "request"
      /\ UNCHANGED <<treasury, amount, tx, polls, refused, paid>>
      /\ Chunk(c) \in Nat /\ credited[c] \in Nat /\ drop[c].left \in Nat /\ amount[c] \in Nat
      /\ refused[c] \in Nat
  BY ChunkBounds DEF IndInv, RequestAirdrop, TypeOK
<1>2. PICK grants \in 0..RpcTries :
        /\ balance' = balance + grants * Chunk(c)
        /\ credited' = [credited EXCEPT ![c] = @ + grants * Chunk(c)]
        /\ \/ /\ \E last \in DropStates :
                   (last = "landed" => grants > 0) /\ drop' = [drop EXCEPT ![c].last = last]
              /\ Goto(c, "confirmDrop") /\ UNCHANGED guarded
           \/ NextAttempt(c)
  BY <1>1 DEF RequestAirdrop
<1>3. /\ grants \in Nat /\ grants * Chunk(c) \in Nat
      /\ grants > 0 => grants * Chunk(c) >= Chunk(c)
  <2>1. grants \in Nat
    BY <1>2, ConstantsAssumption
  <2>2. grants * Chunk(c) \in Nat
    BY <1>1, <2>1
  <2>3. grants > 0 => (grants - 1) * Chunk(c) >= 0
    BY <1>1, <2>1
  <2>4. grants * Chunk(c) = (grants - 1) * Chunk(c) + Chunk(c)
    BY <1>1, <2>1
  <2> QED
    BY <1>1, <2>1, <2>2, <2>3, <2>4
<1>4. Brings(c) /\ credited'[c] = credited[c] + grants * Chunk(c)
  BY <1>1, <1>2, <1>3 DEF Brings, TypeOK
<1>5. CASE NextAttempt(c)
  BY <1>1, <1>4, <1>5, NextAttemptStep
<1>6. CASE /\ \E last \in DropStates :
                (last = "landed" => grants > 0) /\ drop' = [drop EXCEPT ![c].last = last]
           /\ Goto(c, "confirmDrop") /\ UNCHANGED guarded
  <2>1. PICK last \in DropStates :
          (last = "landed" => grants > 0) /\ drop' = [drop EXCEPT ![c].last = last]
    BY <1>6
  <2>2. /\ drop' \in [Calls -> [left : Nat, attempt : 0..(FaucetAttempts - 1), last : DropStates]]
        /\ drop'[c].left = drop[c].left /\ drop'[c].last = last
        /\ \A k \in Calls \ {c} : drop'[k] = drop[k]
    BY <1>1, <2>1 DEF TypeOK
  <2>3. pc'[c] = "confirmDrop" /\ \A k \in Calls \ {c} : pc'[k] = pc[k]
    BY <1>1, <1>6 DEF TypeOK, Goto
  <2>4. TypeOK'
    BY <1>1, <1>4, <1>6, <2>2 DEF TypeOK, Goto, Labels, Brings
  <2>5. CallOK(c)'
    <3>1. credited[c] + refused[c] + drop[c].left >= amount[c]
      BY <1>1 DEF CallOK, Owed, Granted
    <3>2. Granted(c)' = IF last = "landed" THEN Chunk(c) ELSE 0
      BY <2>2, <2>3 DEF Granted, Chunk
    <3>3. Owed(c)'
      BY <1>1, <1>3, <1>4, <2>1, <2>2, <2>3, <3>1, <3>2 DEF Owed
    <3>4. paid[c] \in Nat
      BY <1>1 DEF TypeOK
    <3> QED
      BY <1>1, <1>3, <1>4, <2>3, <3>3, <3>4 DEF CallOK, OneTransfer
  <2> QED
    BY <1>1, <1>4, <2>2, <2>3, <2>4, <2>5, OneCall DEF IndInv, Brings
<1> QED
  BY <1>2, <1>5, <1>6

LEMMA ConfirmAirdropStep ==
  ASSUME IndInv, NEW c \in Calls, ConfirmAirdrop(c)
  PROVE  IndInv'
<1> DEFINE left == drop[c].left - Chunk(c)
<1>1. /\ TypeOK /\ CallOK(c) /\ pc[c] = "confirmDrop"
      /\ UNCHANGED <<treasury, balance, amount, tx, polls, credited, paid>>
      /\ Chunk(c) \in Nat /\ credited[c] \in Nat /\ drop[c].left \in Nat /\ amount[c] \in Nat
      /\ refused[c] \in Nat
      /\ left \in Nat
  BY ChunkBounds DEF IndInv, ConfirmAirdrop, TypeOK
<1>2. CASE NextAttempt(c) /\ UNCHANGED refused
  BY <1>1, <1>2, BringsNothing, NextAttemptStep
<1>3. CASE ~(NextAttempt(c) /\ UNCHANGED refused)
  <2>1. /\ drop[c].last \in {"landed", "erred"}
        /\ Counts(c, drop[c].last, Chunk(c))
        /\ drop' = [drop EXCEPT ![c] = Asking(left)]
        /\ IF left = 0
             THEN Goto(c, "wait") /\ guarded' = [guarded EXCEPT ![c] = FALSE]
             ELSE Goto(c, "request") /\ UNCHANGED guarded
    BY <1>3 DEF ConfirmAirdrop
  <2>2. Counted(c, drop[c].last, Chunk(c)) /\ Brings(c)
    BY <1>1, <2>1, Counting
  <2>3. /\ drop' \in [Calls -> [left : Nat, attempt : 0..(FaucetAttempts - 1), last : DropStates]]
        /\ drop'[c].left = left
        /\ \A k \in Calls \ {c} : drop'[k] = drop[k]
    BY <1>1, <2>1, ConstantsAssumption DEF TypeOK, Asking, Attempting, DropStates
  <2>4. /\ pc'[c] = IF left = 0 THEN "wait" ELSE "request"
        /\ \A k \in Calls \ {c} : pc'[k] = pc[k]
        /\ pc' \in [Calls -> Labels] /\ guarded' \in [Calls -> BOOLEAN]
    BY <1>1, <2>1 DEF TypeOK, Goto, Labels
  <2>5. TypeOK'
    BY <1>1, <2>2, <2>3, <2>4 DEF TypeOK, Brings
  <2>6. CallOK(c)'
    <3>1. credited[c] + refused'[c] + drop[c].left >= amount[c] + Chunk(c)
      BY <1>1, <2>1, <2>2 DEF CallOK, Owed, Granted, Counted
    <3>2. Granted(c)' = 0
      BY <2>4 DEF Granted
    <3>3. Owed(c)'
      BY <1>1, <2>2, <2>3, <2>4, <3>1, <3>2 DEF Owed, Brings
    <3> QED
      BY <1>1, <2>4, <3>3 DEF CallOK, OneTransfer
  <2> QED
    BY <1>1, <2>2, <2>3, <2>4, <2>5, <2>6, OneCall DEF IndInv, Brings
<1> QED
  BY <1>2, <1>3

LEMMA PollStep ==
  ASSUME IndInv, NEW c \in Calls, PollBalance(c)
  PROVE  IndInv'
<1>1. /\ TypeOK /\ CallOK(c) /\ pc[c] = "wait"
      /\ UNCHANGED <<treasury, balance, amount, tx, drop, guarded, credited, refused, paid>>
      /\ polls' = [polls EXCEPT ![c] = @ + 1]
      /\ Goto(c, IF balance >= amount[c] \/ polls[c] >= WaitAttempts THEN "done" ELSE "wait")
  BY DEF IndInv, PollBalance
<1>2. polls[c] \in Nat /\ polls[c] <= WaitAttempts /\ WaitAttempts \in Nat
  BY <1>1, ConstantsAssumption DEF CallOK, TypeOK
<1>3. /\ polls' \in [Calls -> 0..(WaitAttempts + 1)] /\ polls'[c] = polls[c] + 1
      /\ \A k \in Calls \ {c} : polls'[k] = polls[k]
  BY <1>1, <1>2 DEF TypeOK
<1>4. /\ pc'[c] \in {"done", "wait"}
      /\ pc'[c] = "wait" => polls'[c] <= WaitAttempts
      /\ \A k \in Calls \ {c} : pc'[k] = pc[k]
      /\ pc' \in [Calls -> Labels]
  BY <1>1, <1>2, <1>3 DEF TypeOK, Goto, Labels
<1>5. TypeOK'
  BY <1>1, <1>3, <1>4 DEF TypeOK
<1>6. CallOK(c)'
  BY <1>1, <1>4 DEF CallOK, OneTransfer, Owed
<1> QED
  BY <1>1, <1>3, <1>4, <1>5, <1>6, OneCall DEF IndInv

-----------------------------------------------------------------------------
(* The theorems.                                                            *)

LEMMA InitIndInv == Init => IndInv
<1> SUFFICES ASSUME Init PROVE IndInv
  OBVIOUS
<1>1. TypeOK
  BY ConstantsAssumption DEF Init, TypeOK, NoTx, Asking, Attempting, Labels, TxStates, DropStates
<1>2. treasury >= -1
  BY ConstantsAssumption DEF Init
<1>3. ASSUME NEW c \in Calls PROVE CallOK(c)
  BY ConstantsAssumption DEF Init, CallOK, OneTransfer, Owed, NoTx
<1> QED
  BY <1>1, <1>2, <1>3 DEF IndInv

LEMMA NextIndInv == IndInv /\ [Next]_vars => IndInv'
<1> SUFFICES ASSUME IndInv, [Next]_vars PROVE IndInv'
  OBVIOUS
<1>1. CASE UNCHANGED vars
  BY <1>1 DEF vars, IndInv, TypeOK, CallOK, OneTransfer, Owed, Granted, Chunk
<1>2. ASSUME NEW c \in Calls, Run(c) PROVE IndInv'
  BY <1>2, ReadTreasuryStep, SendStep, ConfirmStep, RequestStep, ConfirmAirdropStep, PollStep
  DEF Run
<1>3. ASSUME NEW c \in Calls,
             fundExactSol(c) \/ ensureMinimumSol(c) \/ Land(c) \/ Expire(c)
      PROVE  IndInv'
  BY <1>3, FundStep, LandStep, ExpireStep
<1> QED
  BY <1>1, <1>2, <1>3 DEF Next

\* The types, and what each call owes, hold in every state.
THEOREM IndCorrect == Spec => []IndInv
BY InitIndInv, NextIndInv, PTL DEF Spec

\* A call of DevnetFundingService that resolves brought what it was asked for,
\* whichever of the sources paid, short only of the transactions that the ledger
\* refused and the call confirmed.
THEOREM SuccessMeansFundedHolds == Spec => []SuccessMeansFunded
<1>1. IndInv => SuccessMeansFunded
  BY DEF IndInv, CallOK, Owed, SuccessMeansFunded
<1> QED
  BY IndCorrect, <1>1, PTL

\* A repeated, late or rejected transfer takes no more from the treasury than
\* the call was asked for, and the treasury is never overdrawn.
THEOREM TreasuryPaysOnceHolds == Spec => []TreasuryPaysOnce
<1>1. IndInv => TreasuryPaysOnce
  <2> SUFFICES ASSUME IndInv PROVE TreasuryPaysOnce
    OBVIOUS
  <2>1. ASSUME NEW c \in Calls PROVE paid[c] <= amount[c]
    BY DEF IndInv, CallOK, OneTransfer, TypeOK
  <2> QED
    BY <2>1 DEF IndInv, TreasuryPaysOnce
<1> QED
  BY IndCorrect, <1>1, PTL
=============================================================================
