---------------------------- MODULE MCCliCommands ----------------------------
(***************************************************************************)
(* Instances of CliCommands for TLC: two processes; the wallets' file      *)
(* starts empty, or with a wallet stored by an early version.              *)
(***************************************************************************)
EXTENDS CliCommands, TLC

CONSTANTS p1, p2, alice, bob, owner

MCProcesses == {p1, p2}
MCSymmetry == Permutations(MCProcesses)
MCInitial ==
  {<<>>, <<Wallet(alice, 1, TRUE)>>}
Stored1 == {<<Wallet(alice, 1, FALSE)>>}

\* One transaction a day.
DayLimit == {[NoOverrides EXCEPT !.maxTransactionsPerDay = {1}]}
=============================================================================
