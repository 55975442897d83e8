------------------------------ MODULE AgentFleet ------------------------------
(***************************************************************************)
(* AgentManager.runManagedTradeSimulation: a fleet of agents run in rounds *)
(* behind a barrier, each behind an AgentExecutionController that limits   *)
(* its rate and opens a circuit breaker after consecutive failures.        *)
(*                                                                         *)
(* The map over the agents runs every precheck before the first promise of *)
(* the round can settle, so a round begins in one step.                    *)
(*                                                                         *)
(* `starts' and `results' are history variables: no guard reads them.      *)
(***************************************************************************)
EXTENDS Integers, Sequences, FiniteSets, SequencesExt

CONSTANTS
  Agents,
  Rounds,
  MaxActionsPerWindow, WindowMs, MaxConsecutiveFailures, CooldownMs,
  MaxTime         \* bound: last instant of the clock

ASSUME ConstantsAssumption ==
  /\ Agents # {}
  /\ Rounds \in Nat
  /\ MaxActionsPerWindow \in Nat
  /\ WindowMs \in Nat
  /\ MaxConsecutiveFailures \in Nat \ {0}
  /\ CooldownMs \in Nat
  /\ MaxTime \in Nat

VARIABLES
  now,         \* Date.now()
  iteration,   \* the round that runs, or ran last
  controller,  \* controller[a]: AgentExecutionController
  pc,          \* pc[a]: "idle", "running" (awaits its action) or "returned"
  startedAt,   \* startedAt[a]: the `now' its round captured
  events,      \* events[a]: the statuses its rounds returned
  starts,      \* history: starts[a], instants its actions began
  results      \* history: results[a], whether they failed

vars == <<now, iteration, controller, pc, startedAt, events, starts, results>>

Init ==
  /\ now = 0
  /\ iteration = 0
  /\ controller = [a \in Agents |->
       [attemptsInWindow |-> <<>>, consecutiveFailures |-> 0,
        openUntilTimestamp |-> 0]]
  /\ pc = [a \in Agents |-> "idle"]
  /\ startedAt = [a \in Agents |-> 0]
  /\ events = [a \in Agents |-> <<>>]
  /\ starts = [a \in Agents |-> <<>>]
  /\ results = [a \in Agents |-> <<>>]

Tick ==
  /\ now < MaxTime
  /\ now' = now + 1
  /\ UNCHANGED <<iteration, controller, pc, startedAt, events, starts, results>>

-----------------------------------------------------------------------------
(* AgentExecutionController.                                               *)

\* filter: the instants at or after `cutoff', in their order.
Since(instants, cutoff) ==
  LET kept[i \in 0..Len(instants)] ==
        IF i = 0 THEN <<>>
        ELSE IF instants[i] >= cutoff THEN Append(kept[i - 1], instants[i])
        ELSE kept[i - 1]
  IN kept[Len(instants)]

\* Mutant: an attempt as old as the window is forgotten too early.
Pruned_Open(state) ==
  [state EXCEPT !.attemptsInWindow = Since(@, now - WindowMs + 1)]

\* pruneAttempts.
Pruned(state) ==
  [state EXCEPT !.attemptsInWindow = Since(@, now - WindowMs)]

Open(state) == now < state.openUntilTimestamp
RateExceeded(state) == Len(state.attemptsInWindow) >= MaxActionsPerWindow

\* beforeExecution on a pruned controller.
Admits(state) == ~Open(state) /\ ~RateExceeded(state)
Attempted(state) == [state EXCEPT !.attemptsInWindow = Append(@, now)]

\* Mutant: a success leaves the count of failures as it is.
Succeeded_KeepsCount(state) == state

\* recordSuccess.
Succeeded(state) == [state EXCEPT !.consecutiveFailures = 0]

\* Mutant: a failure one too many is needed.
Failed_Late(state, at) ==
  LET failures == state.consecutiveFailures + 1
  IN IF failures > MaxConsecutiveFailures
       THEN [state EXCEPT !.consecutiveFailures = 0,
                          !.openUntilTimestamp = at + CooldownMs]
       ELSE [state EXCEPT !.consecutiveFailures = failures]

\* recordFailure(at).
Failed(state, at) ==
  LET failures == state.consecutiveFailures + 1
  IN IF failures >= MaxConsecutiveFailures
       THEN [state EXCEPT !.consecutiveFailures = 0,
                          !.openUntilTimestamp = at + CooldownMs]
       ELSE [state EXCEPT !.consecutiveFailures = failures]

-----------------------------------------------------------------------------
(* The rounds.                                                             *)

\* Promise.all of the round has settled, or no round has begun.
AtBarrier == \A a \in Agents : pc[a] # "running"

Admitted == {a \in Agents : Admits(Pruned(controller[a]))}

\* The next round begins: every agent is checked, and the blocked ones return.
BeginRound ==
  /\ AtBarrier
  /\ iteration < Rounds
  /\ iteration' = iteration + 1
  /\ controller' = [a \in Agents |->
       IF a \in Admitted THEN Attempted(Pruned(controller[a]))
       ELSE Pruned(controller[a])]
  /\ pc' = [a \in Agents |-> IF a \in Admitted THEN "running" ELSE "returned"]
  /\ startedAt' = [a \in Agents |-> IF a \in Admitted THEN now ELSE startedAt[a]]
  /\ events' = [a \in Agents |->
       IF a \in Admitted THEN events[a] ELSE Append(events[a], "blocked")]
  /\ starts' = [a \in Agents |->
       IF a \in Admitted THEN Append(starts[a], now) ELSE starts[a]]
  /\ UNCHANGED <<now, results>>

Return(a, status) ==
  /\ pc' = [pc EXCEPT ![a] = "returned"]
  /\ events' = [events EXCEPT ![a] = Append(@, status)]
  /\ results' = [results EXCEPT ![a] = Append(@, status)]

\* The action resolves.
Execute(a) ==
  /\ pc[a] = "running"
  /\ controller' = [controller EXCEPT ![a] = Succeeded(@)]
  /\ Return(a, "executed")
  /\ UNCHANGED <<now, iteration, startedAt, starts>>

\* Mutant: the error of one agent's action is not caught.
Fail_Uncaught(a) ==
  /\ pc[a] = "running"
  /\ iteration' = Rounds + 1
  /\ UNCHANGED <<now, controller, pc, startedAt, events, starts, results>>

\* The action rejects.  The breaker is given the instant the round captured
\* before the await.
Fail(a) ==
  /\ pc[a] = "running"
  /\ controller' = [controller EXCEPT ![a] = Failed(@, startedAt[a])]
  /\ Return(a, "failed")
  /\ UNCHANGED <<now, iteration, startedAt, starts>>

Next ==
  \/ Tick
  \/ BeginRound
  \/ \E a \in Agents : Execute(a) \/ Fail(a)

Spec == Init /\ [][Next]_vars

\* The loop goes on when its barrier opens, and every action settles: each
\* promise of simulateMarketAction ends in a result or an error.
FairSpec ==
  /\ Spec
  /\ WF_vars(BeginRound)
  /\ \A a \in Agents : WF_vars(Execute(a) \/ Fail(a))

-----------------------------------------------------------------------------
(* Properties.                                                             *)

Times == 0..MaxTime
Statuses == {"executed", "failed", "blocked"}

\* Type invariant: the histories of an agent have the lengths its events give.
TypeOK ==
  /\ now \in Times
  /\ iteration \in 0..Rounds
  /\ controller \in [Agents -> [attemptsInWindow : Seq(Times),
                                consecutiveFailures : 0..(MaxConsecutiveFailures - 1),
                                openUntilTimestamp : Nat]]
  /\ pc \in [Agents -> {"idle", "running", "returned"}]
  /\ startedAt \in [Agents -> Times]
  /\ events \in [Agents -> Seq(Statuses)]
  /\ starts \in [Agents -> Seq(Times)]
  /\ results \in [Agents -> Seq({"executed", "failed"})]
  /\ \A a \in Agents :
       /\ Len(starts[a]) = Len(results[a]) + (IF pc[a] = "running" THEN 1 ELSE 0)
       /\ Len(events[a]) = iteration - (IF pc[a] = "running" THEN 1 ELSE 0)

\* However rounds, blocks and failures interleave, no agent begins more than
\* MaxActionsPerWindow actions in any window of WindowMs.
RateLimited ==
  \A a \in Agents : \A i \in DOMAIN starts[a] :
    i + MaxActionsPerWindow \in DOMAIN starts[a] =>
      starts[a][i + MaxActionsPerWindow] - starts[a][i] > WindowMs

\* The length of the run of failures that ends at the i-th action of a.
FailureRun(a, i) ==
  Cardinality({j \in 1..i : \A k \in j..i : results[a][k] = "failed"})

\* The breaker trips at every MaxConsecutiveFailures-th failure of a run.
Tripped(a, i) ==
  /\ results[a][i] = "failed"
  /\ FailureRun(a, i) % MaxConsecutiveFailures = 0

\* After a trip the agent stays away for the cooldown, counted from the start
\* of the action that tripped it (recordFailure is given that instant).
BreakerHolds ==
  \A a \in Agents : \A i \in DOMAIN results[a] :
    Tripped(a, i) /\ i < Len(starts[a]) =>
      starts[a][i + 1] >= starts[a][i] + CooldownMs

\* A block is never unfounded, nor forgotten: what the controller remembers is
\* what the agent's own history says - the last actions begun, with every one
\* still in the window, the failures since the last success or trip, the last
\* trip - so no agent pays for another's failures.
ControllerMatchesHistory ==
  \A a \in Agents :
    LET state == controller[a]
        trips == {i \in DOMAIN results[a] : Tripped(a, i)}
        n == Len(results[a])
        forgotten == Len(starts[a]) - Len(state.attemptsInWindow)
    IN /\ IsSuffix(state.attemptsInWindow, starts[a])
       /\ \A i \in 1..forgotten : starts[a][i] < now - WindowMs
       /\ state.consecutiveFailures =
            IF n = 0 THEN 0 ELSE FailureRun(a, n) % MaxConsecutiveFailures
       /\ state.openUntilTimestamp =
            IF trips = {} THEN 0
            ELSE starts[a][CHOOSE i \in trips : \A j \in trips : j <= i] + CooldownMs

\* An agent begins its actions one after the other, and while one runs the instant
\* its round captured is that of the last.
StartsInOrder ==
  \A a \in Agents :
    /\ \A i, j \in DOMAIN starts[a] : i <= j => starts[a][i] <= starts[a][j]
    /\ \A i \in DOMAIN starts[a] : starts[a][i] <= now
    /\ pc[a] = "running" => startedAt[a] = starts[a][Len(starts[a])]

\* The inductive invariant.
IndInv ==
  TypeOK /\ StartsInOrder /\ ControllerMatchesHistory /\ RateLimited /\ BreakerHolds

\* The fleet does its rounds: one agent that fails, or is blocked, does not
\* keep the others behind the barrier.
AllRoundsComplete ==
  <>(iteration = Rounds /\ \A a \in Agents : Len(events[a]) = Rounds)

=============================================================================
