--------------------------- MODULE AgentRegistry ---------------------------
(***************************************************************************)
(* contracts/src/AgentRegistry.sol: bonds, reputation and the counter of   *)
(* disputes pending against an account, which freezes its bond.            *)
(*                                                                         *)
(* A transaction that reverts changes nothing, so a revert is a disabled   *)
(* action.  isHuman and metadataURI are stored and never read on chain:    *)
(* registerAgent and registerHuman are both "register" here.               *)
(***************************************************************************)
EXTENDS Integers, FiniteSets

CONSTANTS Accounts,   \* addresses that may register, attest, challenge, vote
          MIN_BOND,
          MAX_BOND    \* bound: no account posts more than this as its bond

ASSUME RegistryAssumption ==
  /\ IsFiniteSet(Accounts)
  /\ MIN_BOND \in Nat \ {0}
  /\ MAX_BOND \in Nat

VARIABLES agents,           \* _agents
          pendingDisputes,
          registryBalance   \* ether held by the contract

registryVars == <<agents, pendingDisputes, registryBalance>>

\* "known" stands for addr # address(0): the account registered at least once.
Agent == [known: BOOLEAN, bond: Nat, reputation: Int, active: BOOLEAN]

NoAgent == [known |-> FALSE, bond |-> 0, reputation |-> 0, active |-> FALSE]

RegistryInit ==
  /\ agents = [a \in Accounts |-> NoAgent]
  /\ pendingDisputes = [a \in Accounts |-> 0]
  /\ registryBalance = 0

isRegistered(a) == agents[a].active

-----------------------------------------------------------------------------
\* Calls from accounts.

\* The record is overwritten: an agent that left comes back with reputation 0.
register(a, value) ==
  /\ value >= MIN_BOND
  /\ ~agents[a].active
  /\ agents' = [agents EXCEPT ![a] =
       [known |-> TRUE, bond |-> value, reputation |-> 0, active |-> TRUE]]
  /\ registryBalance' = registryBalance + value
  /\ UNCHANGED pendingDisputes

topUpBond(a, value) ==
  /\ agents[a].active
  /\ agents[a].bond + value <= MAX_BOND
  /\ agents' = [agents EXCEPT ![a].bond = @ + value]
  /\ registryBalance' = registryBalance + value
  /\ UNCHANGED pendingDisputes

\* Fault: the subtraction is unchecked and the minimum is not looked at.
WithdrawableUnchecked(a, amount) ==
  agents[a].known /\ pendingDisputes[a] = 0

\* Fault: pending disputes are not looked at.
WithdrawableInDispute(a, amount) ==
  LET remaining == agents[a].bond - amount IN
  /\ agents[a].known
  /\ remaining = 0 \/ remaining >= MIN_BOND

Withdrawable(a, amount) ==
  LET remaining == agents[a].bond - amount IN
  /\ agents[a].known
  /\ pendingDisputes[a] = 0
  /\ remaining >= 0
  /\ remaining = 0 \/ remaining >= MIN_BOND

LeftWith(agent, remaining) ==
  [agent EXCEPT !.bond = remaining, !.active = @ /\ remaining # 0]

withdrawBond(a, amount) ==
  /\ Withdrawable(a, amount)
  /\ agents' = [agents EXCEPT ![a] = LeftWith(@, agents[a].bond - amount)]
  /\ registryBalance' = registryBalance - amount
  /\ UNCHANGED pendingDisputes

-----------------------------------------------------------------------------
\* Calls from the other contracts, each the update of one variable.

\* One call per account with a delta other than 0.
adjustReputation(delta) ==
  /\ \A a \in Accounts : delta[a] # 0 => agents[a].known
  /\ agents' = [a \in Accounts |->
                  [agents[a] EXCEPT !.reputation = @ + delta[a]]]

setDisputePending(a, pending) ==
  /\ agents[a].known
  /\ \/ /\ pending
        /\ pendingDisputes' = [pendingDisputes EXCEPT ![a] = @ + 1]
     \/ /\ ~pending
        /\ pendingDisputes[a] # 0
        /\ pendingDisputes' = [pendingDisputes EXCEPT ![a] = @ - 1]
=============================================================================
