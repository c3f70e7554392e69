--------------------------- MODULE BombeProtocol ---------------------------
(***************************************************************************)
(* The four contracts as contracts/script/Deploy.s.sol wires them: every   *)
(* transaction of an account or of the operator, and the passing of time.  *)
(***************************************************************************)
EXTENDS TuringLeaderboard

vars == <<registryVars, attestationVars, slashingVars, leaderboardVars>>

Init ==
  /\ RegistryInit
  /\ AttestationInit
  /\ SlashingInit
  /\ LeaderboardInit

Register(a, v) ==
  register(a, v)
  /\ UNCHANGED <<attestationVars, slashingVars, leaderboardVars>>

TopUpBond(a, v) ==
  topUpBond(a, v)
  /\ UNCHANGED <<attestationVars, slashingVars, leaderboardVars>>

WithdrawBond(a, v) ==
  withdrawBond(a, v)
  /\ UNCHANGED <<attestationVars, slashingVars, leaderboardVars>>

PostClaim(c, tier) ==
  postClaim(c, tier)
  /\ UNCHANGED <<registryVars, slashingVars, leaderboardVars>>

CloseClaim(c) ==
  closeClaim(c)
  /\ UNCHANGED <<registryVars, slashingVars, leaderboardVars>>

Attest(a, c, d) ==
  attest(a, c, d)
  /\ UNCHANGED <<registryVars, slashingVars, leaderboardVars>>

OpenDispute(a, c, accused) ==
  openDispute(a, c, accused) /\ UNCHANGED leaderboardVars

Vote(a, id, agentWasWrong) ==
  vote(a, id, agentWasWrong) /\ UNCHANGED leaderboardVars

ResolveDispute(id) ==
  resolveDispute(id) /\ UNCHANGED leaderboardVars

Withdraw(a) ==
  withdraw(a) /\ UNCHANGED leaderboardVars

Receive ==
  receive /\ UNCHANGED leaderboardVars

\* A second passes; the epoch may end in it.
Tick ==
  /\ epoch' \in {epoch, epoch + 1}
  /\ epoch' <= MAX_EPOCH
  /\ disputes' = Aged
  /\ <<epoch, disputes>>' # <<epoch, disputes>>
  /\ UNCHANGED <<registryVars, attestationVars, claimable, totalBurned,
                 disputeCount, activeDispute, slashingBalance, surplus,
                 settled, lifetimeStats, epochStats, leaderboardBalance>>

AccountCall(a) ==
  \/ \E v \in 0 .. MAX_BOND :
       Register(a, v) \/ TopUpBond(a, v) \/ WithdrawBond(a, v)
  \/ \E c \in Claims, d \in Decision : Attest(a, c, d)
  \/ \E c \in Claims, accused \in Accounts : OpenDispute(a, c, accused)
  \/ \E id \in DisputeIds, w \in BOOLEAN : Vote(a, id, w)
  \/ Withdraw(a)

OperatorCall(c) ==
  \/ \E tier \in TIERS : PostClaim(c, tier)
  \/ CloseClaim(c)
  \/ \E truth \in Decision : settleTier1(c, truth)

Next ==
  \/ \E a \in Accounts : AccountCall(a)
  \/ \E c \in Claims : OperatorCall(c)
  \/ \E id \in DisputeIds : ResolveDispute(id)
  \/ Receive
  \/ Tick

Spec == Init /\ [][Next]_vars

-----------------------------------------------------------------------------
(***************************************************************************)
(* Fairness.  Blocks keep coming, and once a voting window has elapsed     *)
(* anyone may call resolveDispute: the challenger's bond and the accused's *)
(* frozen bond give both of them a reason to.                              *)
(***************************************************************************)
FairSpec ==
  /\ Spec
  /\ WF_vars(Tick)
  /\ \A id \in 0 .. MAX_DISPUTES - 1 :
       WF_vars(id \in DisputeIds /\ ResolveDispute(id))
=============================================================================
