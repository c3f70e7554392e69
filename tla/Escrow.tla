------------------------------- MODULE Escrow -------------------------------
(***************************************************************************)
(* What the contracts promise about money, without saying how.  A stake or *)
(* a claim fee is locked once and leaves once; a challenge has a bond on   *)
(* the table and there is at most one per stake at a time; whatever leaves *)
(* is either owed to an account or burned, to the last unit.  A winner     *)
(* gets the whole stake back, a loser nothing, at least half of a lost     *)
(* stake is burned, and nobody outside the claim gains.                    *)
(***************************************************************************)
EXTENDS Money

CONSTANTS Accounts, Claims, STAKE, FEE, BOND

VARIABLES stake,        \* per claim and account: "none", "locked" or "gone"
          fee,          \* per claim: "none", "held" or "gone"
          challenged,   \* pairs <<claim, account>> with a bond on the table
          owed,         \* per account: what it may withdraw
          burned

escrowVars == <<stake, fee, challenged, owed, burned>>

EscrowInit ==
  /\ stake = [c \in Claims |-> [a \in Accounts |-> "none"]]
  /\ fee = [c \in Claims |-> "none"]
  /\ challenged = {}
  /\ owed = [a \in Accounts |-> 0]
  /\ burned = 0

Locked(c) == {a \in Accounts : stake[c][a] = "locked"}

Staked(c) == {a \in Accounts : stake[c][a] # "none"}

\* "total" leaves the escrow, at least "least" of it burned, and what is not
\* burned goes to members of "winners".
PayOut(total, least, winners) ==
  /\ owed' \in [Accounts -> Nat]
  /\ \A a \in Accounts : IF a \in winners THEN owed'[a] >= owed[a]
                                          ELSE owed'[a] = owed[a]
  /\ burned' >= burned + least
  /\ Total(owed') + burned' = Total(owed) + burned + total

TakeFee(c) ==
  /\ fee[c] = "none"
  /\ fee' = [fee EXCEPT ![c] = "held"]
  /\ UNCHANGED <<stake, challenged, owed, burned>>

Lock(c, a) ==
  /\ fee[c] = "held"
  /\ stake[c][a] = "none"
  /\ stake' = [stake EXCEPT ![c][a] = "locked"]
  /\ UNCHANGED <<fee, challenged, owed, burned>>

Challenge(c, a) ==
  /\ stake[c][a] = "locked"
  /\ <<c, a>> \notin challenged
  /\ challenged' = challenged \union {<<c, a>>}
  /\ UNCHANGED <<stake, fee, owed, burned>>

\* The challenger was right: the bond goes back, the stake is split between
\* the challenger and those who staked on the same claim.
Uphold(c, a, challenger) ==
  /\ <<c, a>> \in challenged
  /\ stake[c][a] = "locked"
  /\ challenged' = challenged \ {<<c, a>>}
  /\ stake' = [stake EXCEPT ![c][a] = "gone"]
  /\ PayOut(STAKE + BOND, STAKE \div 2, (Staked(c) \ {a}) \union {challenger})
  /\ owed'[challenger] >= owed[challenger] + BOND
  /\ UNCHANGED fee

\* The challenger was wrong: the bond is split with the accused, in halves.
Dismiss(c, a) ==
  /\ <<c, a>> \in challenged
  /\ challenged' = challenged \ {<<c, a>>}
  /\ PayOut(BOND, BOND - BOND \div 2, {a})
  /\ owed'[a] = owed[a] + BOND \div 2
  /\ UNCHANGED <<stake, fee>>

\* All the stakes of a claim and its fee leave together.
Settle(c) ==
  /\ fee[c] = "held"
  /\ fee' = [fee EXCEPT ![c] = "gone"]
  /\ stake' = [stake EXCEPT ![c] =
       [a \in Accounts |-> IF @[a] = "locked" THEN "gone" ELSE @[a]]]
  /\ \E winners \in SUBSET Locked(c) :
       /\ PayOut(Cardinality(Locked(c)) * STAKE + FEE,
                 Cardinality(Locked(c) \ winners) * (STAKE \div 2), winners)
       /\ \A a \in winners : owed'[a] >= owed[a] + STAKE
  /\ UNCHANGED challenged

Collect(a) ==
  /\ owed' = [owed EXCEPT ![a] = 0]
  /\ UNCHANGED <<stake, fee, challenged, burned>>

EscrowNext ==
  \/ \E c \in Claims : TakeFee(c) \/ Settle(c)
  \/ \E c \in Claims, a \in Accounts :
       \/ Lock(c, a) \/ Challenge(c, a) \/ Dismiss(c, a)
       \/ \E challenger \in Accounts : Uphold(c, a, challenger)
  \/ \E a \in Accounts : Collect(a)

EscrowSpec == EscrowInit /\ [][EscrowNext]_escrowVars
=============================================================================
