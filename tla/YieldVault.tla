------------------------------- MODULE YieldVault -------------------------------
(***************************************************************************)
(* The testnet contracts: FiniteYieldVault, an ERC-4626 vault whose yield  *)
(* is a budget funded once and released linearly, and the TestUSDC it      *)
(* holds.  Holders have approved the vault for their tokens; the unlimited *)
(* share allowance, which is never lowered, is left out.  A call that      *)
(* fails a require changes nothing and is no step.                         *)
(***************************************************************************)
EXTENDS Integers, FiniteSets

CONSTANTS
  Holder,         \* accounts that hold tokens and shares
  ScheduleOwner,  \* the one that may freeze the yield schedule
  VaultAccount,   \* the vault's own token account
  Funds           \* [Holder -> Nat] : tokens minted at deployment

ASSUME VaultAssumption ==
    /\ IsFiniteSet(Holder) /\ ScheduleOwner \in Holder /\ VaultAccount \notin Holder
    /\ Funds \in [Holder -> Nat]

VARIABLES
  tokens,     \* [Holder and VaultAccount -> Nat] : TestUSDC.balanceOf
  shares,     \* [Holder -> Nat] : balanceOf of the vault, their sum totalSupply
  supply,     \* totalSupply
  allowance,  \* [Holder -> [Holder -> Nat]] : owner, spender
  schedule,   \* [frozen, start, end, budget]
  clock       \* block timestamp

vaultVars == <<tokens, shares, supply, allowance, schedule>>

VaultInit ==
    /\ tokens = [a \in Holder \cup {VaultAccount} |-> IF a \in Holder THEN Funds[a] ELSE 0]
    /\ shares = [h \in Holder |-> 0]
    /\ supply = 0
    /\ allowance = [h \in Holder |-> [s \in Holder |-> 0]]
    /\ schedule = [frozen |-> FALSE, start |-> 0, end |-> 0, budget |-> 0]

(* vestedYield *)
Vested ==
    IF ~schedule.frozen \/ clock <= schedule.start THEN 0
    ELSE IF clock >= schedule.end THEN schedule.budget
    ELSE (schedule.budget * (clock - schedule.start)) \div (schedule.end - schedule.start)

TotalAssets ==
    tokens[VaultAccount] - (IF schedule.frozen THEN schedule.budget - Vested ELSE 0)

ConvertToShares(assets) ==
    IF supply = 0 \/ TotalAssets = 0 THEN assets ELSE (assets * supply) \div TotalAssets

ConvertToAssets(n) == IF supply = 0 THEN n ELSE (n * TotalAssets) \div supply

(* previewMint and previewWithdraw round up, against the caller. *)
MintCost(n) ==
    IF supply = 0 \/ TotalAssets = 0 THEN n ELSE (n * TotalAssets + supply - 1) \div supply

RoundedDownMutant(assets) == ConvertToShares(assets)

WithdrawalShares(assets) ==
    IF supply = 0 \/ TotalAssets = 0 THEN assets
    ELSE (assets * supply + TotalAssets - 1) \div TotalAssets

(* TestUSDC._transfer *)
Transfer(from, to, amount) ==
    /\ tokens[from] >= amount
    /\ tokens' = [tokens EXCEPT ![from] = @ - amount, ![to] = @ + amount]

(* freezeYieldSchedule *)
FreezeYieldSchedule(start, end, budget) ==
    /\ ~schedule.frozen
    /\ clock < start /\ start < end /\ budget > 0
    /\ Transfer(ScheduleOwner, VaultAccount, budget)
    /\ schedule' = [frozen |-> TRUE, start |-> start, end |-> end, budget |-> budget]
    /\ UNCHANGED <<shares, supply, allowance>>

(* _mint *)
MintShares(to, n) ==
    /\ shares' = [shares EXCEPT ![to] = @ + n]
    /\ supply' = supply + n
    /\ UNCHANGED <<allowance, schedule>>

DepositAssets(sender, assets, receiver) ==
    LET n == ConvertToShares(assets)
    IN  /\ assets > 0 /\ n > 0
        /\ Transfer(sender, VaultAccount, assets)
        /\ MintShares(receiver, n)

Mint(sender, n, receiver) ==
    /\ n > 0
    /\ Transfer(sender, VaultAccount, MintCost(n))
    /\ MintShares(receiver, n)

(* _spendAndBurn: anyone but the owner spends an allowance. *)
SpendAndBurn(sender, owner, n) ==
    /\ \/ sender = owner /\ UNCHANGED allowance
       \/ /\ sender # owner /\ allowance[owner][sender] >= n
          /\ allowance' = [allowance EXCEPT ![owner][sender] = @ - n]
    /\ shares[owner] >= n
    /\ shares' = [shares EXCEPT ![owner] = @ - n]
    /\ supply' = supply - n
    /\ UNCHANGED schedule

WithdrawAssets(sender, assets, receiver, owner) ==
    /\ SpendAndBurn(sender, owner, WithdrawalShares(assets))
    /\ Transfer(VaultAccount, receiver, assets)

Redeem(sender, n, receiver, owner) ==
    /\ SpendAndBurn(sender, owner, n)
    /\ Transfer(VaultAccount, receiver, ConvertToAssets(n))

ApproveSpender(owner, spender, n) ==
    /\ allowance' = [allowance EXCEPT ![owner][spender] = n]
    /\ UNCHANGED <<tokens, shares, supply, schedule>>

(* TestUSDC.transfer straight to the vault: a gift to those who hold shares. *)
Donate(sender, amount) ==
    /\ Transfer(sender, VaultAccount, amount)
    /\ UNCHANGED <<shares, supply, allowance, schedule>>
===============================================================================
