----------------------------- MODULE DarkCoWHook -----------------------------
(***************************************************************************)
(* The Uniswap v4 hook of hook/src/DarkCoWHook.sol, call by call.          *)
(*                                                                         *)
(* A swap that asks for CoW matching is taken over in beforeSwap: the hook *)
(* mints itself claims on the input and returns a delta that makes the     *)
(* caller of swap owe that input.  A settlement (settleBalances) unlocks   *)
(* the PoolManager, and unlockCallback burns claims and takes currency for *)
(* every listed transfer, makes every listed swap, then takes or settles   *)
(* the net of the swaps.  The PoolManager's flash accounting (claims, the  *)
(* curve's holdings, the locker's deltas, CurrencyNotSettled) is external  *)
(* code, modelled from how the hook uses it.                               *)
(*                                                                         *)
(* One variable step is one call the hook makes on the PoolManager.  Any   *)
(* call may fail, and a failure undoes the whole transaction.              *)
(***************************************************************************)
EXTENDS Integers, Sequences, FiniteSets

CONSTANTS
    Currencies,      \* ERC-20 currencies
    Users,           \* traders' accounts
    Hook,            \* the hook's own account
    Pools,           \* pool ids
    PoolKeyOf,       \* [Pools -> keys]: the key each pool is initialized with
    NoKey,           \* the zero key poolKeys holds for an unknown pool
    Amounts,         \* magnitudes of amountSpecified a swap is made with
    TransferLists,   \* the lists of TransferBalance a settlement may carry
    SwapLists,       \* the lists of SwapBalance a settlement may carry
    MaxInt128,       \* the largest int128
    MaxQuote,        \* the largest amount one swap moves on one side
    InitHeld,        \* ERC-20 balances at the start
    InitAmm,         \* the curve's holdings at the start
    None

Accounts == Users \cup {Hook}
PoolKey == [currency0 : Currencies, currency1 : Currencies]
TransferBalance == [amount : Nat, currency : Currencies, sender : Users]
SwapBalance == [zeroForOne : BOOLEAN, amountSpecified : Int]
HookData == {None} \cup [cowEnabled : {0, 1}, sender : Users \cup {None}]

ASSUME HookAssumption ==
    /\ Hook \notin Users
    /\ IsFiniteSet(Users)
    /\ PoolKeyOf \in [Pools -> PoolKey]
    /\ \A p \in Pools : PoolKeyOf[p].currency0 # PoolKeyOf[p].currency1
    /\ NoKey \notin PoolKey
    /\ Amounts \subseteq Nat \ {0}
    /\ TransferLists \subseteq Seq(TransferBalance)
    /\ SwapLists \subseteq Seq(SwapBalance)
    /\ MaxInt128 \in Nat /\ MaxQuote \in Nat
    /\ InitHeld \in [Accounts -> [Currencies -> Nat]]
    /\ InitAmm \in [Currencies -> Nat]

VARIABLES
    poolKeys,    \* the hook's poolKeys
    reserves,    \* PoolManager: ERC-20 it really holds
    claims,      \* PoolManager: the hook's ERC-6909 balance
    amm,         \* PoolManager: what the pools' liquidity owns
    delta,       \* PoolManager: the hook's delta, negative when the hook owes
    held,        \* ERC-20 balances of the traders and the hook
    pc,          \* the next call of the transaction in progress, "idle" between them
    n,           \* the loop index of unlockCallback
    call,        \* the arguments of the transaction in progress
    swapDelta,   \* the local swapDelta of unlockCallback
    saved        \* the state a failure of the transaction restores

money == <<reserves, claims, amm, held>>
vars == <<poolKeys, reserves, claims, amm, delta, held, pc, n, call, swapDelta, saved>>

NoDelta == [c \in Currencies |-> 0]
ZeroDelta == [amount0 |-> 0, amount1 |-> 0]

Init ==
    /\ poolKeys = [p \in Pools |-> NoKey]
    /\ reserves = InitAmm
    /\ claims = NoDelta
    /\ amm = InitAmm
    /\ delta = NoDelta
    /\ held = InitHeld
    /\ pc = "idle"
    /\ n = 1
    /\ call = None
    /\ swapDelta = ZeroDelta
    /\ saved = None

InInt128(x) == -MaxInt128 - 1 <= x /\ x <= MaxInt128

(* Solidity's int128(x): x modulo 2^128, read as a signed number.          *)
Int128(x) ==
    IF InInt128(x) THEN x
    ELSE ((x + MaxInt128 + 1) % (2 * MaxInt128 + 2)) - MaxInt128 - 1

Input(key, zeroForOne)  == IF zeroForOne THEN key.currency0 ELSE key.currency1
Output(key, zeroForOne) == IF zeroForOne THEN key.currency1 ELSE key.currency0

------------------------------------------------------------------------------
(* The PoolManager's operations, as the hook calls them.                   *)

(* burn(hook, c, a): the hook gives up claims and is owed as much.         *)
Burn(c, a) ==
    /\ a <= MaxInt128 /\ a <= claims[c]
    /\ claims' = [claims EXCEPT ![c] = @ - a]
    /\ delta' = [delta EXCEPT ![c] = @ + a]

(* mint(hook, c, a): the hook gets claims and owes as much.                *)
Mint(c, a) ==
    /\ a <= MaxInt128
    /\ claims' = [claims EXCEPT ![c] = @ + a]
    /\ delta' = [delta EXCEPT ![c] = @ - a]

(* take(c, to, a): currency leaves the PoolManager on the hook's account.  *)
Take(c, to, a) ==
    /\ a <= MaxInt128 /\ a <= reserves[c]
    /\ reserves' = [reserves EXCEPT ![c] = @ - a]
    /\ delta' = [delta EXCEPT ![c] = @ - a]
    /\ held' = [held EXCEPT ![to][c] = @ + a]

(* What one swap may do: x goes into the curve and y comes out; the price  *)
(* limit may stop it short of the amount specified.                        *)
Quote(key, zeroForOne, amountSpecified, x, y) ==
    /\ amountSpecified # 0
    /\ amountSpecified < 0 => x <= -amountSpecified
    /\ amountSpecified > 0 => y <= amountSpecified
    /\ y > 0 => x > 0
    /\ y <= amm[Output(key, zeroForOne)]

Curve(key, zeroForOne, x, y) ==
    amm' = [amm EXCEPT ![Input(key, zeroForOne)] = @ + x,
                       ![Output(key, zeroForOne)] = @ - y]

------------------------------------------------------------------------------
(* Transactions: the lock, a failure, and the check when the lock returns. *)

Unlock(target, args) ==
    /\ pc = "idle"
    /\ pc' = target
    /\ call' = args
    /\ n' = 1
    /\ swapDelta' = ZeroDelta
    /\ saved' = [reserves |-> reserves, claims |-> claims, amm |-> amm, held |-> held]

Relock ==
    /\ pc' = "idle"
    /\ call' = None
    /\ saved' = None
    /\ n' = 1
    /\ swapDelta' = ZeroDelta

(* The PoolManager ends the unlock only when every delta is settled.       *)
Return ==
    /\ pc = "return"
    /\ delta = NoDelta
    /\ Relock
    /\ UNCHANGED <<poolKeys, money, delta>>

(* A failing call, wherever it is, undoes the whole transaction.           *)
Revert ==
    /\ pc # "idle"
    /\ reserves' = saved.reserves
    /\ claims' = saved.claims
    /\ amm' = saved.amm
    /\ held' = saved.held
    /\ delta' = NoDelta
    /\ Relock
    /\ UNCHANGED poolKeys

------------------------------------------------------------------------------
(* afterInitialize: the PoolManager initializes a pool at most once.       *)
AfterInitialize(p) ==
    /\ pc = "idle"
    /\ poolKeys[p] = NoKey
    /\ poolKeys' = [poolKeys EXCEPT ![p] = PoolKeyOf[p]]
    /\ UNCHANGED <<money, delta, pc, n, call, swapDelta, saved>>

(* The conditions under which beforeSwap takes a swap over.                *)
TakesOver(hookData, amountSpecified) ==
    /\ hookData # None
    /\ hookData.cowEnabled = 1
    /\ amountSpecified <= 0
    /\ hookData.sender # None

(* A swap beforeSwap lets through: it returns the zero delta, the curve    *)
(* makes the swap and the router settles it for the trader.                *)
PlainSwap(u, p, zeroForOne, amountSpecified, hookData) ==
    LET key == poolKeys[p]
        in  == Input(key, zeroForOne)
        out == Output(key, zeroForOne)
    IN  /\ pc = "idle"
        /\ key # NoKey
        /\ ~TakesOver(hookData, amountSpecified)
        /\ \E x, y \in 0..MaxQuote :
            /\ Quote(key, zeroForOne, amountSpecified, x, y)
            /\ x <= held[u][in]
            /\ Curve(key, zeroForOne, x, y)
            /\ held' = [held EXCEPT ![u][in] = @ - x, ![u][out] = @ + y]
            /\ reserves' = [reserves EXCEPT ![in] = @ + x, ![out] = @ - y]
        /\ UNCHANGED <<poolKeys, claims, delta, pc, n, call, swapDelta, saved>>

(* The delta returned for the specified currency: -int128(amountSpecified);*)
(* with the sign dropped it would credit the router.                       *)
ReturnedUnsigned(amountSpecified) == Int128(amountSpecified)
Returned(amountSpecified) == -Int128(amountSpecified)

(* A swap beforeSwap takes over: claims on the input are minted to the     *)
(* hook, the task is created, and the input is handed back as the delta.   *)
BeforeSwap(u, p, zeroForOne, amountSpecified, hookData) ==
    LET key == poolKeys[p]
        in  == Input(key, zeroForOne)
    IN  /\ key # NoKey
        /\ amountSpecified # 0
        /\ TakesOver(hookData, amountSpecified)
        /\ Unlock("escrowed", [user |-> u, currency |-> in,
                               returned |-> Returned(amountSpecified)])
        /\ Mint(in, -amountSpecified)
        /\ UNCHANGED <<poolKeys, reserves, amm, held>>

(* The PoolManager books the delta beforeSwap returned to the hook and     *)
(* charges it to the router, which pays it with the trader's currency.     *)
ChargeSwapper ==
    /\ pc = "escrowed"
    /\ call.returned <= held[call.user][call.currency]
    /\ delta' = [delta EXCEPT ![call.currency] = @ + call.returned]
    /\ held' = [held EXCEPT ![call.user][call.currency] = @ - call.returned]
    /\ reserves' = [reserves EXCEPT ![call.currency] = @ + call.returned]
    /\ pc' = "return"
    /\ UNCHANGED <<poolKeys, claims, amm, n, call, swapDelta, saved>>

------------------------------------------------------------------------------
(* settleBalances and unlockCallback.                                      *)

SettleBalances(p, transfers, swaps) ==
    /\ Unlock("burn", [key |-> poolKeys[p], transfers |-> transfers, swaps |-> swaps])
    /\ UNCHANGED <<poolKeys, money, delta>>

(* The transfer of this round of the loop; the wrong one is its first.     *)
FirstTransfer == call.transfers[1]
Burnt == call.transfers[n]
FirstTaker == FirstTransfer.sender
Taker == call.transfers[n].sender

(* The transfer loop: burn the claims, then take the currency.             *)
BurnTransfer ==
    /\ pc = "burn" /\ n <= Len(call.transfers)
    /\ Burn(Burnt.currency, Burnt.amount)
    /\ pc' = "take"
    /\ UNCHANGED <<poolKeys, reserves, amm, held, n, call, swapDelta, saved>>

TakeTransfer ==
    /\ pc = "take"
    /\ Take(call.transfers[n].currency, Taker, call.transfers[n].amount)
    /\ n' = n + 1
    /\ pc' = "burn"
    /\ UNCHANGED <<poolKeys, claims, amm, call, swapDelta, saved>>

EndTransfers ==
    /\ pc = "burn" /\ n > Len(call.transfers)
    /\ n' = 1
    /\ pc' = "swap"
    /\ UNCHANGED <<poolKeys, money, delta, call, swapDelta, saved>>

(* swapDelta grows by the delta of each swap; the wrong one forgets those  *)
(* before.                                                                 *)
LastDelta(amount0, amount1) == [amount0 |-> amount0, amount1 |-> amount1]
AddDelta(amount0, amount1) ==
    [amount0 |-> swapDelta.amount0 + amount0, amount1 |-> swapDelta.amount1 + amount1]

(* The swap loop: every swap is made under the one key of the settlement.  *)
(* The hook is the swapper, so the PoolManager does not call it back.      *)
SwapOne ==
    /\ pc = "swap" /\ n <= Len(call.swaps) /\ call.key # NoKey
    /\ LET key == call.key
           s   == call.swaps[n]
       IN  \E x, y \in 0..MaxQuote :
            LET amount0 == IF s.zeroForOne THEN -x ELSE y
                amount1 == IF s.zeroForOne THEN y ELSE -x
            IN  /\ Quote(key, s.zeroForOne, s.amountSpecified, x, y)
                /\ InInt128(swapDelta.amount0 + amount0)
                /\ InInt128(swapDelta.amount1 + amount1)
                /\ Curve(key, s.zeroForOne, x, y)
                /\ delta' = [delta EXCEPT ![key.currency0] = @ + amount0,
                                          ![key.currency1] = @ + amount1]
                /\ swapDelta' = AddDelta(amount0, amount1)
    /\ n' = n + 1
    /\ UNCHANGED <<poolKeys, reserves, claims, held, pc, call, saved>>

EndSwaps ==
    /\ pc = "swap" /\ n > Len(call.swaps)
    /\ pc' = "net0"
    /\ UNCHANGED <<poolKeys, money, delta, n, call, swapDelta, saved>>

(* The net of the swaps in one currency: what the curve owes is taken to   *)
(* the hook itself, what it is owed is settled by burning claims.          *)
TakeNetAsClaims(c, amount) ==    \* wrong: mints claims, where only escrow should be
    /\ amount > 0
    /\ Mint(c, amount)
    /\ UNCHANGED <<reserves, held, amm>>

TakeNet(c, amount) ==
    /\ amount > 0
    /\ Take(c, Hook, amount)
    /\ UNCHANGED <<claims, amm>>

SettleNet(c, amount) ==
    /\ amount < 0
    /\ Burn(c, -amount)
    /\ UNCHANGED <<reserves, held, amm>>

NoNet(amount) ==
    /\ amount = 0
    /\ UNCHANGED <<money, delta>>

Net0 ==
    /\ pc = "net0"
    /\ \/ NoNet(swapDelta.amount0)
       \/ TakeNet(call.key.currency0, swapDelta.amount0)
       \/ SettleNet(call.key.currency0, swapDelta.amount0)
    /\ pc' = "net1"
    /\ UNCHANGED <<poolKeys, n, call, swapDelta, saved>>

Net1 ==
    /\ pc = "net1"
    /\ \/ NoNet(swapDelta.amount1)
       \/ TakeNet(call.key.currency1, swapDelta.amount1)
       \/ SettleNet(call.key.currency1, swapDelta.amount1)
    /\ pc' = "return"
    /\ UNCHANGED <<poolKeys, n, call, swapDelta, saved>>

------------------------------------------------------------------------------
Swap ==
    \E u \in Users, p \in Pools, zeroForOne \in BOOLEAN, hookData \in HookData,
       amountSpecified \in Amounts \cup {-a : a \in Amounts} :
        \/ PlainSwap(u, p, zeroForOne, amountSpecified, hookData)
        \/ BeforeSwap(u, p, zeroForOne, amountSpecified, hookData)

UnlockCallback ==
    \/ BurnTransfer \/ TakeTransfer \/ EndTransfers
    \/ SwapOne \/ EndSwaps \/ Net0 \/ Net1

Next ==
    \/ \E p \in Pools : AfterInitialize(p)
    \/ Swap
    \/ ChargeSwapper
    \/ \E p \in Pools, ts \in TransferLists, ss \in SwapLists : SettleBalances(p, ts, ss)
    \/ UnlockCallback
    \/ Return
    \/ Revert

Spec == Init /\ [][Next]_vars

------------------------------------------------------------------------------
SwapCall == [user : Users, currency : Currencies, returned : Nat]
SettleCall == [key : PoolKey \cup {NoKey}, transfers : TransferLists, swaps : SwapLists]
Settling == {"burn", "take", "swap", "net0", "net1"}

(* What the first transfers of a list pay u in c, for every number of them.*)
OwedTo(transfers, u, c) ==
    LET owed[k \in 0..Len(transfers)] ==
            IF k = 0 THEN 0
            ELSE IF transfers[k].sender = u /\ transfers[k].currency = c
                 THEN owed[k - 1] + transfers[k].amount ELSE owed[k - 1]
    IN  owed
Owed(transfers, u, c) == OwedTo(transfers, u, c)[Len(transfers)]

(* Every variable has its type.  claims, reserves, amm and held stay       *)
(* natural numbers: no burn, take or swap ever overdraws them.             *)
TypeOK ==
    /\ poolKeys \in [Pools -> PoolKey \cup {NoKey}]
    /\ reserves \in [Currencies -> Nat]
    /\ claims \in [Currencies -> Nat]
    /\ amm \in [Currencies -> Nat]
    /\ delta \in [Currencies -> Int]
    /\ held \in [Accounts -> [Currencies -> Nat]]
    /\ pc \in {"idle", "escrowed", "return"} \cup Settling
    /\ n \in Nat \ {0}
    /\ pc = "escrowed" => call \in SwapCall
    /\ pc \in Settling => call \in SettleCall
    /\ swapDelta \in [amount0 : Int, amount1 : Int]
    /\ pc # "idle" => saved \in [reserves : [Currencies -> Nat], claims : [Currencies -> Nat],
                                 amm : [Currencies -> Nat],
                                 held : [Accounts -> [Currencies -> Nat]]]

(* What the PoolManager really holds is what it owes, at every call of     *)
(* every transaction: to the hook's claims, to the pools' liquidity and to *)
(* the locker.                                                             *)
Solvency ==
    \A c \in Currencies : reserves[c] = claims[c] + amm[c] + delta[c]

(* A settlement that burnt the claims can take the currency: neither the   *)
(* take of a transfer nor the take of the swaps' net can find the          *)
(* PoolManager short, so only missing claims or the curve can stop         *)
(* unlockCallback.                                                         *)
TakesAreCovered ==
    /\ pc = "take" => call.transfers[n].amount <= reserves[call.transfers[n].currency]
    /\ pc = "net0" /\ swapDelta.amount0 > 0 => swapDelta.amount0 <= reserves[call.key.currency0]
    /\ pc = "net1" /\ swapDelta.amount1 > 0 => swapDelta.amount1 <= reserves[call.key.currency1]

(* beforeSwap and unlockCallback leave no delta behind: whatever transfers *)
(* and swaps a settlement lists, netting the two currencies of its one key *)
(* settles everything, so no unlock fails with CurrencyNotSettled.         *)
NothingUnsettled ==
    pc = "return" => delta = NoDelta

(* A settlement that commits pays every trader exactly what its transfer   *)
(* list says, per currency, and no trader anything else: the swaps and the *)
(* netting after the loop of transfers reach no trader.                    *)
PaysTheBatch ==
    [][ Return /\ call \in SettleCall =>
          \A u \in Users, c \in Currencies :
             held'[u][c] - saved.held[u][c] = Owed(call.transfers, u, c) ]_vars

(* The hook implements the atomic ledger: its claims are the escrow, and a *)
(* transaction in progress has not happened yet.                           *)
Committed(now, before) == IF pc = "idle" THEN now ELSE before

Ledger == INSTANCE EscrowLedger WITH
    Keys <- {PoolKeyOf[p] : p \in Pools},
    escrow <- Committed(claims, saved.claims),
    amm <- Committed(amm, saved.amm),
    held <- Committed(held, saved.held)

(* settleBalances and beforeSwap, call by call and with a failure possible *)
(* at each call, do what the ledger does in one step: escrow is spent only *)
(* on the traders paid and on the curve's input, and the curve's output    *)
(* and nothing else reaches the hook.                                      *)
ImplementsLedger == Ledger!LedgerSpec
=============================================================================
