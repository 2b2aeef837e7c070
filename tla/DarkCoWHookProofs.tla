--------------------------- MODULE DarkCoWHookProofs ---------------------------
(***************************************************************************)
(* Theorems about DarkCoWHook, for every set of currencies, pools and      *)
(* traders and every transfer and swap list.                               *)
(*                                                                         *)
(* The inductive invariant says, for each point of unlockCallback, what    *)
(* the hook's delta is: nothing between transfers, the amount just burnt   *)
(* between a burn and its take, swapDelta in the two currencies of the     *)
(* settlement's key during the swaps, and its second half before Net1.     *)
(*                                                                         *)
(* That the hook implements EscrowLedger takes more: where the escrow of   *)
(* the settlement in progress has gone so far (LedgerInv).  A step of the  *)
(* ledger is the Return of a transaction, which finds everything moved.    *)
(***************************************************************************)
EXTENDS DarkCoWHook, FiniteSums, TLAPS

ValidKey(key) == key \in PoolKey /\ key.currency0 # key.currency1

(* The keys in use are those of initialized pools, of two currencies.      *)
KeyInv ==
    /\ \A p \in Pools : poolKeys[p] = NoKey \/ ValidKey(poolKeys[p])
    /\ pc \in Settling => call.key = NoKey \/ ValidKey(call.key)

(* A failing transaction goes back to a state with nothing outstanding.    *)
SavedInv ==
    pc # "idle" =>
        \A c \in Currencies : saved.reserves[c] = saved.claims[c] + saved.amm[c]

Net(c) ==
    IF call.key # NoKey /\ c = call.key.currency0 THEN swapDelta.amount0
    ELSE IF call.key # NoKey /\ c = call.key.currency1 THEN swapDelta.amount1
    ELSE 0

(* The hook's delta at each point of a transaction.                        *)
DeltaInv ==
    /\ pc \in {"idle", "burn", "return"} => \A c \in Currencies : delta[c] = 0
    /\ pc = "escrowed" =>
        \A c \in Currencies : delta[c] = IF c = call.currency THEN -call.returned ELSE 0
    /\ pc = "take" =>
        /\ n <= Len(call.transfers)
        /\ \A c \in Currencies :
            delta[c] = IF c = call.transfers[n].currency THEN call.transfers[n].amount ELSE 0
    /\ pc \in {"swap", "net0"} => \A c \in Currencies : delta[c] = Net(c)
    /\ pc = "net1" =>
        \A c \in Currencies :
            delta[c] = IF call.key # NoKey /\ c = call.key.currency0 THEN 0 ELSE Net(c)
    /\ pc \in {"burn", "take"} => swapDelta = ZeroDelta
    /\ pc \in Settling /\ call.key = NoKey => swapDelta = ZeroDelta

IInv == TypeOK /\ Solvency /\ KeyInv /\ SavedInv /\ DeltaInv

------------------------------------------------------------------------------
(* Before anything is initialized nothing is owed.                         *)
LEMMA InitIInv == Init => IInv
  <1> SUFFICES ASSUME Init PROVE IInv
    OBVIOUS
  <1> USE HookAssumption DEF Init
  <1>1. TypeOK
    BY DEF TypeOK, NoDelta, ZeroDelta, Settling
  <1>2. Solvency
    BY DEF Solvency, NoDelta
  <1>3. KeyInv /\ SavedInv
    BY DEF KeyInv, SavedInv, Settling
  <1>4. DeltaInv
    BY DEF DeltaInv, NoDelta, ZeroDelta, Settling
  <1> QED
    BY <1>1, <1>2, <1>3, <1>4 DEF IInv

(* beforeSwap takes over: the amount minted is the amount handed back.     *)
LEMMA BeforeSwapIInv ==
    ASSUME IInv, NEW u \in Users, NEW p \in Pools, NEW z \in BOOLEAN, NEW d \in HookData,
           NEW a \in Int, BeforeSwap(u, p, z, a, d)
    PROVE  IInv'
  <1> DEFINE in == Input(poolKeys[p], z)
  <1>1. poolKeys[p] \in PoolKey /\ poolKeys[p].currency0 # poolKeys[p].currency1
    BY DEF BeforeSwap, IInv, KeyInv, ValidKey
  <1>2. in \in Currencies
    BY <1>1 DEF Input, PoolKey
  <1>3. a < 0 /\ -a <= MaxInt128 /\ Int128(a) = a /\ -a \in Nat
    BY HookAssumption DEF BeforeSwap, TakesOver, Mint, Int128, InInt128
  <1>4. /\ call' = [user |-> u, currency |-> in, returned |-> -a]
        /\ pc' = "escrowed" /\ pc = "idle" /\ n' = 1 /\ swapDelta' = ZeroDelta
        /\ saved' = [reserves |-> reserves, claims |-> claims, amm |-> amm, held |-> held]
        /\ claims' = [claims EXCEPT ![in] = @ - a]
        /\ delta' = [delta EXCEPT ![in] = @ + a]
        /\ UNCHANGED <<poolKeys, reserves, amm, held>>
    <2>1. claims' = [claims EXCEPT ![in] = @ + (-a)] /\ delta' = [delta EXCEPT ![in] = @ - (-a)]
      BY DEF BeforeSwap, Mint
    <2>2. claims[in] + (-a) = claims[in] - a /\ delta[in] - (-a) = delta[in] + a
      <3>1. claims[in] \in Int /\ delta[in] \in Int
        BY <1>2 DEF IInv, TypeOK
      <3> QED
        BY <3>1
    <2> QED
      BY <1>3, <2>1, <2>2 DEF BeforeSwap, Unlock, Returned
  <1>5. TypeOK'
    BY <1>2, <1>3, <1>4, HookAssumption DEF IInv, TypeOK, SwapCall, Settling, ZeroDelta
  <1>6. Solvency'
    BY <1>2, <1>3, <1>4 DEF IInv, TypeOK, Solvency, DeltaInv
  <1>7. KeyInv' /\ SavedInv'
    BY <1>4 DEF IInv, TypeOK, KeyInv, SavedInv, Solvency, DeltaInv, Settling
  <1>8. DeltaInv'
    BY <1>2, <1>3, <1>4 DEF IInv, TypeOK, DeltaInv, Settling
  <1> QED
    BY <1>5, <1>6, <1>7, <1>8 DEF IInv

(* The router's payment cancels the delta of the mint.                     *)
LEMMA ChargeSwapperIInv == IInv /\ ChargeSwapper => IInv'
  <1> SUFFICES ASSUME IInv, ChargeSwapper PROVE IInv'
    OBVIOUS
  <1>1. /\ call.user \in Users /\ call.currency \in Currencies /\ call.returned \in Nat
        /\ call.user \in Accounts
    BY DEF ChargeSwapper, IInv, TypeOK, SwapCall, Accounts
  <1>2. TypeOK'
    BY <1>1 DEF ChargeSwapper, IInv, TypeOK, Settling
  <1>3. Solvency'
    BY <1>1 DEF ChargeSwapper, IInv, TypeOK, Solvency
  <1>4. KeyInv' /\ SavedInv'
    BY DEF ChargeSwapper, IInv, KeyInv, SavedInv, Settling
  <1>5. DeltaInv'
    BY <1>1 DEF ChargeSwapper, IInv, TypeOK, DeltaInv, Settling
  <1> QED
    BY <1>2, <1>3, <1>4, <1>5 DEF IInv

(* A swap the hook lets through changes neither claims nor deltas.         *)
LEMMA PlainSwapIInv ==
    ASSUME IInv, NEW u \in Users, NEW p \in Pools, NEW z \in BOOLEAN, NEW d \in HookData,
           NEW a \in Int, PlainSwap(u, p, z, a, d)
    PROVE  IInv'
  <1> DEFINE in == Input(poolKeys[p], z)
             out == Output(poolKeys[p], z)
  <1>1. in \in Currencies /\ out \in Currencies /\ in # out
    BY DEF PlainSwap, IInv, KeyInv, ValidKey, Input, Output, PoolKey
  <1>2. PICK x \in 0..MaxQuote, y \in 0..MaxQuote :
          /\ x <= held[u][in] /\ y <= amm[out]
          /\ amm' = [amm EXCEPT ![in] = @ + x, ![out] = @ - y]
          /\ held' = [held EXCEPT ![u][in] = @ - x, ![u][out] = @ + y]
          /\ reserves' = [reserves EXCEPT ![in] = @ + x, ![out] = @ - y]
    BY Zenon DEF PlainSwap, Quote, Curve
  <1>0. x \in Nat /\ y \in Nat
    BY HookAssumption
  <1>3. pc = "idle" /\ UNCHANGED <<poolKeys, claims, delta, pc, n, call, swapDelta, saved>>
    BY DEF PlainSwap
  <1> HIDE DEF in, out
  <1>4. u \in Accounts
    BY DEF Accounts
  <1>5. /\ amm' \in [Currencies -> Nat]
        /\ held' \in [Accounts -> [Currencies -> Nat]]
    <2>1. amm' \in [Currencies -> Nat]
      BY <1>0, <1>1, <1>2 DEF IInv, TypeOK
    <2>2. held[u] \in [Currencies -> Nat]
      BY <1>4 DEF IInv, TypeOK
    <2>3. [held[u] EXCEPT ![in] = @ - x] \in [Currencies -> Nat]
      BY <1>0, <1>1, <1>2, <2>2
    <2>4. held' \in [Accounts -> [Currencies -> Nat]]
      BY <1>0, <1>1, <1>2, <1>4, <2>2, <2>3 DEF IInv, TypeOK
    <2> QED
      BY <2>1, <2>4
  <1>9. y <= reserves[out]
    BY <1>0, <1>1, <1>2, <1>3 DEF IInv, TypeOK, Solvency, DeltaInv
  <1>10. reserves' \in [Currencies -> Nat]
    BY <1>0, <1>1, <1>2, <1>9 DEF IInv, TypeOK
  <1>6. Solvency'
    BY <1>0, <1>1, <1>2, <1>3 DEF IInv, TypeOK, Solvency
  <1>7. TypeOK'
    BY <1>3, <1>5, <1>10 DEF IInv, TypeOK, Settling
  <1>8. KeyInv' /\ SavedInv' /\ DeltaInv'
    BY <1>3 DEF IInv, KeyInv, SavedInv, DeltaInv, Settling
  <1> QED
    BY <1>6, <1>7, <1>8 DEF IInv

(* A pool's key is set between transactions and moves nothing.             *)
LEMMA AfterInitializeIInv ==
    ASSUME IInv, NEW p \in Pools, AfterInitialize(p)
    PROVE  IInv'
  <1>1. PoolKeyOf[p] \in PoolKey /\ PoolKeyOf[p].currency0 # PoolKeyOf[p].currency1
    BY HookAssumption
  <1>2. TypeOK'
    BY <1>1 DEF AfterInitialize, money, IInv, TypeOK, Settling
  <1>3. Solvency' /\ SavedInv' /\ DeltaInv'
    BY DEF AfterInitialize, money, IInv, Solvency, SavedInv, DeltaInv, Settling
  <1>4. KeyInv'
    BY <1>1 DEF AfterInitialize, money, IInv, TypeOK, KeyInv, ValidKey, Settling
  <1> QED
    BY <1>2, <1>3, <1>4 DEF IInv

(* A settlement starts with nothing outstanding and its pool's key.        *)
LEMMA SettleBalancesIInv ==
    ASSUME IInv, NEW p \in Pools, NEW ts \in TransferLists, NEW ss \in SwapLists,
           SettleBalances(p, ts, ss)
    PROVE  IInv'
  <1>1. /\ call' = [key |-> poolKeys[p], transfers |-> ts, swaps |-> ss]
        /\ pc = "idle" /\ pc' = "burn" /\ n' = 1 /\ swapDelta' = ZeroDelta
        /\ saved' = [reserves |-> reserves, claims |-> claims, amm |-> amm, held |-> held]
        /\ UNCHANGED <<poolKeys, reserves, claims, amm, held, delta>>
    BY DEF SettleBalances, Unlock, money
  <1>2. TypeOK'
    BY <1>1 DEF IInv, TypeOK, SettleCall, Settling, ZeroDelta
  <1>3. Solvency' /\ SavedInv'
    BY <1>1 DEF IInv, TypeOK, Solvency, SavedInv, DeltaInv
  <1>4. KeyInv'
    BY <1>1 DEF IInv, KeyInv, Settling
  <1>5. DeltaInv'
    BY <1>1 DEF IInv, DeltaInv, Settling
  <1> QED
    BY <1>2, <1>3, <1>4, <1>5 DEF IInv

(* The transfer n of the settlement in progress.                           *)
LEMMA TransferType ==
    ASSUME IInv, pc \in {"burn", "take"}, n <= Len(call.transfers)
    PROVE  /\ call.transfers[n].amount \in Nat
           /\ call.transfers[n].currency \in Currencies
           /\ call.transfers[n].sender \in Accounts
  <1>1. call.transfers \in Seq(TransferBalance) /\ n \in 1..Len(call.transfers)
    BY HookAssumption DEF IInv, TypeOK, SettleCall, Settling
  <1>2. call.transfers[n] \in TransferBalance
    BY <1>1
  <1> QED
    BY <1>2 DEF TransferBalance, Accounts

(* The burn makes the hook be owed the transfer, and nothing else.         *)
LEMMA BurnTransferIInv == IInv /\ BurnTransfer => IInv'
  <1> SUFFICES ASSUME IInv, BurnTransfer PROVE IInv'
    OBVIOUS
  <1> DEFINE c == call.transfers[n].currency
             a == call.transfers[n].amount
  <1>1. a \in Nat /\ c \in Currencies
    BY TransferType DEF BurnTransfer
  <1>2. /\ a <= claims[c]
        /\ claims' = [claims EXCEPT ![c] = @ - a]
        /\ delta' = [delta EXCEPT ![c] = @ + a]
        /\ pc = "burn" /\ pc' = "take" /\ n <= Len(call.transfers)
        /\ UNCHANGED <<poolKeys, reserves, amm, held, n, call, swapDelta, saved>>
    BY DEF BurnTransfer, Burn, Burnt
  <1>7. pc = "burn" => \A d \in Currencies : delta[d] = 0
    BY DEF IInv, DeltaInv
  <1> HIDE DEF c, a
  <1>3. TypeOK'
    <2>1. claims' \in [Currencies -> Nat]
      BY <1>1, <1>2 DEF IInv, TypeOK
    <2>2. delta' \in [Currencies -> Int]
      BY <1>1, <1>2 DEF IInv, TypeOK
    <2> QED
      BY <1>2, <2>1, <2>2 DEF IInv, TypeOK, Settling
  <1>8. DeltaInv'
    <2>1. \A d \in Currencies : delta'[d] = IF d = c THEN a ELSE 0
      BY <1>1, <1>2, <1>7 DEF IInv, TypeOK
    <2> QED
      BY <1>2, <2>1 DEF IInv, DeltaInv, Settling, c, a
  <1>4. Solvency'
    BY <1>1, <1>2 DEF IInv, TypeOK, Solvency
  <1>5. KeyInv' /\ SavedInv'
    BY <1>2 DEF IInv, KeyInv, SavedInv, Settling
  <1> QED
    BY <1>3, <1>4, <1>5, <1>8 DEF IInv

(* The take uses up what the burn before it made owed.                     *)
LEMMA TakeTransferIInv == IInv /\ TakeTransfer => IInv'
  <1> SUFFICES ASSUME IInv, TakeTransfer PROVE IInv'
    OBVIOUS
  <1> DEFINE c == call.transfers[n].currency
             a == call.transfers[n].amount
             to == call.transfers[n].sender
  <1>1. a \in Nat /\ c \in Currencies /\ to \in Accounts
    BY TransferType DEF TakeTransfer, IInv, DeltaInv
  <1>2. /\ a <= reserves[c]
        /\ reserves' = [reserves EXCEPT ![c] = @ - a]
        /\ delta' = [delta EXCEPT ![c] = @ - a]
        /\ held' = [held EXCEPT ![to][c] = @ + a]
        /\ n' = n + 1
        /\ pc = "take" /\ pc' = "burn"
        /\ UNCHANGED <<poolKeys, claims, amm, call, swapDelta, saved>>
    BY DEF TakeTransfer, Take, Taker
  <1>3. \A d \in Currencies : delta[d] = IF d = c THEN a ELSE 0
    BY <1>2 DEF IInv, DeltaInv
  <1> HIDE DEF c, a, to
  <1>4. TypeOK'
    <2>1. reserves' \in [Currencies -> Nat] /\ delta' \in [Currencies -> Int]
      BY <1>1, <1>2 DEF IInv, TypeOK
    <2>2. held' \in [Accounts -> [Currencies -> Nat]]
      BY <1>1, <1>2 DEF IInv, TypeOK
    <2> QED
      BY <1>2, <2>1, <2>2 DEF IInv, TypeOK, Settling
  <1>5. Solvency'
    BY <1>1, <1>2 DEF IInv, TypeOK, Solvency
  <1>6. KeyInv' /\ SavedInv'
    BY <1>2 DEF IInv, KeyInv, SavedInv, Settling
  <1>7. DeltaInv'
    <2>1. \A d \in Currencies : delta'[d] = 0
      BY <1>1, <1>2, <1>3 DEF IInv, TypeOK
    <2> QED
      BY <1>2, <2>1 DEF IInv, DeltaInv, Settling
  <1> QED
    BY <1>4, <1>5, <1>6, <1>7 DEF IInv

(* After the transfers the delta is zero, as swapDelta is.                 *)
LEMMA EndTransfersIInv == IInv /\ EndTransfers => IInv'
  <1> SUFFICES ASSUME IInv, EndTransfers PROVE IInv'
    OBVIOUS
  <1>1. TypeOK'
    BY DEF EndTransfers, money, IInv, TypeOK, Settling
  <1>2. Solvency' /\ KeyInv' /\ SavedInv'
    BY DEF EndTransfers, money, IInv, Solvency, KeyInv, SavedInv, Settling
  <1>3. DeltaInv'
    BY DEF EndTransfers, money, IInv, DeltaInv, Net, Settling, ZeroDelta
  <1> QED
    BY <1>1, <1>2, <1>3 DEF IInv

(* Ending the loop of swaps changes no money.                              *)
LEMMA EndSwapsIInv == IInv /\ EndSwaps => IInv'
  <1> SUFFICES ASSUME IInv, EndSwaps PROVE IInv'
    OBVIOUS
  <1>1. TypeOK'
    BY DEF EndSwaps, money, IInv, TypeOK, Settling
  <1>2. Solvency' /\ KeyInv' /\ SavedInv'
    BY DEF EndSwaps, money, IInv, Solvency, KeyInv, SavedInv, Settling
  <1>3. DeltaInv'
    BY DEF EndSwaps, money, IInv, DeltaInv, Net, Settling
  <1> QED
    BY <1>1, <1>2, <1>3 DEF IInv

(* One swap of the loop moves the curve, the delta and swapDelta together. *)
LEMMA SwapOneIInv == IInv /\ SwapOne => IInv'
  <1> SUFFICES ASSUME IInv, SwapOne PROVE IInv'
    OBVIOUS
  <1> DEFINE key == call.key
             z == call.swaps[n].zeroForOne
  <1>1. /\ pc = "swap" /\ pc' = "swap" /\ n' = n + 1 /\ key # NoKey
        /\ UNCHANGED <<poolKeys, reserves, claims, held, call, saved>>
    BY DEF SwapOne
  <1>2. /\ key.currency0 \in Currencies /\ key.currency1 \in Currencies
        /\ key.currency0 # key.currency1
    BY <1>1 DEF IInv, KeyInv, ValidKey, PoolKey, Settling
  <1>3. PICK x \in 0..MaxQuote, y \in 0..MaxQuote :
          LET amount0 == IF z THEN -x ELSE y
              amount1 == IF z THEN y ELSE -x
          IN  /\ Quote(key, z, call.swaps[n].amountSpecified, x, y)
              /\ Curve(key, z, x, y)
              /\ delta' = [delta EXCEPT ![key.currency0] = @ + amount0,
                                        ![key.currency1] = @ + amount1]
              /\ swapDelta' = [amount0 |-> swapDelta.amount0 + amount0,
                               amount1 |-> swapDelta.amount1 + amount1]
    BY Zenon DEF SwapOne, AddDelta
  <1>4. x \in Nat /\ y \in Nat
    BY HookAssumption
  <1> DEFINE in == Input(key, z)
             out == Output(key, z)
             d0 == IF z THEN -x ELSE y
             d1 == IF z THEN y ELSE -x
  <1>5. /\ in \in Currencies /\ out \in Currencies /\ in # out
        /\ d0 \in Int /\ d1 \in Int
        /\ \/ in = key.currency0 /\ out = key.currency1 /\ d0 = -x /\ d1 = y
           \/ in = key.currency1 /\ out = key.currency0 /\ d0 = y /\ d1 = -x
    BY <1>2, <1>4 DEF Input, Output
  <1>6. /\ y <= amm[out]
        /\ amm' = [amm EXCEPT ![in] = @ + x, ![out] = @ - y]
        /\ delta' = [delta EXCEPT ![key.currency0] = @ + d0, ![key.currency1] = @ + d1]
        /\ swapDelta' = [amount0 |-> swapDelta.amount0 + d0, amount1 |-> swapDelta.amount1 + d1]
    BY <1>3 DEF Quote, Curve
  <1> HIDE DEF in, out, d0, d1, key, z
  <1>7. /\ amm' \in [Currencies -> Nat]
        /\ amm'[in] = amm[in] + x /\ amm'[out] = amm[out] - y
        /\ \A c \in Currencies \ {in, out} : amm'[c] = amm[c]
    BY <1>4, <1>5, <1>6 DEF IInv, TypeOK
  <1>8. /\ delta' \in [Currencies -> Int]
        /\ delta'[key.currency0] = delta[key.currency0] + d0
        /\ delta'[key.currency1] = delta[key.currency1] + d1
        /\ \A c \in Currencies \ {key.currency0, key.currency1} : delta'[c] = delta[c]
    BY <1>2, <1>5, <1>6 DEF IInv, TypeOK
  <1>9. swapDelta' \in [amount0 : Int, amount1 : Int]
    BY <1>5, <1>6 DEF IInv, TypeOK
  <1>10. TypeOK'
    BY <1>1, <1>7, <1>8, <1>9 DEF IInv, TypeOK, Settling
  <1>11. Solvency'
    <2> SUFFICES ASSUME NEW c \in Currencies
                 PROVE  reserves'[c] = claims'[c] + amm'[c] + delta'[c]
      BY DEF Solvency
    <2>1. /\ reserves'[c] = claims'[c] + amm[c] + delta[c]
          /\ claims'[c] \in Nat /\ amm[c] \in Nat /\ delta[c] \in Int
      BY <1>1 DEF IInv, TypeOK, Solvency
    <2>2. amm'[c] + delta'[c] = amm[c] + delta[c]
      <3>1. CASE c \notin {in, out}
        BY <1>5, <1>7, <1>8, <2>1, <3>1
      <3>2. CASE c = in
        BY <1>4, <1>5, <1>7, <1>8, <2>1, <3>2
      <3>3. CASE c = out
        BY <1>4, <1>5, <1>7, <1>8, <2>1, <3>3
      <3> QED
        BY <3>1, <3>2, <3>3
    <2>3. amm'[c] \in Nat /\ delta'[c] \in Int
      BY <1>7, <1>8
    <2> QED
      BY <2>1, <2>2, <2>3
  <1>12. KeyInv' /\ SavedInv'
    BY <1>1 DEF IInv, KeyInv, SavedInv, Settling
  <1>13. DeltaInv'
    <2>1. \A c \in Currencies : delta'[c] = Net(c)'
      BY <1>1, <1>2, <1>5, <1>6, <1>8 DEF IInv, TypeOK, DeltaInv, Net, key
    <2> QED
      BY <1>1, <2>1 DEF DeltaInv, Settling, key
  <1> QED
    BY <1>10, <1>11, <1>12, <1>13 DEF IInv

(* Settling one currency's net clears its delta and keeps the books.       *)
LEMMA NetOne ==
    ASSUME IInv, NEW c \in Currencies, NEW a \in Int,
           delta[c] = a,
           TakeNet(c, a) \/ SettleNet(c, a)
    PROVE  /\ Solvency'
           /\ reserves' \in [Currencies -> Nat]
           /\ claims' \in [Currencies -> Nat]
           /\ amm' \in [Currencies -> Nat]
           /\ held' \in [Accounts -> [Currencies -> Nat]]
           /\ delta' = [delta EXCEPT ![c] = 0]
  <1>1. CASE TakeNet(c, a)
    <2>1. /\ a > 0 /\ a <= reserves[c] /\ UNCHANGED <<claims, amm>>
          /\ reserves' = [reserves EXCEPT ![c] = @ - a]
          /\ delta' = [delta EXCEPT ![c] = @ - a]
          /\ held' = [held EXCEPT ![Hook][c] = @ + a]
      BY <1>1 DEF TakeNet, Take
    <2>2. Hook \in Accounts
      BY DEF Accounts
    <2>3. reserves' \in [Currencies -> Nat] /\ delta' = [delta EXCEPT ![c] = 0]
      BY <2>1 DEF IInv, TypeOK
    <2>4. held' \in [Accounts -> [Currencies -> Nat]]
      BY <2>1, <2>2 DEF IInv, TypeOK
    <2>5. Solvency'
      BY <2>1 DEF IInv, TypeOK, Solvency
    <2> QED
      BY <2>1, <2>3, <2>4, <2>5 DEF IInv, TypeOK
  <1>2. CASE SettleNet(c, a)
    <2>1. PICK b \in Nat : a = -b /\ b > 0
      BY <1>2 DEF SettleNet
    <2>2. -a = b
      BY <2>1
    <2>3. /\ b <= claims[c] /\ UNCHANGED <<reserves, held, amm>>
          /\ claims' = [claims EXCEPT ![c] = @ - b]
          /\ delta' = [delta EXCEPT ![c] = @ + b]
      BY <1>2, <2>2 DEF SettleNet, Burn
    <2>4. claims' \in [Currencies -> Nat] /\ delta' = [delta EXCEPT ![c] = 0]
      <3>1. claims[c] \in Nat /\ claims[c] - b \in Nat
        BY <2>1, <2>3 DEF IInv, TypeOK
      <3>2. delta[c] + b = 0
        BY <2>1
      <3> QED
        BY <2>3, <3>1, <3>2 DEF IInv, TypeOK
    <2>5. Solvency'
      BY <2>1, <2>3 DEF IInv, TypeOK, Solvency
    <2> QED
      BY <2>3, <2>4, <2>5 DEF IInv, TypeOK
  <1> QED
    BY <1>1, <1>2

(* The first netting settles currency0 and leaves currency1.               *)
LEMMA Net0IInv == IInv /\ Net0 => IInv'
  <1> SUFFICES ASSUME IInv, Net0 PROVE IInv'
    OBVIOUS
  <1> DEFINE a == swapDelta.amount0
  <1>1. /\ pc = "net0" /\ pc' = "net1" /\ a \in Int
        /\ UNCHANGED <<poolKeys, n, call, swapDelta, saved>>
    BY DEF Net0, IInv, TypeOK
  <1>2. KeyInv' /\ SavedInv'
    BY <1>1 DEF IInv, KeyInv, SavedInv, Settling
  <1>3. CASE NoNet(a)
    <2>1. a = 0 /\ UNCHANGED <<reserves, claims, amm, held, delta>>
      BY <1>3 DEF NoNet, money
    <2>2. TypeOK' /\ Solvency'
      BY <1>1, <2>1 DEF IInv, TypeOK, Solvency, Settling
    <2>3. DeltaInv'
      BY <1>1, <2>1 DEF IInv, DeltaInv, Net, Settling
    <2> QED
      BY <1>2, <2>2, <2>3 DEF IInv
  <1>4. CASE TakeNet(call.key.currency0, a) \/ SettleNet(call.key.currency0, a)
    <2> DEFINE c == call.key.currency0
    <2>1. a # 0
      BY <1>4 DEF TakeNet, SettleNet
    <2>2. /\ call.key # NoKey /\ c \in Currencies /\ call.key.currency1 \in Currencies
          /\ c # call.key.currency1
      BY <1>1, <2>1 DEF IInv, DeltaInv, KeyInv, ValidKey, PoolKey, Settling, ZeroDelta
    <2>3. delta[c] = a
      BY <1>1, <2>2 DEF IInv, DeltaInv, Net
    <2>4. /\ Solvency' /\ delta' = [delta EXCEPT ![c] = 0]
          /\ reserves' \in [Currencies -> Nat] /\ claims' \in [Currencies -> Nat]
          /\ amm' \in [Currencies -> Nat] /\ held' \in [Accounts -> [Currencies -> Nat]]
      BY <1>1, <1>4, <2>2, <2>3, NetOne
    <2>5. TypeOK'
      BY <1>1, <2>2, <2>4 DEF IInv, TypeOK, Settling
    <2>6. DeltaInv'
      BY <1>1, <2>2, <2>4 DEF IInv, TypeOK, DeltaInv, Net, Settling
    <2> QED
      BY <1>2, <2>4, <2>5, <2>6 DEF IInv
  <1> QED
    BY <1>3, <1>4 DEF Net0

(* The second netting settles what is left.                                *)
LEMMA Net1IInv == IInv /\ Net1 => IInv'
  <1> SUFFICES ASSUME IInv, Net1 PROVE IInv'
    OBVIOUS
  <1> DEFINE a == swapDelta.amount1
  <1>1. /\ pc = "net1" /\ pc' = "return" /\ a \in Int
        /\ UNCHANGED <<poolKeys, n, call, swapDelta, saved>>
    BY DEF Net1, IInv, TypeOK
  <1>2. KeyInv' /\ SavedInv'
    BY <1>1 DEF IInv, KeyInv, SavedInv, Settling
  <1>3. CASE NoNet(a)
    <2>1. a = 0 /\ UNCHANGED <<reserves, claims, amm, held, delta>>
      BY <1>3 DEF NoNet, money
    <2>2. TypeOK' /\ Solvency'
      BY <1>1, <2>1 DEF IInv, TypeOK, Solvency, Settling
    <2>3. DeltaInv'
      BY <1>1, <2>1 DEF IInv, DeltaInv, Net, Settling
    <2> QED
      BY <1>2, <2>2, <2>3 DEF IInv
  <1>4. CASE TakeNet(call.key.currency1, a) \/ SettleNet(call.key.currency1, a)
    <2> DEFINE c == call.key.currency1
    <2>1. a # 0
      BY <1>4 DEF TakeNet, SettleNet
    <2>2. /\ call.key # NoKey /\ c \in Currencies /\ c # call.key.currency0
      BY <1>1, <2>1 DEF IInv, DeltaInv, KeyInv, ValidKey, PoolKey, Settling, ZeroDelta
    <2>3. delta[c] = a
      BY <1>1, <2>2 DEF IInv, DeltaInv, Net
    <2>4. /\ Solvency' /\ delta' = [delta EXCEPT ![c] = 0]
          /\ reserves' \in [Currencies -> Nat] /\ claims' \in [Currencies -> Nat]
          /\ amm' \in [Currencies -> Nat] /\ held' \in [Accounts -> [Currencies -> Nat]]
      BY <1>1, <1>4, <2>2, <2>3, NetOne
    <2>5. TypeOK'
      BY <1>1, <2>2, <2>4 DEF IInv, TypeOK, Settling
    <2>6. DeltaInv'
      BY <1>1, <2>2, <2>4 DEF IInv, TypeOK, DeltaInv, Net, Settling
    <2> QED
      BY <1>2, <2>4, <2>5, <2>6 DEF IInv
  <1> QED
    BY <1>3, <1>4 DEF Net1

(* A transaction ends with its money moved, or with all of it as before.   *)
LEMMA ReturnIInv == IInv /\ (Return \/ Revert) => IInv'
  <1> SUFFICES ASSUME IInv, Return \/ Revert PROVE IInv'
    OBVIOUS
  <1>1. CASE Return
    <2>1. TypeOK'
      BY <1>1 DEF Return, Relock, money, IInv, TypeOK, Settling, ZeroDelta
    <2>2. Solvency' /\ KeyInv' /\ SavedInv' /\ DeltaInv'
      BY <1>1 DEF Return, Relock, money, IInv, Solvency, KeyInv, SavedInv, DeltaInv,
                 Settling, NoDelta
    <2> QED
      BY <2>1, <2>2 DEF IInv
  <1>2. CASE Revert
    <2>1. TypeOK'
      BY <1>2 DEF Revert, Relock, IInv, TypeOK, Settling, ZeroDelta, NoDelta
    <2>2. Solvency'
      BY <1>2 DEF Revert, Relock, IInv, TypeOK, Solvency, SavedInv, NoDelta
    <2>3. KeyInv' /\ SavedInv' /\ DeltaInv'
      BY <1>2 DEF Revert, Relock, IInv, KeyInv, SavedInv, DeltaInv, Settling, NoDelta
    <2> QED
      BY <2>1, <2>2, <2>3 DEF IInv
  <1> QED
    BY <1>1, <1>2

(* Every step keeps the invariant.                                         *)
LEMMA NextIInv == IInv /\ [Next]_vars => IInv'
  <1> SUFFICES ASSUME IInv, [Next]_vars PROVE IInv'
    OBVIOUS
  <1>1. ASSUME NEW p \in Pools, AfterInitialize(p) PROVE IInv'
    BY <1>1, AfterInitializeIInv
  <1>2. CASE Swap
    <2>1. PICK u \in Users, p \in Pools, z \in BOOLEAN, d \in HookData,
               a \in Amounts \cup {-b : b \in Amounts} :
            PlainSwap(u, p, z, a, d) \/ BeforeSwap(u, p, z, a, d)
      BY <1>2 DEF Swap
    <2>2. a \in Int
      BY HookAssumption
    <2> QED
      BY <2>1, <2>2, PlainSwapIInv, BeforeSwapIInv
  <1>3. CASE ChargeSwapper
    BY <1>3, ChargeSwapperIInv
  <1>4. ASSUME NEW p \in Pools, NEW ts \in TransferLists, NEW ss \in SwapLists,
               SettleBalances(p, ts, ss)
        PROVE  IInv'
    BY <1>4, SettleBalancesIInv
  <1>5. CASE UnlockCallback
    BY <1>5, BurnTransferIInv, TakeTransferIInv, EndTransfersIInv, SwapOneIInv,
       EndSwapsIInv, Net0IInv, Net1IInv DEF UnlockCallback
  <1>6. CASE Return \/ Revert
    BY <1>6, ReturnIInv
  <1>7. CASE UNCHANGED vars
    <2>1. TypeOK'
      BY <1>7 DEF vars, IInv, TypeOK, Settling
    <2>2. Solvency' /\ KeyInv' /\ SavedInv' /\ DeltaInv'
      BY <1>7 DEF vars, IInv, Solvency, KeyInv, SavedInv, DeltaInv, Net, Settling
    <2> QED
      BY <2>1, <2>2 DEF IInv
  <1> QED
    BY <1>1, <1>2, <1>3, <1>4, <1>5, <1>6, <1>7 DEF Next

------------------------------------------------------------------------------
(* Every call of beforeSwap and unlockCallback keeps the variables typed:  *)
(* in particular no burn, take or swap overdraws claims or reserves.       *)
THEOREM TypeCorrect == Spec => []TypeOK
  <1>1. IInv => TypeOK
    BY DEF IInv
  <1> QED
    BY InitIInv, NextIInv, <1>1, PTL DEF Spec

(* At every call of every transaction the PoolManager's reserves are the   *)
(* hook's claims, the liquidity and the hook's delta.                      *)
THEOREM AlwaysSolvent == Spec => []Solvency
  <1>1. IInv => Solvency
    BY DEF IInv
  <1> QED
    BY InitIInv, NextIInv, <1>1, PTL DEF Spec

(* unlockCallback and beforeSwap leave no delta, whatever is listed: the   *)
(* unlock never fails with CurrencyNotSettled.                             *)
THEOREM NeverUnsettled == Spec => []NothingUnsettled
  <1>1. IInv => NothingUnsettled
    BY DEF IInv, TypeOK, DeltaInv, NothingUnsettled, NoDelta
  <1> QED
    BY InitIInv, NextIInv, <1>1, PTL DEF Spec

(* No take of unlockCallback, of a transfer or of the swaps' net, finds    *)
(* the PoolManager short of the currency.                                  *)
THEOREM TakesAlwaysCovered == Spec => []TakesAreCovered
  <1>1. IInv => TakesAreCovered
    <2> SUFFICES ASSUME IInv PROVE TakesAreCovered
      OBVIOUS
    <2>1. ASSUME NEW c \in Currencies, NEW a \in Int, delta[c] = a
          PROVE  a <= reserves[c]
      BY <2>1 DEF IInv, TypeOK, Solvency
    <2>2. ASSUME pc = "take"
          PROVE  call.transfers[n].amount <= reserves[call.transfers[n].currency]
      <3>1. /\ call.transfers[n].currency \in Currencies
            /\ call.transfers[n].amount \in Nat
        BY <2>2, TransferType DEF IInv, DeltaInv
      <3> QED
        BY <2>1, <2>2, <3>1 DEF IInv, DeltaInv
    <2>3. ASSUME pc = "net0", swapDelta.amount0 > 0
          PROVE  swapDelta.amount0 <= reserves[call.key.currency0]
      <3>1. swapDelta.amount0 \in Int /\ call.key # NoKey /\ ValidKey(call.key)
        BY <2>3 DEF IInv, TypeOK, DeltaInv, KeyInv, Settling, ZeroDelta
      <3> QED
        BY <2>1, <2>3, <3>1 DEF IInv, DeltaInv, Net, ValidKey, PoolKey
    <2>4. ASSUME pc = "net1", swapDelta.amount1 > 0
          PROVE  swapDelta.amount1 <= reserves[call.key.currency1]
      <3>1. swapDelta.amount1 \in Int /\ call.key # NoKey /\ ValidKey(call.key)
        BY <2>4 DEF IInv, TypeOK, DeltaInv, KeyInv, Settling, ZeroDelta
      <3> QED
        BY <2>1, <2>4, <3>1 DEF IInv, DeltaInv, Net, ValidKey, PoolKey
    <2> QED
      BY <2>2, <2>3, <2>4 DEF TakesAreCovered
  <1> QED
    BY InitIInv, NextIInv, <1>1, PTL DEF Spec
------------------------------------------------------------------------------
(* What the transfers of a settlement pay, one transfer at a time.         *)
OwedWith(p, owed, k) ==
    IF p.transfers[k].sender = p.user /\ p.transfers[k].currency = p.currency
    THEN owed + p.transfers[k].amount ELSE owed
Owes == INSTANCE Recursion WITH Base <- LAMBDA p : 0, Step <- OwedWith

Gives(t, u, c) == IF t.sender = u /\ t.currency = c THEN t.amount ELSE 0

(* The recursion of OwedTo is a function: zero, and a transfer more each.  *)
LEMMA OwedUnfolds ==
    ASSUME NEW ts \in TransferLists, NEW u, NEW c
    PROVE  /\ OwedTo(ts, u, c)[0] = 0
           /\ \A k \in 1..Len(ts) :
                 OwedTo(ts, u, c)[k] = OwedTo(ts, u, c)[k - 1] + Gives(ts[k], u, c)
           /\ \A k \in 0..Len(ts) : OwedTo(ts, u, c)[k] \in Nat
<1> DEFINE p == [transfers |-> ts, user |-> u, currency |-> c]
           D == 0..Len(ts)
           owed == OwedTo(ts, u, c)
<1>1. ts \in Seq(TransferBalance) /\ Len(ts) \in Nat
  BY HookAssumption
<1>2. D \in SUBSET Nat /\ \A k \in D : k # 0 => k - 1 \in D
  BY <1>1
<1> HIDE DEF D
<1>3. \E f : f = [k \in D |-> Owes!Entry(p, f, k)]
  BY <1>2, Owes!FunctionExists
<1>4. p.transfers = ts /\ p.user = u /\ p.currency = c
  OBVIOUS
<1> HIDE DEF p
<1>5. \E f : f = [k \in D |-> IF k = 0 THEN 0
                              ELSE IF ts[k].sender = u /\ ts[k].currency = c
                                   THEN f[k - 1] + ts[k].amount ELSE f[k - 1]]
  <2>1. PICK f : f = [k \in D |-> Owes!Entry(p, f, k)]
    BY <1>3
  <2>2. f = [k \in D |-> IF k = 0 THEN 0
                         ELSE IF ts[k].sender = u /\ ts[k].currency = c
                              THEN f[k - 1] + ts[k].amount ELSE f[k - 1]]
    BY <1>4, <2>1 DEF Owes!Entry, OwedWith
  <2>3. QED
    BY <2>2
<1>6. owed = [k \in D |-> IF k = 0 THEN 0
                          ELSE IF ts[k].sender = u /\ ts[k].currency = c
                               THEN owed[k - 1] + ts[k].amount ELSE owed[k - 1]]
  BY <1>5 DEF OwedTo, D
<1> HIDE DEF owed
<1>7. owed[0] = 0
  BY <1>1, <1>6 DEF D
<1>8. \A k \in 1..Len(ts) : Gives(ts[k], u, c) \in Nat
  <2>1. \A k \in 1..Len(ts) : ts[k] \in TransferBalance
    BY <1>1
  <2>2. QED
    BY <2>1 DEF Gives, TransferBalance
<1>9. ASSUME NEW k \in 1..Len(ts), owed[k - 1] \in Nat
      PROVE  owed[k] = owed[k - 1] + Gives(ts[k], u, c)
  <2>1. k \in D /\ k # 0
    BY <1>1 DEF D
  <2>2. owed[k] = IF ts[k].sender = u /\ ts[k].currency = c
                  THEN owed[k - 1] + ts[k].amount ELSE owed[k - 1]
    BY <1>6, <2>1
  <2>3. QED
    BY <1>9, <2>2 DEF Gives
<1> DEFINE N == {k \in Nat : k <= Len(ts) => owed[k] \in Nat}
<1>10. 0 \in N
  BY <1>7
<1>11. ASSUME NEW k \in Nat, k \in N PROVE k + 1 \in N
  <2> SUFFICES ASSUME k + 1 <= Len(ts) PROVE owed[k + 1] \in Nat
    OBVIOUS
  <2>1. k + 1 \in 1..Len(ts) /\ k + 1 - 1 = k /\ owed[k] \in Nat
    BY <1>1, <1>11
  <2>2. owed[k + 1] = owed[k] + Gives(ts[k + 1], u, c)
    BY <1>9, <2>1
  <2>3. Gives(ts[k + 1], u, c) \in Nat
    BY <1>8, <2>1
  <2>4. QED
    BY <2>1, <2>2, <2>3
<1> HIDE DEF N
<1>12. Nat \subseteq N
  BY <1>10, <1>11, Owes!Induction
<1>13. \A k \in 0..Len(ts) : owed[k] \in Nat
  BY <1>1, <1>12 DEF N
<1>14. \A k \in 1..Len(ts) : owed[k] = owed[k - 1] + Gives(ts[k], u, c)
  BY <1>1, <1>9, <1>13
<1>15. QED
  BY <1>7, <1>13, <1>14 DEF owed

------------------------------------------------------------------------------
(* What the settlement in progress has paid the traders in c so far.       *)
Paid(c) == SumFunctionOnSet([u \in Users |-> held[u][c] - saved.held[u][c]], Users)

(* A settlement trades under the key of one pool, or under none.           *)
KeyedByPool ==
    /\ \A p \in Pools : poolKeys[p] \in {NoKey, PoolKeyOf[p]}
    /\ pc = "return" => call \in SwapCall \cup SettleCall
    /\ pc # "idle" /\ call \in SettleCall => \E p \in Pools : call.key \in {NoKey, PoolKeyOf[p]}

(* An order in progress has moved its input into escrow, and then out of   *)
(* its trader's account.                                                   *)
DepositInv ==
    pc \in {"escrowed", "return"} /\ call \in SwapCall =>
        /\ call.returned > 0
        /\ claims = [saved.claims EXCEPT ![call.currency] = @ + call.returned]
        /\ amm = saved.amm
        /\ held = IF pc = "escrowed" THEN saved.held
                  ELSE [saved.held EXCEPT ![call.user][call.currency] = @ - call.returned]

(* A settlement in progress has paid each trader the transfers it has made *)
(* so far.                                                                 *)
PayInv ==
    pc # "idle" /\ call \in SettleCall =>
        /\ pc \in {"burn", "take"} => n <= Len(call.transfers) + 1
        /\ \A u \in Users, c \in Currencies :
              held[u][c] = saved.held[u][c] +
                  OwedTo(call.transfers, u, c)
                      [IF pc \in {"burn", "take"} THEN n - 1 ELSE Len(call.transfers)]

(* Where the escrow went: to the traders, to the transfer that is burnt    *)
(* and not yet taken, and to the curve once the net of a currency is       *)
(* settled; and what the curve gave is the hook's then.                    *)
Burning(c) ==
    IF pc = "take" /\ call.transfers[n].currency = c THEN call.transfers[n].amount ELSE 0
Netted(c) ==
    \/ pc = "return"
    \/ pc = "net1" /\ call.key # NoKey /\ c = call.key.currency0
EscrowInv ==
    pc # "idle" /\ call \in SettleCall =>
        \A c \in Currencies :
            /\ amm[c] = saved.amm[c] - Net(c)
            /\ claims[c] = saved.claims[c] - Paid(c) - Burning(c)
                             - (IF Netted(c) /\ Net(c) < 0 THEN -Net(c) ELSE 0)
            /\ held[Hook][c] = saved.held[Hook][c]
                             + (IF Netted(c) /\ Net(c) > 0 THEN Net(c) ELSE 0)

LedgerInv == KeyedByPool /\ DepositInv /\ PayInv /\ EscrowInv

------------------------------------------------------------------------------
(* A transaction is an order's or a settlement's.                          *)
LEMMA CallsDiffer == \A x : ~ (x \in SwapCall /\ x \in SettleCall)
<1> SUFFICES ASSUME NEW x, x \in SwapCall, x \in SettleCall PROVE FALSE
  OBVIOUS
<1>1. DOMAIN x = {"user", "currency", "returned"}
  BY DEF SwapCall
<1>2. DOMAIN x = {"key", "transfers", "swaps"}
  BY DEF SettleCall
<1>3. QED
  BY <1>1, <1>2

(* The sums of what is paid are those of integers.                         *)
LEMMA PaidType ==
    ASSUME IInv, pc # "idle", NEW c \in Currencies
    PROVE  Paid(c) \in Int
<1> DEFINE f == [u \in Users |-> held[u][c] - saved.held[u][c]]
<1>1. \A u \in Users : held[u][c] \in Int /\ saved.held[u][c] \in Int
  BY DEF IInv, TypeOK, Accounts
<1>2. \A u \in Users : f[u] \in Int
  BY <1>1
<1> HIDE DEF f
<1>3. SumFunctionOnSet(f, Users) \in Int
  BY <1>2, HookAssumption, SumWithout
<1>4. QED
  BY <1>3 DEF f, Paid

(* So are the amounts of the escrow.                                       *)
LEMMA EscrowTypes ==
    ASSUME IInv, pc # "idle", NEW c \in Currencies
    PROVE  /\ claims[c] \in Int /\ saved.claims[c] \in Int
           /\ amm[c] \in Int /\ saved.amm[c] \in Int
           /\ held[Hook][c] \in Int /\ saved.held[Hook][c] \in Int
           /\ Net(c) \in Int /\ Paid(c) \in Int
<1>1. Net(c) \in Int
  BY DEF IInv, TypeOK, Net
<1>2. QED
  BY <1>1, PaidType DEF IInv, TypeOK, Accounts

(* Nothing is paid where no trader's balance changes.                      *)
LEMMA PaidKept ==
    ASSUME NEW c \in Currencies, saved' = saved, \A u \in Users : held'[u][c] = held[u][c]
    PROVE  Paid(c)' = Paid(c)
<1>1. [u \in Users |-> held'[u][c] - saved'.held[u][c]]
        = [u \in Users |-> held[u][c] - saved.held[u][c]]
  OBVIOUS
<1>2. QED
  BY <1>1 DEF Paid

------------------------------------------------------------------------------
(* Nothing has been moved when a transaction starts, and nothing is kept   *)
(* of it when it is over.                                                  *)
LEMMA IdleLedger == KeyedByPool /\ pc = "idle" => LedgerInv
BY DEF LedgerInv, DepositInv, PayInv, EscrowInv

LEMMA InitLedgerInv == Init => LedgerInv
<1>1. Init => KeyedByPool /\ pc = "idle"
  BY DEF Init, KeyedByPool
<1>2. QED
  BY <1>1, IdleLedger

(* A pool gets its own key.                                                *)
LEMMA AfterInitializeLedger ==
    ASSUME LedgerInv, IInv, NEW p \in Pools, AfterInitialize(p)
    PROVE  LedgerInv'
<1>1. KeyedByPool' /\ pc' = "idle"
  BY DEF LedgerInv, KeyedByPool, AfterInitialize, IInv, TypeOK
<1>2. QED
  BY <1>1, IdleLedger DEF LedgerInv, DepositInv, PayInv, EscrowInv

(* The mint of beforeSwap is the whole of the order's escrow.              *)
LEMMA BeforeSwapLedger ==
    ASSUME LedgerInv, IInv, IInv', NEW u \in Users, NEW p \in Pools, NEW z \in BOOLEAN,
           NEW d \in HookData, NEW a \in Int, BeforeSwap(u, p, z, a, d)
    PROVE  LedgerInv'
<1>1. /\ pc = "idle" /\ pc' = "escrowed" /\ call' \in SwapCall
      /\ UNCHANGED <<poolKeys, reserves, amm, held>>
      /\ saved' = [reserves |-> reserves, claims |-> claims, amm |-> amm, held |-> held]
  BY DEF BeforeSwap, Unlock, IInv, TypeOK
<1>2. a < 0 /\ -a <= MaxInt128 /\ Int128(a) = a /\ Returned(a) = -a
  BY HookAssumption DEF BeforeSwap, TakesOver, Mint, Int128, InInt128, Returned
<1>3. /\ call'.returned = -a /\ call'.currency = Input(poolKeys[p], z)
      /\ claims' = [claims EXCEPT ![Input(poolKeys[p], z)] = @ + (-a)]
  BY <1>2 DEF BeforeSwap, Unlock, Mint
<1>4. ~ (call' \in SettleCall)
  BY <1>1, CallsDiffer
<1>5. KeyedByPool'
  BY <1>1, <1>4 DEF LedgerInv, KeyedByPool
<1>6. DepositInv'
  BY <1>1, <1>2, <1>3 DEF DepositInv
<1>7. QED
  BY <1>4, <1>5, <1>6 DEF LedgerInv, PayInv, EscrowInv

(* The router pays for the trader what the hook was minted.                *)
LEMMA ChargeSwapperLedger ==
    ASSUME LedgerInv, IInv, ChargeSwapper
    PROVE  LedgerInv'
<1>1. /\ pc = "escrowed" /\ pc' = "return" /\ call \in SwapCall
      /\ UNCHANGED <<poolKeys, claims, amm, n, call, swapDelta, saved>>
      /\ held' = [held EXCEPT ![call.user][call.currency] = @ - call.returned]
  BY DEF ChargeSwapper, IInv, TypeOK
<1>2. ~ (call' \in SettleCall)
  BY <1>1, CallsDiffer
<1>3. KeyedByPool'
  BY <1>1, <1>2 DEF LedgerInv, KeyedByPool
<1>4. DepositInv'
  BY <1>1 DEF LedgerInv, DepositInv
<1>5. QED
  BY <1>2, <1>3, <1>4 DEF LedgerInv, PayInv, EscrowInv

(* A settlement starts with nobody paid.                                   *)
LEMMA SettleBalancesLedger ==
    ASSUME LedgerInv, IInv, IInv', NEW p \in Pools, NEW ts \in TransferLists,
           NEW ss \in SwapLists, SettleBalances(p, ts, ss)
    PROVE  LedgerInv'
<1>1. /\ pc = "idle" /\ pc' = "burn" /\ call' \in SettleCall /\ n' = 1
      /\ call' = [key |-> poolKeys[p], transfers |-> ts, swaps |-> ss]
      /\ swapDelta' = ZeroDelta
      /\ UNCHANGED <<poolKeys, reserves, claims, amm, held>>
      /\ saved' = [reserves |-> reserves, claims |-> claims, amm |-> amm, held |-> held]
  BY DEF SettleBalances, Unlock, money, IInv, TypeOK, Settling
<1>2. KeyedByPool'
  BY <1>1 DEF LedgerInv, KeyedByPool
<1>3. DepositInv'
  BY <1>1 DEF DepositInv
<1>4. Len(ts) \in Nat
  BY HookAssumption
<1>5. PayInv'
  <2>1. \A u \in Users, c \in Currencies : held[u][c] \in Int
    BY DEF IInv, TypeOK, Accounts
  <2>2. \A u \in Users, c \in Currencies : OwedTo(ts, u, c)[0] = 0
    BY OwedUnfolds
  <2>3. /\ pc' \in {"burn", "take"} /\ n' - 1 = 0 /\ n' <= Len(ts) + 1 /\ call'.transfers = ts
        /\ saved'.held = held /\ held' = held
    BY <1>1, <1>4
  <2>4. \A u \in Users, c \in Currencies : held'[u][c] = saved'.held[u][c] + OwedTo(ts, u, c)[n' - 1]
    BY <2>1, <2>2, <2>3
  <2>5. QED
    BY <2>3, <2>4 DEF PayInv
<1>6. ASSUME NEW c \in Currencies PROVE Paid(c)' = 0
  <2> DEFINE f == [u \in Users |-> held[u][c] - held[u][c]]
  <2>1. \A u \in Users : f[u] = 0
    BY DEF IInv, TypeOK, Accounts
  <2> HIDE DEF f
  <2>2. SumFunctionOnSet(f, Users) = 0
    BY <2>1, HookAssumption, SumZero
  <2>3. QED
    BY <1>1, <2>2 DEF f, Paid
<1>7. \A c \in Currencies : Net(c)' = 0 /\ Burning(c)' = 0
  BY <1>1 DEF Net, Burning, ZeroDelta
<1>8. EscrowInv'
  <2>1. \A c \in Currencies : amm[c] \in Int /\ claims[c] \in Int /\ held[Hook][c] \in Int
    BY DEF IInv, TypeOK, Accounts
  <2>2. saved'.amm = amm' /\ saved'.claims = claims' /\ saved'.held = held'
    BY <1>1
  <2>3. QED
    BY <1>1, <1>6, <1>7, <2>1, <2>2 DEF EscrowInv
<1>9. QED
  BY <1>2, <1>3, <1>5, <1>8 DEF LedgerInv

(* A burn takes out of the escrow what is about to be paid.                *)
LEMMA BurnTransferLedger ==
    ASSUME LedgerInv, IInv, BurnTransfer
    PROVE  LedgerInv'
<1> DEFINE c == call.transfers[n].currency
           a == call.transfers[n].amount
<1>1. a \in Nat /\ c \in Currencies /\ n \in Nat
  BY TransferType DEF BurnTransfer, IInv, TypeOK
<1>2. /\ claims' = [claims EXCEPT ![c] = @ - a]
      /\ pc = "burn" /\ pc' = "take" /\ n <= Len(call.transfers) /\ call \in SettleCall
      /\ UNCHANGED <<poolKeys, reserves, amm, held, n, call, swapDelta, saved>>
  BY DEF BurnTransfer, Burn, Burnt, IInv, TypeOK, Settling
<1> HIDE DEF c, a
<1>3. KeyedByPool' /\ DepositInv'
  BY <1>2 DEF LedgerInv, KeyedByPool, DepositInv
<1>4. PayInv'
  BY <1>2 DEF LedgerInv, PayInv
<1>5. EscrowInv'
  <2> SUFFICES ASSUME NEW d \in Currencies
               PROVE  /\ amm'[d] = saved'.amm[d] - Net(d)'
                      /\ claims'[d] = saved'.claims[d] - Paid(d)' - Burning(d)'
                               - (IF Netted(d)' /\ Net(d)' < 0 THEN -Net(d)' ELSE 0)
                      /\ held'[Hook][d] = saved'.held[Hook][d]
                               + (IF Netted(d)' /\ Net(d)' > 0 THEN Net(d)' ELSE 0)
    BY DEF EscrowInv
  <2>1. Paid(d)' = Paid(d) /\ Net(d)' = Net(d) /\ Burning(d) = 0 /\ ~Netted(d) /\ ~Netted(d)'
    BY <1>2, PaidKept DEF Net, Burning, Netted
  <2>2. Burning(d)' = IF d = c THEN a ELSE 0
    BY <1>2 DEF Burning, c, a
  <2>3. /\ claims[d] \in Int /\ saved.claims[d] \in Int /\ Paid(d) \in Int
        /\ saved.held[Hook][d] \in Int
    BY <1>2, EscrowTypes
  <2>4. /\ amm[d] = saved.amm[d] - Net(d) /\ claims[d] = saved.claims[d] - Paid(d) - Burning(d) - 0
        /\ held[Hook][d] = saved.held[Hook][d] + 0
    BY <1>2, <2>1 DEF LedgerInv, EscrowInv
  <2>5. claims'[d] = claims[d] - Burning(d)'
    BY <1>1, <1>2, <2>2 DEF IInv, TypeOK
  <2>6. claims'[d] = saved.claims[d] - Paid(d) - Burning(d)' - 0
    BY <1>1, <2>1, <2>2, <2>3, <2>4, <2>5
  <2>7. QED
    BY <1>2, <2>1, <2>2, <2>4, <2>6
<1>6. QED
  BY <1>3, <1>4, <1>5 DEF LedgerInv

(* A take pays the trader what was burnt, and no one else.                 *)
LEMMA TakeTransferLedger ==
    ASSUME LedgerInv, IInv, TakeTransfer
    PROVE  LedgerInv'
<1> DEFINE c == call.transfers[n].currency
           a == call.transfers[n].amount
           to == call.transfers[n].sender
<1>1. /\ pc = "take" /\ pc' = "burn" /\ n <= Len(call.transfers) /\ call \in SettleCall
      /\ held' = [held EXCEPT ![to][c] = @ + a] /\ n' = n + 1
      /\ UNCHANGED <<poolKeys, claims, amm, call, swapDelta, saved>>
  BY DEF TakeTransfer, Take, Taker, IInv, TypeOK, DeltaInv, Settling
<1>2. /\ call.transfers \in TransferLists /\ call.transfers \in Seq(TransferBalance)
      /\ n \in 1..Len(call.transfers) /\ Len(call.transfers) \in Nat
  BY <1>1, HookAssumption DEF IInv, TypeOK, SettleCall
<1>3. call.transfers[n] \in TransferBalance
  BY <1>2
<1>4. a \in Nat /\ c \in Currencies /\ to \in Users /\ to \in Accounts /\ Hook # to
  BY <1>3, HookAssumption DEF TransferBalance, Accounts
<1>5. \A u \in Accounts, d \in Currencies :
        /\ held[u][d] \in Int /\ saved.held[u][d] \in Int
        /\ held'[u][d] = IF u = to /\ d = c THEN held[u][d] + a ELSE held[u][d]
  <2>1. /\ held \in [Accounts -> [Currencies -> Nat]]
        /\ saved.held \in [Accounts -> [Currencies -> Nat]]
    BY <1>1 DEF IInv, TypeOK
  <2> HIDE DEF a, c, to
  <2>2. \A u \in Accounts, d \in Currencies :
          held'[u][d] = IF u = to /\ d = c THEN held[u][d] + a ELSE held[u][d]
    BY <1>1, <1>4, <2>1
  <2>3. QED
    BY <2>1, <2>2
<1>6. KeyedByPool' /\ DepositInv'
  BY <1>1 DEF LedgerInv, KeyedByPool, DepositInv
<1>7. PayInv'
  <2> SUFFICES ASSUME NEW u \in Users, NEW d \in Currencies
               PROVE  held'[u][d] = saved.held[u][d] + OwedTo(call.transfers, u, d)[n' - 1]
    <3>1. pc' \in {"burn", "take"} /\ n' <= Len(call'.transfers) + 1
      BY <1>1, <1>2
    <3>2. QED
      BY <1>1, <3>1 DEF PayInv
  <2>1. held[u][d] = saved.held[u][d] + OwedTo(call.transfers, u, d)[n - 1]
    BY <1>1 DEF LedgerInv, PayInv
  <2>2. /\ OwedTo(call.transfers, u, d)[n]
             = OwedTo(call.transfers, u, d)[n - 1] + Gives(call.transfers[n], u, d)
        /\ OwedTo(call.transfers, u, d)[n - 1] \in Nat
    BY <1>2, OwedUnfolds
  <2>3. Gives(call.transfers[n], u, d) = IF u = to /\ d = c THEN a ELSE 0
    BY DEF Gives
  <2>4. n' - 1 = n
    BY <1>1, <1>2
  <2>5. held[u][d] \in Int /\ saved.held[u][d] \in Int
    BY <1>5 DEF Accounts
  <2>6. held'[u][d] = IF u = to /\ d = c THEN held[u][d] + a ELSE held[u][d]
    BY <1>5 DEF Accounts
  <2> HIDE DEF a, c, to
  <2>7. QED
    BY <1>4, <2>1, <2>2, <2>3, <2>4, <2>5, <2>6
<1> HIDE DEF a, c, to
<1>8. ASSUME NEW d \in Currencies
      PROVE  Paid(d)' = Paid(d) + (IF d = c THEN a ELSE 0)
  <2>1. CASE d = c
    <3> DEFINE f == [u \in Users |-> held[u][d] - saved.held[u][d]]
               g == [u \in Users |-> held'[u][d] - saved.held[u][d]]
    <3>1. \A u \in Users : f[u] \in Int /\ g[u] \in Int
      BY <1>4, <1>5 DEF Accounts
    <3>2. \A u \in Users \ {to} : g[u] = f[u]
      BY <1>5 DEF Accounts
    <3>3. g[to] - f[to] = a
      BY <1>4, <1>5, <2>1
    <3> HIDE DEF f, g
    <3>4. SumFunctionOnSet(g, Users) = SumFunctionOnSet(f, Users) + (g[to] - f[to])
      BY <1>4, <3>1, <3>2, HookAssumption, SumChange
    <3>5. QED
      BY <1>1, <2>1, <3>3, <3>4 DEF f, g, Paid
  <2>2. CASE d # c
    <3>1. \A u \in Users : held'[u][d] = held[u][d]
      BY <1>5, <2>2 DEF Accounts
    <3>2. Paid(d)' = Paid(d)
      BY <1>1, <3>1, PaidKept
    <3>3. QED
      BY <1>1, <2>2, <3>2, PaidType
  <2>3. QED
    BY <2>1, <2>2
<1>9. EscrowInv'
  <2> SUFFICES ASSUME NEW d \in Currencies
               PROVE  /\ amm'[d] = saved'.amm[d] - Net(d)'
                      /\ claims'[d] = saved'.claims[d] - Paid(d)' - Burning(d)'
                               - (IF Netted(d)' /\ Net(d)' < 0 THEN -Net(d)' ELSE 0)
                      /\ held'[Hook][d] = saved'.held[Hook][d]
                               + (IF Netted(d)' /\ Net(d)' > 0 THEN Net(d)' ELSE 0)
    BY DEF EscrowInv
  <2>1. Net(d)' = Net(d) /\ Burning(d)' = 0 /\ ~Netted(d) /\ ~Netted(d)'
    BY <1>1 DEF Net, Burning, Netted
  <2>2. Burning(d) = IF d = c THEN a ELSE 0
    BY <1>1 DEF Burning, c, a
  <2>3. /\ claims[d] \in Int /\ saved.claims[d] \in Int /\ Paid(d) \in Int
        /\ saved.held[Hook][d] \in Int
    BY <1>1, EscrowTypes
  <2>4. /\ amm[d] = saved.amm[d] - Net(d) /\ claims[d] = saved.claims[d] - Paid(d) - Burning(d) - 0
        /\ held[Hook][d] = saved.held[Hook][d] + 0
    BY <1>1, <2>1 DEF LedgerInv, EscrowInv
  <2>5. held'[Hook][d] = held[Hook][d]
    BY <1>4, <1>5 DEF Accounts
  <2>6. claims'[d] = saved.claims[d] - Paid(d)' - 0 - 0
    BY <1>1, <1>4, <1>8, <2>2, <2>3, <2>4
  <2>7. QED
    BY <1>1, <2>1, <2>4, <2>5, <2>6
<1>10. QED
  BY <1>6, <1>7, <1>9 DEF LedgerInv

(* After the loop every transfer of the list is paid.                      *)
LEMMA EndTransfersLedger ==
    ASSUME LedgerInv, IInv, EndTransfers
    PROVE  LedgerInv'
<1>1. /\ pc = "burn" /\ pc' = "swap" /\ n > Len(call.transfers) /\ call \in SettleCall
      /\ UNCHANGED <<poolKeys, reserves, claims, amm, held, delta, call, swapDelta, saved>>
  BY DEF EndTransfers, money, IInv, TypeOK, Settling
<1>2. Len(call.transfers) \in Nat /\ n \in Nat
  BY <1>1, HookAssumption DEF IInv, TypeOK, SettleCall
<1>3. KeyedByPool' /\ DepositInv'
  BY <1>1 DEF LedgerInv, KeyedByPool, DepositInv
<1>4. PayInv'
  <2>1. n <= Len(call.transfers) + 1
    BY <1>1 DEF LedgerInv, PayInv
  <2>2. n - 1 = Len(call.transfers)
    BY <1>1, <1>2, <2>1
  <2>3. QED
    BY <1>1, <2>2 DEF LedgerInv, PayInv
<1>5. EscrowInv'
  <2>1. \A c \in Currencies : /\ Paid(c)' = Paid(c) /\ Net(c)' = Net(c) /\ Burning(c)' = Burning(c)
                              /\ Netted(c)' = Netted(c)
    BY <1>1, PaidKept DEF Net, Burning, Netted
  <2>2. QED
    BY <1>1, <2>1 DEF LedgerInv, EscrowInv
<1>6. QED
  BY <1>3, <1>4, <1>5 DEF LedgerInv

(* A swap takes out of the curve what it adds to swapDelta.                *)
LEMMA SwapOneLedger ==
    ASSUME LedgerInv, IInv, IInv', SwapOne
    PROVE  LedgerInv'
<1>1. /\ pc = "swap" /\ pc' = "swap" /\ call \in SettleCall
      /\ UNCHANGED <<poolKeys, reserves, claims, held, call, saved>>
  BY DEF SwapOne, IInv, TypeOK, Settling
<1>2. KeyedByPool' /\ DepositInv' /\ PayInv'
  BY <1>1 DEF LedgerInv, KeyedByPool, DepositInv, PayInv
<1>3. EscrowInv'
  <2> SUFFICES ASSUME NEW d \in Currencies
               PROVE  /\ amm'[d] = saved'.amm[d] - Net(d)'
                      /\ claims'[d] = saved'.claims[d] - Paid(d)' - Burning(d)'
                               - (IF Netted(d)' /\ Net(d)' < 0 THEN -Net(d)' ELSE 0)
                      /\ held'[Hook][d] = saved'.held[Hook][d]
                               + (IF Netted(d)' /\ Net(d)' > 0 THEN Net(d)' ELSE 0)
    BY DEF EscrowInv
  <2>1. Paid(d)' = Paid(d) /\ Burning(d)' = Burning(d) /\ ~Netted(d) /\ ~Netted(d)'
    BY <1>1, PaidKept DEF Burning, Netted
  <2>2. /\ amm[d] = saved.amm[d] - Net(d) /\ claims[d] = saved.claims[d] - Paid(d) - Burning(d) - 0
        /\ held[Hook][d] = saved.held[Hook][d] + 0
    BY <1>1, <2>1 DEF LedgerInv, EscrowInv
  <2>3. /\ reserves[d] = claims[d] + amm[d] + Net(d)
        /\ reserves'[d] = claims'[d] + amm'[d] + Net(d)'
    BY <1>1 DEF IInv, Solvency, DeltaInv
  <2>4. claims[d] \in Int /\ amm[d] \in Int /\ amm'[d] \in Int /\ saved.amm[d] \in Int
    BY <1>1 DEF IInv, TypeOK
  <2>5. Net(d) \in Int /\ Net(d)' \in Int
    BY DEF Net, IInv, TypeOK
  <2>6. amm'[d] = saved.amm[d] - Net(d)'
    <3> DEFINE was == Net(d)
               now == Net(d)'
    <3>1. claims[d] + amm[d] + was = claims[d] + amm'[d] + now
      BY <1>1, <2>3
    <3>2. amm[d] = saved.amm[d] - was /\ was \in Int /\ now \in Int
      BY <2>2, <2>5
    <3> HIDE DEF was, now
    <3>3. amm'[d] = saved.amm[d] - now
      BY <2>4, <3>1, <3>2
    <3>4. QED
      BY <3>3 DEF now
  <2>7. QED
    BY <1>1, <2>1, <2>2, <2>6
<1>4. QED
  BY <1>2, <1>3 DEF LedgerInv

(* Ending the loop of swaps moves nothing.                                 *)
LEMMA EndSwapsLedger ==
    ASSUME LedgerInv, IInv, EndSwaps
    PROVE  LedgerInv'
<1>1. /\ pc = "swap" /\ pc' = "net0" /\ call \in SettleCall
      /\ UNCHANGED <<poolKeys, claims, amm, held, n, call, swapDelta, saved>>
  BY DEF EndSwaps, money, IInv, TypeOK, Settling
<1>2. KeyedByPool' /\ DepositInv' /\ PayInv'
  BY <1>1 DEF LedgerInv, KeyedByPool, DepositInv, PayInv
<1>3. \A c \in Currencies : /\ Paid(c)' = Paid(c) /\ Net(c)' = Net(c) /\ Burning(c)' = Burning(c)
                            /\ Netted(c)' = Netted(c)
  BY <1>1, PaidKept DEF Net, Burning, Netted
<1>4. EscrowInv'
  BY <1>1, <1>3 DEF LedgerInv, EscrowInv
<1>5. QED
  BY <1>2, <1>4 DEF LedgerInv

(* Netting a currency touches the escrow and the hook's own balance only.  *)
LEMMA NettingMoves ==
    ASSUME IInv, NEW c, NEW a \in Int, a # 0 => c \in Currencies,
           NoNet(a) \/ TakeNet(c, a) \/ SettleNet(c, a)
    PROVE  /\ amm' = amm
           /\ \A u \in Users : held'[u] = held[u]
           /\ \A d \in Currencies :
                 /\ held'[Hook][d] = held[Hook][d] + (IF d = c /\ a > 0 THEN a ELSE 0)
                 /\ claims'[d] = claims[d] - (IF d = c /\ a < 0 THEN -a ELSE 0)
<1>1. \A d \in Currencies : held[Hook][d] \in Int /\ claims[d] \in Int
  BY DEF IInv, TypeOK, Accounts
<1>2. Hook \in Accounts /\ Users \subseteq Accounts /\ Hook \notin Users
  BY HookAssumption DEF Accounts
<1>3. held \in [Accounts -> [Currencies -> Nat]] /\ claims \in [Currencies -> Nat]
  BY DEF IInv, TypeOK
<1>4. CASE NoNet(a)
  BY <1>1, <1>4 DEF NoNet, money
<1>5. CASE TakeNet(c, a)
  <2>1. a > 0 /\ UNCHANGED <<claims, amm>> /\ held' = [held EXCEPT ![Hook][c] = @ + a]
    BY <1>5 DEF TakeNet, Take
  <2>2. \A u \in Users : held'[u] = held[u]
    BY <1>2, <1>3, <2>1
  <2>3. \A d \in Currencies : held'[Hook][d] = held[Hook][d] + (IF d = c THEN a ELSE 0)
    BY <1>1, <1>2, <1>3, <2>1
  <2>4. QED
    BY <1>1, <2>1, <2>2, <2>3
<1>6. CASE SettleNet(c, a)
  <2>1. a < 0 /\ UNCHANGED <<held, amm>> /\ claims' = [claims EXCEPT ![c] = @ - (-a)]
    BY <1>6 DEF SettleNet, Burn
  <2>2. \A d \in Currencies : claims'[d] = claims[d] - (IF d = c THEN -a ELSE 0)
    BY <1>1, <1>3, <2>1
  <2>3. QED
    BY <1>1, <2>1, <2>2
<1>7. QED
  BY <1>4, <1>5, <1>6

(* The books after the swaps, in terms of what has been netted.            *)
LEMMA NettingLedger ==
    ASSUME LedgerInv, IInv, pc \in {"net0", "net1"}, pc' \in {"net1", "return"},
           UNCHANGED <<poolKeys, n, call, swapDelta, saved>>, amm' = amm,
           \A u \in Users : held'[u] = held[u],
           \A d \in Currencies :
                 /\ held'[Hook][d] = held[Hook][d]
                      + (IF ~Netted(d) /\ Netted(d)' /\ Net(d) > 0 THEN Net(d) ELSE 0)
                 /\ claims'[d] = claims[d]
                      - (IF ~Netted(d) /\ Netted(d)' /\ Net(d) < 0 THEN -Net(d) ELSE 0),
           \A d \in Currencies : Netted(d) => Netted(d)'
    PROVE  LedgerInv'
<1>1. call \in SettleCall /\ call' \in SettleCall
  BY DEF IInv, TypeOK, Settling
<1>2. KeyedByPool' /\ DepositInv'
  BY <1>1, CallsDiffer DEF LedgerInv, KeyedByPool, DepositInv
<1>3. PayInv'
  BY <1>1 DEF LedgerInv, PayInv
<1>4. EscrowInv'
  <2> SUFFICES ASSUME NEW d \in Currencies
               PROVE  /\ amm'[d] = saved'.amm[d] - Net(d)'
                      /\ claims'[d] = saved'.claims[d] - Paid(d)' - Burning(d)'
                               - (IF Netted(d)' /\ Net(d)' < 0 THEN -Net(d)' ELSE 0)
                      /\ held'[Hook][d] = saved'.held[Hook][d]
                               + (IF Netted(d)' /\ Net(d)' > 0 THEN Net(d)' ELSE 0)
    BY DEF EscrowInv
  <2>1. Paid(d)' = Paid(d) /\ Net(d)' = Net(d) /\ Burning(d) = 0 /\ Burning(d)' = 0
    BY PaidKept DEF Burning, Net
  <2>2. /\ amm[d] = saved.amm[d] - Net(d)
        /\ claims[d] = saved.claims[d] - Paid(d) - 0 - (IF Netted(d) /\ Net(d) < 0 THEN -Net(d) ELSE 0)
        /\ held[Hook][d] = saved.held[Hook][d] + (IF Netted(d) /\ Net(d) > 0 THEN Net(d) ELSE 0)
    BY <1>1, <2>1 DEF LedgerInv, EscrowInv
  <2>3. /\ claims[d] \in Int /\ saved.claims[d] \in Int /\ Paid(d) \in Int /\ Net(d) \in Int
        /\ held[Hook][d] \in Int /\ saved.held[Hook][d] \in Int
    BY EscrowTypes
  <2>4. /\ held'[Hook][d] = held[Hook][d]
             + (IF ~Netted(d) /\ Netted(d)' /\ Net(d) > 0 THEN Net(d) ELSE 0)
        /\ claims'[d] = claims[d]
             - (IF ~Netted(d) /\ Netted(d)' /\ Net(d) < 0 THEN -Net(d) ELSE 0)
        /\ Netted(d) => Netted(d)'
    OBVIOUS
  <2> DEFINE before == Netted(d)
             after == Netted(d)'
             net == Net(d)
             paid == Paid(d)
  <2> HIDE DEF before, after, net, paid
  <2>5. claims'[d] = saved.claims[d] - paid - 0 - (IF after /\ net < 0 THEN -net ELSE 0)
    BY <2>2, <2>3, <2>4 DEF before, after, net, paid
  <2>6. held'[Hook][d] = saved.held[Hook][d] + (IF after /\ net > 0 THEN net ELSE 0)
    BY <2>2, <2>3, <2>4 DEF before, after, net
  <2>7. QED
    BY <2>1, <2>2, <2>5, <2>6 DEF after, net, paid
<1>5. QED
  BY <1>2, <1>3, <1>4 DEF LedgerInv

LEMMA Net0Ledger ==
    ASSUME LedgerInv, IInv, Net0
    PROVE  LedgerInv'
<1> DEFINE a == swapDelta.amount0
           c == call.key.currency0
<1>1. /\ pc = "net0" /\ pc' = "net1" /\ UNCHANGED <<poolKeys, n, call, swapDelta, saved>>
      /\ NoNet(a) \/ TakeNet(c, a) \/ SettleNet(c, a)
      /\ a \in Int
  BY DEF Net0, IInv, TypeOK
<1>2. call.key = NoKey \/ (c \in Currencies /\ call.key # NoKey)
  BY <1>1, HookAssumption DEF IInv, KeyInv, ValidKey, PoolKey, Settling
<1>3. call.key = NoKey => a = 0
  BY <1>1 DEF IInv, DeltaInv, Settling, ZeroDelta
<1>4. \A d \in Currencies : /\ ~Netted(d) /\ (Netted(d)' <=> call.key # NoKey /\ d = c)
                            /\ call.key # NoKey /\ d = c => Net(d) = a
  BY <1>1 DEF Netted, Net
<1> HIDE DEF a, c
<1>5. /\ amm' = amm
      /\ \A u \in Users : held'[u] = held[u]
      /\ \A d \in Currencies :
            /\ held'[Hook][d] = held[Hook][d] + (IF d = c /\ a > 0 THEN a ELSE 0)
            /\ claims'[d] = claims[d] - (IF d = c /\ a < 0 THEN -a ELSE 0)
  BY <1>1, <1>2, <1>3, NettingMoves
<1>6. \A d \in Currencies :
         /\ held'[Hook][d] = held[Hook][d]
              + (IF ~Netted(d) /\ Netted(d)' /\ Net(d) > 0 THEN Net(d) ELSE 0)
         /\ claims'[d] = claims[d]
              - (IF ~Netted(d) /\ Netted(d)' /\ Net(d) < 0 THEN -Net(d) ELSE 0)
         /\ Netted(d) => Netted(d)'
  BY <1>1, <1>3, <1>4, <1>5
<1>7. QED
  BY <1>1, <1>5, <1>6, NettingLedger

LEMMA Net1Ledger ==
    ASSUME LedgerInv, IInv, Net1
    PROVE  LedgerInv'
<1> DEFINE a == swapDelta.amount1
           c == call.key.currency1
<1>1. /\ pc = "net1" /\ pc' = "return" /\ UNCHANGED <<poolKeys, n, call, swapDelta, saved>>
      /\ NoNet(a) \/ TakeNet(c, a) \/ SettleNet(c, a)
      /\ a \in Int
  BY DEF Net1, IInv, TypeOK
<1>2. \/ call.key = NoKey
      \/ c \in Currencies /\ call.key # NoKey /\ c # call.key.currency0
  BY <1>1, HookAssumption DEF IInv, KeyInv, ValidKey, PoolKey, Settling
<1>3. call.key = NoKey => a = 0
  BY <1>1 DEF IInv, DeltaInv, Settling, ZeroDelta
<1>4. \A d \in Currencies : /\ Netted(d)' /\ (Netted(d) <=> call.key # NoKey /\ d = call.key.currency0)
                            /\ ~Netted(d) => Net(d) = IF call.key # NoKey /\ d = c THEN a ELSE 0
  BY <1>1 DEF Netted, Net
<1> HIDE DEF a, c
<1>5. /\ amm' = amm
      /\ \A u \in Users : held'[u] = held[u]
      /\ \A d \in Currencies :
            /\ held'[Hook][d] = held[Hook][d] + (IF d = c /\ a > 0 THEN a ELSE 0)
            /\ claims'[d] = claims[d] - (IF d = c /\ a < 0 THEN -a ELSE 0)
  BY <1>1, <1>2, <1>3, NettingMoves
<1>6. \A d \in Currencies :
         /\ held'[Hook][d] = held[Hook][d]
              + (IF ~Netted(d) /\ Netted(d)' /\ Net(d) > 0 THEN Net(d) ELSE 0)
         /\ claims'[d] = claims[d]
              - (IF ~Netted(d) /\ Netted(d)' /\ Net(d) < 0 THEN -Net(d) ELSE 0)
         /\ Netted(d) => Netted(d)'
  BY <1>1, <1>2, <1>3, <1>4, <1>5
<1>7. QED
  BY <1>1, <1>5, <1>6, NettingLedger

(* Every step keeps the books.                                             *)
LEMMA NextLedgerInv == LedgerInv /\ IInv /\ [Next]_vars => LedgerInv'
<1> SUFFICES ASSUME LedgerInv, IInv, [Next]_vars PROVE LedgerInv'
  OBVIOUS
<1>0. IInv'
  BY NextIInv
<1>1. ASSUME NEW p \in Pools, AfterInitialize(p) PROVE LedgerInv'
  BY <1>1, AfterInitializeLedger
<1>2. CASE Swap
  <2>1. PICK u \in Users, p \in Pools, z \in BOOLEAN, d \in HookData,
             a \in Amounts \cup {-b : b \in Amounts} :
          PlainSwap(u, p, z, a, d) \/ BeforeSwap(u, p, z, a, d)
    BY <1>2 DEF Swap
  <2>2. a \in Int
    BY HookAssumption
  <2>3. CASE PlainSwap(u, p, z, a, d)
    <3>1. pc' = "idle" /\ KeyedByPool'
      BY <2>3 DEF PlainSwap, LedgerInv, KeyedByPool
    <3>2. QED
      BY <3>1, IdleLedger DEF LedgerInv, DepositInv, PayInv, EscrowInv
  <2>4. QED
    BY <1>0, <2>1, <2>2, <2>3, BeforeSwapLedger
<1>3. CASE ChargeSwapper
  BY <1>3, ChargeSwapperLedger
<1>4. ASSUME NEW p \in Pools, NEW ts \in TransferLists, NEW ss \in SwapLists,
             SettleBalances(p, ts, ss)
      PROVE  LedgerInv'
  BY <1>0, <1>4, SettleBalancesLedger
<1>5. CASE UnlockCallback
  BY <1>0, <1>5, BurnTransferLedger, TakeTransferLedger, EndTransfersLedger, SwapOneLedger,
     EndSwapsLedger, Net0Ledger, Net1Ledger DEF UnlockCallback
<1>6. CASE Return \/ Revert
  <2>1. pc' = "idle" /\ KeyedByPool'
    BY <1>6 DEF Return, Revert, Relock, LedgerInv, KeyedByPool
  <2>2. QED
    BY <2>1 DEF LedgerInv, DepositInv, PayInv, EscrowInv
<1>7. CASE UNCHANGED vars
  <2>1. \A c : /\ Paid(c)' = Paid(c) /\ Net(c)' = Net(c) /\ Burning(c)' = Burning(c)
               /\ Netted(c)' = Netted(c)
    BY <1>7 DEF vars, Paid, Net, Burning, Netted
  <2>2. KeyedByPool' /\ DepositInv' /\ PayInv'
    BY <1>7 DEF vars, LedgerInv, KeyedByPool, DepositInv, PayInv
  <2>3. EscrowInv'
    BY <1>7, <2>1 DEF vars, LedgerInv, EscrowInv
  <2>4. QED
    BY <2>2, <2>3 DEF LedgerInv
<1>8. QED
  BY <1>1, <1>2, <1>3, <1>4, <1>5, <1>6, <1>7 DEF Next

------------------------------------------------------------------------------
(* A settlement that commits has paid each trader the transfers of its     *)
(* list and no trader anything else.                                       *)
LEMMA ReturnPays ==
    ASSUME LedgerInv, IInv, Return, call \in SettleCall
    PROVE  \A u \in Users, c \in Currencies :
              /\ held'[u][c] - saved.held[u][c] = Owed(call.transfers, u, c)
              /\ Owed(call.transfers, u, c) \in Nat
<1> SUFFICES ASSUME NEW u \in Users, NEW c \in Currencies
             PROVE  /\ held'[u][c] - saved.held[u][c] = Owed(call.transfers, u, c)
                    /\ Owed(call.transfers, u, c) \in Nat
  OBVIOUS
<1>1. pc = "return" /\ held' = held
  BY DEF Return, money
<1>2. held[u][c] = saved.held[u][c] + Owed(call.transfers, u, c)
  BY <1>1 DEF LedgerInv, PayInv, Owed
<1>3. call.transfers \in TransferLists /\ Len(call.transfers) \in Nat
  BY HookAssumption DEF SettleCall
<1>4. Owed(call.transfers, u, c) \in Nat
  BY <1>3, OwedUnfolds DEF Owed
<1>5. held[u][c] \in Int /\ saved.held[u][c] \in Int
  BY <1>1 DEF IInv, TypeOK, Accounts
<1>6. QED
  BY <1>1, <1>2, <1>4, <1>5

(* unlockCallback pays the batch: whatever the swaps and the netting do, a *)
(* committed settlement changes every trader's balance by what its list of *)
(* transfers says.                                                         *)
THEOREM BatchIsPaid == Spec => PaysTheBatch
<1>1. LedgerInv /\ IInv /\ [Next]_vars =>
        [Return /\ call \in SettleCall =>
           \A u \in Users, c \in Currencies :
              held'[u][c] - saved.held[u][c] = Owed(call.transfers, u, c)]_vars
  BY ReturnPays
<1>2. Spec => [](LedgerInv /\ IInv)
  <2>1. Init => LedgerInv /\ IInv
    BY InitLedgerInv, InitIInv
  <2>2. LedgerInv /\ IInv /\ [Next]_vars => (LedgerInv /\ IInv)'
    BY NextLedgerInv, NextIInv
  <2>3. QED
    BY <2>1, <2>2, PTL DEF Spec
<1>3. QED
  BY <1>1, <1>2, PTL DEF Spec, PaysTheBatch

------------------------------------------------------------------------------
(* The steps of the hook as steps of the ledger.                           *)

(* The ledger sums as the hook's theorems do.                              *)
LEMMA LedgerSum == \A f : Ledger!SumFunction(f) = SumFunctionOnSet(f, DOMAIN f)
BY DEF Ledger!SumFunction, Ledger!SumFunctionOnSet, Ledger!FoldFunctionOnSet,
       Ledger!MapThenFoldSet, SumFunctionOnSet, FoldFunctionOnSet, MapThenFoldSet

(* An order that commits is the deposit of its input.                      *)
LEMMA ReturnDeposits ==
    ASSUME LedgerInv, IInv, Return, call \in SwapCall
    PROVE  Ledger!Deposit
<1> DEFINE u == call.user
           c == call.currency
           r == call.returned
<1>1. pc = "return" /\ pc' = "idle" /\ UNCHANGED <<claims, amm, held>>
  BY DEF Return, Relock, money
<1>2. /\ r > 0 /\ claims = [saved.claims EXCEPT ![c] = @ + r] /\ amm = saved.amm
      /\ held = [saved.held EXCEPT ![u][c] = @ - r]
  BY <1>1 DEF LedgerInv, DepositInv
<1>3. u \in Users /\ u \in Accounts /\ c \in Currencies /\ r \in Nat
  BY DEF SwapCall, Accounts
<1>4. saved.held \in [Accounts -> [Currencies -> Nat]] /\ saved.claims \in [Currencies -> Nat]
  BY <1>1 DEF IInv, TypeOK
<1> HIDE DEF u, c, r
<1>5. held[u][c] = saved.held[u][c] - r /\ saved.held[u][c] \in Nat
  BY <1>2, <1>3, <1>4
<1>6. saved.held[u][c] > held[u][c] /\ saved.held[u][c] - held[u][c] = r
  BY <1>2, <1>3, <1>5
<1>7. held = [saved.held EXCEPT ![u][c] = held[u][c]]
  BY <1>2, <1>5
<1>8. claims = [saved.claims EXCEPT ![c] = @ + (saved.held[u][c] - held[u][c])]
  BY <1>2, <1>6
<1>9. /\ Committed(held, saved.held) = saved.held /\ Committed(held, saved.held)' = held
      /\ Committed(claims, saved.claims) = saved.claims /\ Committed(claims, saved.claims)' = claims
      /\ Committed(amm, saved.amm) = amm /\ Committed(amm, saved.amm)' = amm
  BY <1>1, <1>2 DEF Committed
<1>10. QED
  BY <1>3, <1>6, <1>7, <1>8, <1>9 DEF Ledger!Deposit

(* A settlement that commits is one of the ledger's.                       *)
LEMMA ReturnSettles ==
    ASSUME LedgerInv, IInv, Return, call \in SettleCall
    PROVE  Ledger!Settle
<1>1. pc = "return" /\ pc' = "idle" /\ UNCHANGED <<claims, amm, held>>
  BY DEF Return, Relock, money
<1>2. /\ Committed(held, saved.held) = saved.held /\ Committed(held, saved.held)' = held
      /\ Committed(claims, saved.claims) = saved.claims /\ Committed(claims, saved.claims)' = claims
      /\ Committed(amm, saved.amm) = saved.amm /\ Committed(amm, saved.amm)' = amm
  BY <1>1 DEF Committed
<1>3. \A u \in Users, c \in Currencies : held[u][c] >= saved.held[u][c]
  <2> SUFFICES ASSUME NEW u \in Users, NEW c \in Currencies PROVE held[u][c] >= saved.held[u][c]
    OBVIOUS
  <2>1. /\ held[u][c] - saved.held[u][c] = Owed(call.transfers, u, c)
        /\ Owed(call.transfers, u, c) \in Nat
    BY <1>1, ReturnPays
  <2>2. held[u][c] \in Int /\ saved.held[u][c] \in Int
    BY <1>1 DEF IInv, TypeOK, Accounts
  <2>3. QED
    BY <2>1, <2>2
<1>4. ASSUME NEW c \in Currencies
      PROVE  /\ claims[c] >= 0
             /\ claims[c] = saved.claims[c]
                   - Ledger!SumFunction([u \in Users |-> held[u][c] - saved.held[u][c]])
                   - Ledger!Surplus(amm[c] - saved.amm[c])
             /\ held[Hook][c] = saved.held[Hook][c] + Ledger!Surplus(saved.amm[c] - amm[c])
  <2> DEFINE net == Net(c)
             paid == Paid(c)
  <2>1. Burning(c) = 0 /\ Netted(c)
    BY <1>1 DEF Burning, Netted
  <2>2. /\ claims[c] \in Int /\ saved.claims[c] \in Int /\ amm[c] \in Int /\ saved.amm[c] \in Int
        /\ held[Hook][c] \in Int /\ saved.held[Hook][c] \in Int /\ net \in Int /\ paid \in Int
        /\ claims[c] >= 0
    BY <1>1, EscrowTypes DEF IInv, TypeOK
  <2>3. /\ amm[c] = saved.amm[c] - net
        /\ claims[c] = saved.claims[c] - paid - 0 - (IF net < 0 THEN -net ELSE 0)
        /\ held[Hook][c] = saved.held[Hook][c] + (IF net > 0 THEN net ELSE 0)
    BY <1>1, <2>1 DEF LedgerInv, EscrowInv
  <2>4. Ledger!SumFunction([u \in Users |-> held[u][c] - saved.held[u][c]]) = paid
    BY LedgerSum DEF Paid
  <2> HIDE DEF net, paid
  <2>5. amm[c] - saved.amm[c] = -net /\ saved.amm[c] - amm[c] = net
    BY <2>2, <2>3
  <2>6. /\ Ledger!Surplus(amm[c] - saved.amm[c]) = IF net < 0 THEN -net ELSE 0
        /\ Ledger!Surplus(saved.amm[c] - amm[c]) = IF net > 0 THEN net ELSE 0
    BY <2>2, <2>5 DEF Ledger!Surplus
  <2>7. QED
    BY <2>2, <2>3, <2>4, <2>6
<1>5. \E k \in {PoolKeyOf[p] : p \in Pools} :
         \A c \in Currencies \ {k.currency0, k.currency1} : amm[c] = saved.amm[c]
  <2>1. PICK p \in Pools : call.key \in {NoKey, PoolKeyOf[p]}
    BY <1>1 DEF LedgerInv, KeyedByPool
  <2> DEFINE k == PoolKeyOf[p]
  <2>2. ASSUME NEW c \in Currencies \ {k.currency0, k.currency1} PROVE amm[c] = saved.amm[c]
    <3>1. Net(c) = 0
      BY <2>1, <2>2 DEF Net
    <3>2. amm[c] = saved.amm[c] - 0
      BY <1>1, <3>1 DEF LedgerInv, EscrowInv
    <3>3. saved.amm[c] \in Int
      BY <1>1, EscrowTypes
    <3>4. QED
      BY <3>2, <3>3
  <2>3. QED
    BY <2>2
<1>6. QED
  BY <1>2, <1>3, <1>4, <1>5 DEF Ledger!Settle

(* A swap let through is a trade.                                          *)
LEMMA PlainSwapTrades ==
    ASSUME IInv, NEW u \in Users, NEW p \in Pools, NEW z \in BOOLEAN, NEW d \in HookData,
           NEW a \in Int, PlainSwap(u, p, z, a, d)
    PROVE  Ledger!Trade
<1> DEFINE in == Input(poolKeys[p], z)
           out == Output(poolKeys[p], z)
<1>1. in \in Currencies /\ out \in Currencies /\ in # out
  BY DEF PlainSwap, IInv, KeyInv, ValidKey, Input, Output, PoolKey
<1>2. PICK x \in 0..MaxQuote, y \in 0..MaxQuote :
        /\ amm' = [amm EXCEPT ![in] = @ + x, ![out] = @ - y]
        /\ held' = [held EXCEPT ![u][in] = @ - x, ![u][out] = @ + y]
  BY Zenon DEF PlainSwap, Curve
<1>3. x \in Int /\ y \in Int /\ u \in Accounts
  BY HookAssumption DEF Accounts
<1>4. pc = "idle" /\ pc' = "idle" /\ UNCHANGED claims
  BY DEF PlainSwap
<1>5. held \in [Accounts -> [Currencies -> Nat]] /\ amm \in [Currencies -> Nat]
  BY DEF IInv, TypeOK
<1> HIDE DEF in, out
<1>6. held[u] \in [Currencies -> Nat]
  BY <1>3, <1>5
<1>7. ASSUME NEW c \in Currencies PROVE held'[u][c] + amm'[c] = held[u][c] + amm[c]
  <2>1. held'[u] = [held[u] EXCEPT ![in] = @ - x, ![out] = @ + y]
    BY <1>2, <1>3, <1>5
  <2>2. held[u][c] \in Int /\ amm[c] \in Int
    BY <1>5, <1>6
  <2>3. held'[u][c] = IF c = in THEN held[u][c] - x ELSE IF c = out THEN held[u][c] + y ELSE held[u][c]
    BY <1>1, <1>6, <2>1
  <2>4. amm'[c] = IF c = in THEN amm[c] + x ELSE IF c = out THEN amm[c] - y ELSE amm[c]
    BY <1>1, <1>2, <1>5
  <2>5. QED
    BY <1>3, <2>2, <2>3, <2>4
<1>8. \A v \in (Users \cup {Hook}) \ {u} : held'[v] = held[v]
  BY <1>2, <1>5 DEF Accounts
<1>9. /\ Committed(held, saved.held) = held /\ Committed(held, saved.held)' = held'
      /\ Committed(claims, saved.claims)' = Committed(claims, saved.claims)
      /\ Committed(amm, saved.amm) = amm /\ Committed(amm, saved.amm)' = amm'
  BY <1>4 DEF Committed
<1>10. QED
  BY <1>7, <1>8, <1>9 DEF Ledger!Trade

(* Every step of the hook is a step of the ledger or none.                 *)
LEMMA NextImplements == LedgerInv /\ IInv /\ [Next]_vars => [Ledger!LedgerNext]_(Ledger!ledgerVars)
<1> SUFFICES ASSUME LedgerInv, IInv, [Next]_vars
             PROVE  Ledger!LedgerNext \/ UNCHANGED Ledger!ledgerVars
  BY DEF Ledger!ledgerVars
<1>1. CASE Return
  <2>1. call \in SwapCall \/ call \in SettleCall
    BY <1>1 DEF Return, LedgerInv, KeyedByPool
  <2>2. QED
    BY <1>1, <2>1, ReturnDeposits, ReturnSettles DEF Ledger!LedgerNext
<1>2. ASSUME NEW u \in Users, NEW p \in Pools, NEW z \in BOOLEAN, NEW d \in HookData,
             NEW a \in Amounts \cup {-b : b \in Amounts}, PlainSwap(u, p, z, a, d)
      PROVE  Ledger!LedgerNext
  <2>1. a \in Int
    BY HookAssumption
  <2>2. QED
    BY <1>2, <2>1, PlainSwapTrades DEF Ledger!LedgerNext
<1>3. ASSUME NEW args, NEW target, target # "idle", Unlock(target, args),
             UNCHANGED <<amm, held>>
      PROVE  UNCHANGED Ledger!ledgerVars
  BY <1>3 DEF Unlock, Committed, Ledger!ledgerVars
<1>4. ASSUME NEW u \in Users, NEW p \in Pools, NEW z \in BOOLEAN, NEW d \in HookData,
             NEW a \in Int, BeforeSwap(u, p, z, a, d)
      PROVE  UNCHANGED Ledger!ledgerVars
  BY <1>3, <1>4 DEF BeforeSwap
<1>5. ASSUME NEW p \in Pools, NEW ts \in TransferLists, NEW ss \in SwapLists,
             SettleBalances(p, ts, ss)
      PROVE  UNCHANGED Ledger!ledgerVars
  BY <1>3, <1>5 DEF SettleBalances, money
<1>6. ASSUME pc # "idle", pc' # "idle", saved' = saved PROVE UNCHANGED Ledger!ledgerVars
  BY <1>6 DEF Committed, Ledger!ledgerVars
<1>7. CASE ChargeSwapper \/ UnlockCallback
  BY <1>6, <1>7 DEF ChargeSwapper, UnlockCallback, BurnTransfer, TakeTransfer, EndTransfers,
                    SwapOne, EndSwaps, Net0, Net1
<1>8. CASE Revert
  BY <1>8 DEF Revert, Relock, Committed, Ledger!ledgerVars
<1>9. ASSUME NEW p \in Pools, AfterInitialize(p) PROVE UNCHANGED Ledger!ledgerVars
  BY <1>9 DEF AfterInitialize, money, Committed, Ledger!ledgerVars
<1>10. CASE UNCHANGED vars
  BY <1>10 DEF vars, Committed, Ledger!ledgerVars
<1>11. CASE Swap
  <2>1. PICK u \in Users, p \in Pools, z \in BOOLEAN, d \in HookData,
             a \in Amounts \cup {-b : b \in Amounts} :
          PlainSwap(u, p, z, a, d) \/ BeforeSwap(u, p, z, a, d)
    BY <1>11 DEF Swap
  <2>2. a \in Int
    BY HookAssumption
  <2>3. QED
    BY <1>2, <1>4, <2>1, <2>2
<1>12. QED
  BY <1>1, <1>5, <1>7, <1>8, <1>9, <1>10, <1>11 DEF Next

(* The hook, with its burns, takes, swaps and nettings and a failure       *)
(* possible at each of them, implements the atomic ledger.                 *)
THEOREM HookImplementsLedger == Spec => ImplementsLedger
<1>1. Init => Ledger!LedgerInit
  BY DEF Init, Committed, Ledger!LedgerInit, NoDelta
<1>2. Init => LedgerInv /\ IInv
  BY InitLedgerInv, InitIInv
<1>3. LedgerInv /\ IInv /\ [Next]_vars => (LedgerInv /\ IInv)'
  BY NextLedgerInv, NextIInv
<1>4. QED
  BY <1>1, <1>2, <1>3, NextImplements, PTL DEF Spec, ImplementsLedger, Ledger!LedgerSpec
=============================================================================
