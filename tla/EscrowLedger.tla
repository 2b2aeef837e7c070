---------------------------- MODULE EscrowLedger ----------------------------
(***************************************************************************)
(* What the dark pool promises about money, with no steps in between: an   *)
(* order moves its input into escrow in one step, and a settlement takes   *)
(* everything it pays out of the escrow and out of what the pool's curve   *)
(* gives for it, in one step, or does nothing at all.  DarkCoWHook, which  *)
(* does the same thing call by call, is checked to implement it.           *)
(***************************************************************************)
EXTENDS Integers, Functions

CONSTANTS
    Currencies,   \* the ERC-20 currencies
    Users,        \* the traders' accounts
    Hook,         \* the hook's own account
    Keys          \* the pool keys a settlement may trade under

VARIABLES
    escrow,       \* [Currencies -> Nat]: what traders have given up and not been paid for
    amm,          \* [Currencies -> Nat]: what the liquidity providers own
    held          \* [Users \cup {Hook} -> [Currencies -> Nat]]: ERC-20 balances

ledgerVars == <<escrow, amm, held>>

Surplus(n) == IF n > 0 THEN n ELSE 0

(***************************************************************************)
(* An order: one trader's input becomes escrow, and nothing else moves.    *)
(***************************************************************************)
Deposit ==
    \E u \in Users, c \in Currencies :
        /\ held[u][c] > held'[u][c]
        /\ held' = [held EXCEPT ![u][c] = held'[u][c]]
        /\ escrow' = [escrow EXCEPT ![c] = @ + (held[u][c] - held'[u][c])]
        /\ UNCHANGED amm

(***************************************************************************)
(* An ordinary swap: a trader and the curve exchange one currency for the  *)
(* other.  Escrow is out of reach of it.                                   *)
(***************************************************************************)
Trade ==
    \E u \in Users :
        /\ \A c \in Currencies : held'[u][c] + amm'[c] = held[u][c] + amm[c]
        /\ \A v \in (Users \cup {Hook}) \ {u} : held'[v] = held[v]
        /\ UNCHANGED escrow

(***************************************************************************)
(* A settlement.  No trader loses; per currency, the escrow shrinks by     *)
(* exactly what the traders were paid plus what the curve took in, and     *)
(* what the curve gave out is in the hook's hands.  The curve trades only  *)
(* the two currencies of one pool key.                                     *)
(***************************************************************************)
Settle ==
    /\ \A u \in Users, c \in Currencies : held'[u][c] >= held[u][c]
    /\ \A c \in Currencies :
        /\ escrow'[c] >= 0
        /\ escrow'[c] = escrow[c]
                          - SumFunction([u \in Users |-> held'[u][c] - held[u][c]])
                          - Surplus(amm'[c] - amm[c])
        /\ held'[Hook][c] = held[Hook][c] + Surplus(amm[c] - amm'[c])
    /\ \E k \in Keys : \A c \in Currencies \ {k.currency0, k.currency1} : amm'[c] = amm[c]

LedgerInit == escrow = [c \in Currencies |-> 0]

LedgerNext == Deposit \/ Trade \/ Settle

LedgerSpec == LedgerInit /\ [][LedgerNext]_ledgerVars
=============================================================================
