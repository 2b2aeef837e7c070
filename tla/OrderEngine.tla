---------------------------- MODULE OrderEngine ----------------------------
(***************************************************************************)
(* The order engine: commitments in a Merkle tree, proofs of membership,   *)
(* the zkVM program that checks an order, and the nullifiers that are      *)
(* spent.  A hash is the tuple of its domain tag and what is hashed: the   *)
(* preimages of the different hashes differ in length, so SHA-256 without  *)
(* collisions is injective over all of them.                               *)
(***************************************************************************)
EXTENDS Integers, Sequences, FiniteSets

CONSTANTS
    Users,         \* a user is its secret
    BalanceOf,     \* [Users -> Nat], the balance of each user
    Orders,        \* the orders users create
    Markets,       \* the market conditions orders are proved under
    Balances,      \* the balances the program may be given
    OwnPaths,      \* the paths a request may hold that generate_proof did not make
    OwnRoots,      \* the roots a request may hold that are not of the tree
    MaxLeaves,     \* bound: the size of the tree
    None

OrderData == [wallet_address : Users, token_in : STRING, amount_in : Nat,
              min_amount_out : Nat, target_price : Nat, deadline : Nat]
MarketConditions == [current_price : Nat, block_timestamp : Nat]

ASSUME EngineAssumption ==
    /\ BalanceOf \in [Users -> Nat]
    /\ Orders \subseteq OrderData
    /\ Markets \subseteq MarketConditions
    /\ Balances \subseteq Nat
    /\ \A path \in OwnPaths : Len(path.siblings) \in Nat
    /\ MaxLeaves \in Nat

VARIABLES
    commitments,   \* what users created: [order_data, nullifier, balance]
    leaves,        \* CommitmentMerkleTree.leaves
    roots,         \* history: the roots the tree had before today's
    held,          \* None, or a path generated earlier: [siblings, indices]
    outputs,       \* [values, known]: the public values of the valid proofs made so
                   \* far and, as history, whether their root was one of the tree's
    usedNullifiers,
    executed       \* history: the outputs that were executed

engineVars == <<commitments, leaves, roots, held, outputs, usedNullifiers, executed>>

HashOrder(order) == <<"ORDER", order>>
GenerateOrderNullifier(secret, context) == <<"ORDER_NULLIFIER", secret, context>>
ComputeNullifierHash(nullifier) == <<"NULLIFIER_HASH", nullifier>>
ComputeCommitmentHash(order, nullifier, balance) ==
    <<"COMMITMENT_HASH", HashOrder(order), nullifier, balance>>
HashPair(left, right) == <<"MERKLE_NODE", left, right>>
ZeroRoot == <<"ZERO">>

CommitmentHash(c) == ComputeCommitmentHash(c.order_data, c.nullifier, c.balance)

(* The order's hash is the context of its nullifier.                       *)
NullifierWithoutContext(user, order) ==    \* wrong: one nullifier for all orders of a user
    GenerateOrderNullifier(user, HashOrder(None))
OrderNullifier(user, order) == GenerateOrderNullifier(user, HashOrder(order))
CreateOrderCommitment(order, user) ==
    [order_data |-> order, nullifier |-> OrderNullifier(user, order),
     balance |-> BalanceOf[user]]

------------------------------------------------------------------------------
(* The tree.  Nodes of a level are numbered from 1 where the code counts   *)
(* from 0, so the left child of a pair has an odd number.                  *)
Parents(level) ==
    [i \in 1..((Len(level) + 1) \div 2) |->
        HashPair(level[2 * i - 1],
                 IF 2 * i <= Len(level) THEN level[2 * i] ELSE level[2 * i - 1])]

Levels == LET level[k \in Nat] == IF k = 0 THEN leaves ELSE Parents(level[k - 1])
          IN  level
Height == CHOOSE k \in 0..Len(leaves) :
              Len(Levels[k]) = 1 /\ \A j \in 0..(k - 1) : Len(Levels[j]) > 1
Root == IF leaves = <<>> THEN ZeroRoot ELSE Levels[Height][1]

LeafIndex(hash) ==
    CHOOSE i \in DOMAIN leaves :
        leaves[i] = hash /\ \A j \in 1..(i - 1) : leaves[j] # hash

(* The way up from a leaf: the number of the node above it on each level.  *)
Path(index) ==
    LET path[k \in Nat] == IF k = 0 THEN index ELSE (path[k - 1] + 1) \div 2
    IN  path
Sibling(i) == IF i % 2 = 1 THEN i + 1 ELSE i - 1

SiblingZeroAtEnd(level, i) ==    \* wrong: a zero hash beside the last node of an odd level
    IF Sibling(i) <= Len(level) THEN level[Sibling(i)] ELSE ZeroRoot
SiblingHash(level, i) ==
    IF Sibling(i) <= Len(level) THEN level[Sibling(i)] ELSE level[i]

ProofWithoutIndices(hash) ==    \* wrong: the indices are not pushed
    LET path == Path(LeafIndex(hash))
        levels == Levels
    IN  [siblings |-> [k \in 1..Height |-> SiblingHash(levels[k - 1], path[k - 1])],
         indices |-> <<>>]
ProofFor(hash) ==
    LET path == Path(LeafIndex(hash))
        levels == Levels
    IN  [siblings |-> [k \in 1..Height |-> SiblingHash(levels[k - 1], path[k - 1])],
         indices |-> [k \in 1..Height |-> (path[k - 1] - 1) % 2]]

VerifyCommitmentMerkleProof(hash, siblings, indices, root) ==
    /\ Len(siblings) = Len(indices)
    /\ LET current[k \in 0..Len(siblings)] ==
               IF k = 0 THEN hash
               ELSE IF indices[k] = 0 THEN HashPair(current[k - 1], siblings[k])
               ELSE HashPair(siblings[k], current[k - 1])
       IN  current[Len(siblings)] = root

------------------------------------------------------------------------------
(* The program.  stdin holds its public and private inputs.                *)
ValidBeforeDeadline(order, market) ==    \* wrong: the deadline itself is too late
    /\ market.block_timestamp < order.deadline
    /\ market.current_price >= order.target_price
ValidateOrder(order, market) ==
    /\ market.block_timestamp <= order.deadline
    /\ market.current_price >= order.target_price

VerifyNullifierKnowledge(c, commitmentHash, nullifierHash) ==
    /\ CommitmentHash(c) = commitmentHash
    /\ ComputeNullifierHash(c.nullifier) = nullifierHash

VerifyNullifierOrder(c, market, commitmentHash, nullifierHash) ==
    /\ VerifyNullifierKnowledge(c, commitmentHash, nullifierHash)
    /\ c.balance >= c.order_data.amount_in
    /\ ValidateOrder(c.order_data, market)

ValidWithoutMembership(stdin) ==    \* wrong: merkle_valid is computed and not used
    /\ ComputeNullifierHash(stdin.commitment.nullifier) = stdin.nullifier_hash
    /\ VerifyNullifierOrder(stdin.commitment, stdin.market,
                            CommitmentHash(stdin.commitment), stdin.nullifier_hash)
FinalValidity(stdin) ==
    /\ ComputeNullifierHash(stdin.commitment.nullifier) = stdin.nullifier_hash
    /\ VerifyNullifierOrder(stdin.commitment, stdin.market,
                            CommitmentHash(stdin.commitment), stdin.nullifier_hash)
    /\ VerifyCommitmentMerkleProof(CommitmentHash(stdin.commitment), stdin.siblings,
                                   stdin.indices, stdin.tree_root)

PublicValues(stdin) ==
    [nullifier_hash |-> ComputeNullifierHash(stdin.commitment.nullifier),
     wallet_address |-> stdin.commitment.order_data.wallet_address,
     amount_in |-> stdin.commitment.order_data.amount_in,
     min_amount_out |-> stdin.commitment.order_data.min_amount_out]

Stdin(c, path, root, market) ==
    [market |-> market, tree_root |-> root,
     nullifier_hash |-> ComputeNullifierHash(c.nullifier), commitment |-> c,
     siblings |-> path.siblings, indices |-> path.indices]

------------------------------------------------------------------------------
EngineInit ==
    /\ commitments = {}
    /\ leaves = <<>>
    /\ roots = {}
    /\ held = None
    /\ outputs = {}
    /\ usedNullifiers = {}
    /\ executed = {}

(* A user creates an order; one it has created before gives the same       *)
(* commitment again.                                                       *)
CreateOrder(user, order) ==
    /\ order.wallet_address = user
    /\ commitments' = commitments \cup {CreateOrderCommitment(order, user)}
    /\ UNCHANGED <<leaves, roots, held, outputs, usedNullifiers, executed>>

AddCommitment(c) ==
    /\ Len(leaves) < MaxLeaves
    /\ leaves' = Append(leaves, CommitmentHash(c))
    /\ roots' = roots \cup {Root}
    /\ UNCHANGED <<commitments, held, outputs, usedNullifiers, executed>>

GenerateProof(hash) ==
    /\ \E i \in DOMAIN leaves : leaves[i] = hash
    /\ held' = ProofFor(hash)
    /\ UNCHANGED <<commitments, leaves, roots, outputs, usedNullifiers, executed>>

(* The prover is given whatever the request holds.  A result that is not   *)
(* valid, or no result, leaves no trace.  The root is an input of the      *)
(* program and not one of its public values: what is proved does not say   *)
(* which tree it is about.                                                 *)
KnownRoots == roots \cup {Root}
Prove(c, path, root, market) ==
    /\ LET stdin == Stdin(c, path, root, market) IN
       /\ FinalValidity(stdin)
       /\ outputs' = outputs \cup
                         {[values |-> PublicValues(stdin), known |-> root \in KnownRoots]}
    /\ UNCHANGED <<commitments, leaves, roots, held, usedNullifiers, executed>>

(* The nullifier of an execution is stored, with no look at the store.     *)
Execute(output) ==
    /\ usedNullifiers' = usedNullifiers \cup {output.values.nullifier_hash}
    /\ executed' = executed \cup {output}
    /\ UNCHANGED <<commitments, leaves, roots, held, outputs>>

(* What the program may be given: any order, with the nullifier of any and *)
(* any balance.                                                            *)
Candidates ==
    {[order_data |-> o, nullifier |-> OrderNullifier(p.wallet_address, p), balance |-> b] :
        o \in Orders, p \in Orders, b \in Balances}

Paths == OwnPaths \cup ({held} \ {None})

EngineNext ==
    \/ \E user \in Users, order \in Orders : CreateOrder(user, order)
    \/ \E c \in commitments : AddCommitment(c) \/ GenerateProof(CommitmentHash(c))
    \/ \E c \in Candidates, path \in Paths, root \in KnownRoots \cup OwnRoots,
          market \in Markets : Prove(c, path, root, market)
    \/ \E output \in outputs : Execute(output)

EngineSpec == EngineInit /\ [][EngineNext]_engineVars

------------------------------------------------------------------------------
InTree(c) == \E i \in DOMAIN leaves : leaves[i] = CommitmentHash(c)

(* Every commitment is one a user made with its own balance, the tree      *)
(* holds commitments only, a generated path has an index, 0 or 1, for      *)
(* every sibling, and the nullifiers in the store are those of the         *)
(* outputs that were executed, each a valid result.                        *)
EngineTypeOK ==
    /\ commitments \subseteq {CreateOrderCommitment(o, u) : o \in Orders, u \in Users}
    /\ Len(leaves) <= MaxLeaves
    /\ \A i \in DOMAIN leaves : \E c \in commitments : leaves[i] = CommitmentHash(c)
    /\ held # None =>
          /\ Len(held.indices) = Len(held.siblings)
          /\ \A k \in DOMAIN held.indices : held.indices[k] \in {0, 1}
    /\ executed \subseteq outputs
    /\ usedNullifiers = {output.values.nullifier_hash : output \in executed}

(* generate_proof and the program agree on every tree, however many leaves *)
(* it has, and wherever equal leaves are: an order in the tree is accepted *)
(* with a fresh proof, up to its deadline, from its target price on, and   *)
(* with a balance that covers it, and in no other case.                    *)
MembersExecutable ==
    \A c \in commitments, market \in Markets :
        InTree(c) =>
            (FinalValidity(Stdin(c, ProofFor(CommitmentHash(c)), Root, market)) <=>
                /\ c.balance >= c.order_data.amount_in
                /\ market.current_price >= c.order_data.target_price
                /\ market.block_timestamp <= c.order_data.deadline)

Known(results) == {output \in results : output.known}

(* Whatever order, nullifier, balance and path the program is given: what  *)
(* it accepts under a root the tree has or had is an order in the tree as  *)
(* its user committed to it, with balance enough.  Under another root it   *)
(* promises nothing, and its result looks the same.                        *)
OnlyMembersAccepted ==
    \A output \in Known(outputs) : \E c \in commitments :
        /\ InTree(c)
        /\ c.balance >= c.order_data.amount_in
        /\ output.values = PublicValues([commitment |-> c])

(* A store of nullifiers answers the question it is kept for, as long as   *)
(* results under roots of the tree are all that is executed: an order's    *)
(* nullifier is found there if the order was executed and in no other      *)
(* case, whatever else its user executed, however often it was proved and  *)
(* whichever tree it was proved in.                                        *)
ReplaysDetected ==
    executed = Known(executed) =>
        \A c \in commitments :
            ComputeNullifierHash(c.nullifier) \in usedNullifiers <=>
                \E output \in executed : output.values = PublicValues([commitment |-> c])

(* The order an output is about: the one its nullifier was made of.        *)
OrderOf(output) ==
    CHOOSE o \in Orders :
        output.values.nullifier_hash = ComputeNullifierHash(OrderNullifier(o.wallet_address, o))

Book == INSTANCE OrderBook WITH
    created <- {c.order_data : c \in commitments},
    listed <- {c.order_data : c \in {d \in commitments : InTree(d)}},
    approved <- {OrderOf(output) : output \in Known(outputs)},
    executed <- {OrderOf(output) : output \in Known(executed)}

(* Behind commitments, trees that grow and paths of earlier trees, the     *)
(* results under roots of the tree make a plain order book: an order is    *)
(* executed after it was approved, which takes that its user created and   *)
(* listed it, a market that suited it, and the user's own balance.         *)
ImplementsBook == Book!BookSpec

------------------------------------------------------------------------------
(* "target_price: 2100000000u64, // Max $2100/ETH": an order that pays     *)
(* USDC is executed at its target price or below.                          *)
MaxPriceKept ==
    \A c \in commitments, market \in Markets :
        /\ c.order_data.token_in = "USDC"
        /\ InTree(c)
        /\ FinalValidity(Stdin(c, ProofFor(CommitmentHash(c)), Root, market))
        => market.current_price <= c.order_data.target_price
=============================================================================
