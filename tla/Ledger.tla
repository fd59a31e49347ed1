------------------------------- MODULE Ledger -------------------------------
(***************************************************************************)
(* Transactions and the UTXO map they act on: types/transaction.rs and the *)
(* body of check_tx_state, which network/worker.rs and miner/worker.rs     *)
(* hold in two identical copies.                                           *)
(*                                                                         *)
(* A signed transaction is a record                                        *)
(*   input    : sequence of outpoints <<prev_trans, index>>                *)
(*   output   : sequence of [recipient_addr, value]                        *)
(*   signer   : the address of public_key_vector                           *)
(*   verified : what verify() answers for the signature                    *)
(* SHA-256 is injective here: st.hash() is the record itself, and the      *)
(* address of a key is the key.  A State is a function from outpoints to   *)
(* [value, recipient].                                                     *)
(***************************************************************************)
EXTENDS Integers, SequencesExt

CONSTANTS
  IcoHash,      \* the all-zero hash that names the initial coin offering
  IcoAddr,      \* the address of the first hard-coded key
  IcoValue,     \* the coins it holds in the genesis state (100 in the code)
  U32Bound      \* 2^32 in the code: values are u32 and sums wrap at it

ASSUME LedgerAssumption ==
  /\ U32Bound \in Nat
  /\ IcoValue \in 1 .. U32Bound - 1

-----------------------------------------------------------------------------
(* State::new: the genesis state has the one entry of the ICO.             *)
InitialState ==
  [o \in {<<IcoHash, 0>>} |-> [value |-> IcoValue, recipient |-> IcoAddr]]

(* Output::pass_check: a balance is cut in three, or paid in one piece     *)
(* when a third of it would be zero.                                       *)
Shares(balance) ==
  LET v1 == balance \div 3
      v2 == (balance - v1) \div 2
      v3 == balance - v1 - v2
  IN  IF 0 \in {v1, v2, v3} THEN <<balance>> ELSE <<v1, v2, v3>>

PassCheckOutputs(balance, peer_addrs) ==
  LET shares == Shares(balance)
  IN  [k \in 1 .. Len(shares) |->
         [recipient_addr |-> peer_addrs[IF k = 1 THEN 1 ELSE 2],
          value          |-> shares[k]]]

(* What the generator signs: Transaction::pass_check with sign().          *)
SignedPayment(signer, inputs, balance, peer_addrs) ==
  [input    |-> inputs,
   output   |-> PassCheckOutputs(balance, peer_addrs),
   signer   |-> signer,
   verified |-> TRUE]

-----------------------------------------------------------------------------
(* A sum of u32 values as the release build computes it: additions that    *)
(* wrap, in whatever order, give the total modulo 2^32.                    *)
SumU32(values) == SumFunction(values) % U32Bound

(* The early returns of check_tx_state for one transaction: the signature, *)
(* every input unspent and addressed to the signer, inputs cover outputs.  *)
InputsUnspent(utxo, st) ==
  \A k \in DOMAIN st.input :
    /\ st.input[k] \in DOMAIN utxo
    /\ utxo[st.input[k]].recipient = st.signer

InputsNotSummed(utxo, st) == st.input # <<>>   \* mutant of the next

InputsCoverOutputs(utxo, st) ==
  SumU32([k \in DOMAIN st.input |-> utxo[st.input[k]].value])
    >= SumU32([k \in DOMAIN st.output |-> st.output[k].value])

TxPasses(utxo, st) ==
  /\ st.verified
  /\ InputsUnspent(utxo, st)
  /\ InputsCoverOutputs(utxo, st)

(* The state update after a transaction passes: its inputs are removed,    *)
(* then its outputs are inserted under (hash, index).                      *)
InputsKept(utxo, st) == utxo                   \* mutant of the next

SpendInputs(utxo, st) == Restrict(utxo, DOMAIN utxo \ ToSet(st.input))

TxApplied(utxo, st) ==
  LET made == {<<st, k - 1>> : k \in DOMAIN st.output}
      kept == SpendInputs(utxo, st)
  IN  [o \in made \cup DOMAIN kept |->
         IF o \in made
         THEN [value     |-> st.output[o[2] + 1].value,
               recipient |-> st.output[o[2] + 1].recipient_addr]
         ELSE kept[o]]

(* The loop of check_tx_state over a block's transactions, on a clone of   *)
(* the parent's state: ok is FALSE as soon as one of them fails.           *)
CheckOne(acc, st) ==
  IF acc.ok /\ TxPasses(acc.states, st)
  THEN [ok |-> TRUE, states |-> TxApplied(acc.states, st)]
  ELSE [ok |-> FALSE, states |-> acc.states]

Replay(utxo, txs) == FoldLeft(CheckOne, [ok |-> TRUE, states |-> utxo], txs)

(* The coins a state holds.                                                *)
Coins(utxo) == SumFunction([o \in DOMAIN utxo |-> utxo[o].value])

(* What the types of a transaction say of its outputs, which are u32.      *)
TypedTx(st) ==
  /\ st.output \in Seq(ToSet(st.output))
  /\ \A k \in DOMAIN st.output : st.output[k].value \in Nat

(* Transactions of honest nodes: they name some input and none twice, and  *)
(* pay out less than 2^32.  (check_tx_state demands neither.)              *)
PlainTx(st) ==
  /\ st # IcoHash
  /\ TypedTx(st)
  /\ st.input \in Seq(ToSet(st.input)) /\ st.input # <<>>
  /\ \A j, k \in DOMAIN st.input : st.input[j] = st.input[k] => j = k
  /\ SumFunction([k \in DOMAIN st.output |-> st.output[k].value]) < U32Bound

AllPlain(txs) == txs \in Seq(ToSet(txs)) /\ \A k \in DOMAIN txs : PlainTx(txs[k])

AllTyped(txs) == txs \in Seq(ToSet(txs)) /\ \A k \in DOMAIN txs : TypedTx(txs[k])
=============================================================================
