-------------------------- MODULE MCAccountLockRun --------------------------
(***************************************************************************)
(* Executions of the lock: for each operation a well-formed base case and  *)
(* its variations in the state, the transaction and the witness, with      *)
(* every list of up to three proofs over two slots (and one that does not  *)
(* exist) and the signatures of two keys, some of them made for another    *)
(* operation.                                                              *)
(***************************************************************************)
EXTENDS AccountLockRun

Entry(slot, key, capabilities, w) ==
  [slot |-> slot, algorithm_id |-> "P256_WEBAUTHN", capabilities |-> capabilities,
   weight |-> w, verifier_hash_type |-> 0, verifier_abi |-> VERIFIER_ABI_V1,
   verifier_code_hash |-> "p256", key_id |-> key, key_id_sized |-> TRUE, aux |-> "fits"]

AllCaps == {CAP_SPEND, CAP_ROTATE, CAP_RECOVERY}

\* Two authenticators; spending takes 2, rotating 3, recovering 1.
Base(q) ==
  [framed |-> TRUE, sequence |-> q, recovery_enabled |-> TRUE,
   spend_threshold |-> 2, rotate_threshold |-> 3, recovery_threshold |-> 1,
   recovery_since |-> 2,
   authenticators |-> <<Entry(1, "k1", AllCaps, 1), Entry(3, "k2", AllCaps, 2)>>]

SetEntry(s, i, e) == [s EXCEPT !.authenticators[i] = e]

StatesLike(s) ==
  LET e == s.authenticators[2] IN
  {s,
   [s EXCEPT !.framed = FALSE],
   [s EXCEPT !.authenticators = <<>>],
   [s EXCEPT !.authenticators = <<e, e>>],
   [s EXCEPT !.authenticators = @ \o <<Entry(4, "k2", AllCaps, 1)>>],
   [s EXCEPT !.spend_threshold = 0],
   [s EXCEPT !.spend_threshold = 4],
   [s EXCEPT !.rotate_threshold = 4],
   [s EXCEPT !.recovery_threshold = 0],
   [s EXCEPT !.recovery_enabled = FALSE],
   [s EXCEPT !.recovery_enabled = FALSE, !.recovery_threshold = 0, !.recovery_since = 0],
   SetEntry(s, 2, [e EXCEPT !.weight = 0]),
   SetEntry(s, 2, [e EXCEPT !.capabilities = {"unknown"}]),
   SetEntry(s, 2, [e EXCEPT !.capabilities = {CAP_SPEND, CAP_ROTATE}]),
   SetEntry(s, 2, [e EXCEPT !.verifier_abi = 2]),
   SetEntry(s, 2, [e EXCEPT !.verifier_code_hash = "missing"]),
   SetEntry(s, 2, [e EXCEPT !.algorithm_id = "FALCON512"]),
   SetEntry(s, 2, [e EXCEPT !.key_id_sized = FALSE]),
   SetEntry(s, 2, [e EXCEPT !.aux = "oversized"])}

StateCell(data) == [out |-> "s0", lock |-> "account", data |-> data, born |-> 0]

Tx(op, successor) ==
  [inputs        |-> IF op = OP_SPEND THEN {"a0"} ELSE {"s0"},
   deps          |-> IF op = OP_SPEND THEN {"s0"} ELSE {},
   group_deps    |-> {},
   since         |-> [relative |-> FALSE, metric |-> "block", value |-> 2],
   state_outputs |-> IF op = OP_SPEND THEN {}
                     ELSE {[out |-> "s1", lock |-> "account", data |-> successor]},
   asset_outputs |-> {},
   verifiers     |-> [p256 |-> 1, missing |-> 0],
   rest          |-> "r"]

TxsLike(tx) ==
  {tx,
   [tx EXCEPT !.inputs = {"a0", "s0"}, !.deps = {}],
   [tx EXCEPT !.inputs = {"a0"}, !.deps = {}],
   [tx EXCEPT !.deps = {"s0"}, !.group_deps = {"s0"}],
   [tx EXCEPT !.state_outputs = {}],
   [tx EXCEPT !.since.value = 1],
   [tx EXCEPT !.since.value = 0, !.since.metric = "timestamp"],
   [tx EXCEPT !.verifiers = [p256 |-> 2, missing |-> 0]]}

Sig(key, op, data, tx) ==
  [key |-> key, intent |-> [operation |-> op, account_id |-> "acct", data |-> data, tx |-> tx]]

\* The signatures that exist: both keys on the operation, k2 on another one.
SignedFor(op, data, tx) ==
  {Sig("k1", op, data, tx), Sig("k2", op, data, tx),
   Sig("k2", IF op = OP_SPEND THEN OP_ROTATE ELSE OP_SPEND, data, tx)}

Proof(slot, sig) == [slot |-> slot, sig |-> sig, framed |-> TRUE, fits_request |-> TRUE]

Witness(op, q, proofs) ==
  [lock_readable |-> TRUE, header_parses |-> TRUE, operation |-> op, state_sequence |-> q,
   proofs |-> proofs, trailing_bytes |-> FALSE, others_readable |-> TRUE]

Case(op, data, tx, witness) ==
  [args |-> "parsed", tx |-> tx, states |-> {StateCell(data)}, witness |-> witness,
   signed |-> SignedFor(op, data, tx)]

Both(op, data, tx) ==
  <<Proof(1, Sig("k1", op, data, tx)), Proof(3, Sig("k2", op, data, tx))>>

BaseCase(op, data, tx) == Case(op, data, tx, Witness(op, data.sequence, Both(op, data, tx)))

\* Lists of proofs: any slots in any order, any signature for any slot.
ProofLists(op, data, tx) ==
  LET sigs   == SignedFor(op, data, tx)
      proofs == {Proof(slot, sig) : slot \in {1, 2, 3}, sig \in sigs}
      first  == Proof(1, Sig("k1", op, data, tx))
  IN {<<>>} \cup {<<p>> : p \in proofs} \cup {<<p, q>> : p \in proofs, q \in proofs} \cup
     {<<first, q, p>> : p \in proofs, q \in proofs}

WitnessesLike(w) ==
  {w,
   [w EXCEPT !.lock_readable = FALSE],
   [w EXCEPT !.header_parses = FALSE],
   [w EXCEPT !.state_sequence = @ + 1],
   [w EXCEPT !.proofs[2].framed = FALSE],
   [w EXCEPT !.proofs[2].fits_request = FALSE],
   [w EXCEPT !.trailing_bytes = TRUE],
   [w EXCEPT !.others_readable = FALSE]}

CasesFor(op) ==
  LET data == Base(0)
      tx   == Tx(op, Base(1))
      base == BaseCase(op, data, tx)
  IN {base, [base EXCEPT !.args = "malformed"], [base EXCEPT !.states = {}]} \cup
     {[base EXCEPT !.witness = w] : w \in WitnessesLike(base.witness)} \cup
     {BaseCase(op, d, tx) : d \in StatesLike(data)} \cup
     {BaseCase(op, data, Tx(op, d)) : d \in StatesLike(Base(1)) \cup {Base(0), Base(2)}} \cup
     {BaseCase(op, Base(U64_MAX), Tx(op, Base(0)))} \cup
     {BaseCase(op, data, t) : t \in TxsLike(tx)} \cup
     {Case(op, data, tx, Witness(op, 0, list)) : list \in ProofLists(op, data, tx)}

MCCases == UNION {CasesFor(op) : op \in Operations}
=============================================================================
