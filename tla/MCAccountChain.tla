--------------------------- MODULE MCAccountChain ---------------------------
(***************************************************************************)
(* A small account for AccountChain.  Policies: "solo" (k1 spends and      *)
(* rotates alone, k2 recovers after a since), "joint" (k1 and k2 together, *)
(* no recovery), "stuck" (an unsatisfiable spend threshold, which no       *)
(* transition may install) and "vast" (joint with an oversized aux, which  *)
(* a transition may install).  s0 is the state cell at creation and a0 the *)
(* asset; s1, s2, s3 are successor cells, a1 a change output.              *)
(***************************************************************************)
EXTENDS AccountChain

MCKeys      == {"k1", "k2"}
MCSlots     == {0, 1}
MCVerifiers == {"p256"}
MCOutpoints == {"s0", "s1", "s2", "s3", "a0", "a1"}
MCAccounts  == {"acct", "other"}
MCRests     == {"r"}

Entry(slot, key, capabilities) ==
  [slot |-> slot, algorithm_id |-> "P256_WEBAUTHN", capabilities |-> capabilities,
   weight |-> 1, verifier_hash_type |-> 0, verifier_abi |-> VERIFIER_ABI_V1,
   verifier_code_hash |-> "p256", key_id |-> key, key_id_sized |-> TRUE,
   aux |-> "fits"]

Since(relative, metric, n) == [relative |-> relative, metric |-> metric, value |-> n]
Absolute(n) == Since(FALSE, "block", n)

Solo(q) ==
  [framed |-> TRUE, sequence |-> q, recovery_enabled |-> TRUE,
   spend_threshold |-> 1, rotate_threshold |-> 1, recovery_threshold |-> 1,
   recovery_since |-> RawSince(Absolute(2)),
   authenticators |-> <<Entry(0, "k1", {CAP_SPEND, CAP_ROTATE}),
                        Entry(1, "k2", {CAP_RECOVERY})>>]

Joint(q) ==
  [framed |-> TRUE, sequence |-> q, recovery_enabled |-> FALSE,
   spend_threshold |-> 2, rotate_threshold |-> 2, recovery_threshold |-> 0,
   recovery_since |-> 0,
   authenticators |-> <<Entry(0, "k1", {CAP_SPEND, CAP_ROTATE}),
                        Entry(1, "k2", {CAP_SPEND, CAP_ROTATE})>>]

Stuck(q) == [Joint(q) EXCEPT !.spend_threshold = 3]
Vast(q)  == [Joint(q) EXCEPT !.authenticators[2].aux = "oversized"]

\* Solo with a recovery_since of the highest kind: median time after the cell.
Timed(q) == [Solo(q) EXCEPT !.recovery_since = RawSince(Since(TRUE, "timestamp", 1))]

MCInitialData == {Solo(0), Timed(0)}

\* The chain: an epoch has two blocks, and median time stands still for one of
\* them.  The packed value of an epoch since is its number and, above it, the
\* length of a fraction that is zero.
MCEpochAt == [h \in 0..MaxHeight |-> h \div 2]
MCTimeAt  == [h \in 0..MaxHeight |-> (h + 1) \div 2]
MCEpochSpan == [v \in 0..(SINCE_METRIC - 1) |-> v % 2]

Tx(inputs, deps, since, state_outputs, asset_outputs) ==
  [inputs |-> inputs, deps |-> deps, group_deps |-> {}, since |-> since,
   state_outputs |-> state_outputs, asset_outputs |-> asset_outputs,
   verifiers |-> [v \in MCVerifiers |-> 1], rest |-> "r"]

\* Spends of the asset against one state cell, well formed and not.
SpendTxs(dep) ==
  LET tx == Tx({"a0"}, {dep}, Absolute(0), {}, {}) IN
  {tx,
   [tx EXCEPT !.asset_outputs = {"a1"}],           \* another recipient
   [tx EXCEPT !.group_deps = {dep}],               \* state resolved twice
   [tx EXCEPT !.inputs = {"a0", dep}, !.deps = {}]} \* state consumed and deleted

\* Transitions of the state cell, the first as the wallet builds it.
Transition(from, to, since, lock, data) ==
  Tx({from}, {}, since, {[out |-> to, lock |-> lock, data |-> data]}, {})

\* Sinces for a recovery of Solo, one of a kind that passes at once, and of Timed.
EarlySinces == {Absolute(1), Absolute(2), Since(FALSE, "epoch", 2)}
LateSinces  == {Since(TRUE, "timestamp", 0), Since(TRUE, "timestamp", 1)}

Transitions ==
  {Transition("s0", "s1", Absolute(0), "account", d) :
      d \in {Joint(1), Solo(0), Stuck(1), Vast(1)}} \cup
  {Transition("s0", "s1", s, "account", Solo(1)) :
      s \in EarlySinces \cup LateSinces} \cup
  {Transition("s0", "s1", Absolute(0), "foreign", Joint(1)),
   Transition("s1", "s2", Absolute(0), "account", Solo(2)),
   Transition("s2", "s3", Absolute(0), "account", Solo(0)),
   [Transition("s0", "s1", Absolute(0), "account", Joint(1)) EXCEPT
       !.inputs = {"s0", "a0"}, !.asset_outputs = {"a1"}]}

Delete == Tx({"s1"}, {}, Absolute(0), {}, {})

\* The spend of the asset after a transition.
LaterSpend == Tx({"a0"}, {"s1"}, Absolute(0), {}, {})

MCTxs == SpendTxs("s0") \cup {LaterSpend} \cup Transitions \cup {Delete}

Intent(op, account, data, tx) ==
  [operation |-> op, account_id |-> account, data |-> data, tx |-> tx]

\* Every transaction may be put to the key holders as the operation it is for,
\* on the states its cell can hold; the first spend and the first transition
\* also as another operation, for another account and on another state.
DataAt(tx) ==
  LET at == tx.inputs \cup tx.deps IN
  CASE "s2" \in at -> {Solo(2)}
    [] "s1" \in at -> {Joint(1), Solo(1)}
    [] tx.since \in LateSinces -> {Timed(0)}
    [] OTHER -> {Solo(0)}

Ask(tx) ==
  IF tx.inputs \cap {"s0", "s1", "s2"} = {} THEN {OP_SPEND}
  ELSE IF tx.since = Absolute(0) THEN {OP_ROTATE} ELSE {OP_RECOVERY}

FirstSpend      == Tx({"a0"}, {"s0"}, Absolute(0), {}, {})
FirstTransition == Transition("s0", "s1", Absolute(0), "account", Joint(1))

MCIntents ==
  {Intent(op, "acct", d, tx) : <<op, d, tx>> \in
     UNION {Ask(tx) \X DataAt(tx) \X {tx} : tx \in MCTxs}} \cup
  {Intent(OP_SPEND, "other", Solo(0), FirstSpend),
   Intent(OP_RECOVERY, "acct", Solo(0), FirstTransition),
   Intent(OP_ROTATE, "acct", Joint(1), FirstTransition)}
=============================================================================
