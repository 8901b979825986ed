---------------------------- MODULE AccountChain ----------------------------
(***************************************************************************)
(* One account on the chain: its singleton state cell, the asset cells its *)
(* lock guards, the signatures its key holders have made, and the          *)
(* transactions anyone may send.  A transaction can be committed long      *)
(* after it was signed, in any order, with any subset of the signatures    *)
(* made so far, and by anyone; every key may sign any intent, so removed   *)
(* and compromised keys are covered.  A transaction is verified against    *)
(* the cells that are live when it is committed.                           *)
(*                                                                         *)
(* The chain itself (live cells, cell deps, since, the Type ID system      *)
(* script) is external: it is modelled from what the lock relies on.       *)
(***************************************************************************)
EXTENDS AccountLock

CONSTANTS
  Keys, Slots, Verifiers,
  Outpoints,       \* identities of cells; every output takes one never used before
  Accounts,        \* account identifiers signers may be asked about, AccountId among them
  Rests,           \* the parts of a transaction that only the sighash sees
  Txs,             \* the transactions somebody may send
  Intents,         \* the intents a key holder may be asked to sign
  InitialData,     \* account states the creation tools may have written
  InitialState, InitialAssets,   \* outpoints at creation
  EpochAt, TimeAt,   \* the epoch and the median time the chain has come to at each height
  EpochSpan,         \* the stretch of epochs that the packed value of an epoch since means
  MaxSignatures, MaxHeight       \* bounds of the model

Locks == {"account", "foreign"}

Entries ==
  [slot : Slots, algorithm_id : STRING, capabilities : SUBSET STRING, weight : Nat,
   verifier_hash_type : Nat, verifier_abi : Nat, verifier_code_hash : Verifiers,
   key_id : Keys, key_id_sized : BOOLEAN, aux : AuxSizes]

AccountStates ==
  [framed : BOOLEAN, sequence : 0..U64_MAX, recovery_enabled : BOOLEAN,
   spend_threshold : Nat, rotate_threshold : Nat, recovery_threshold : Nat,
   recovery_since : Nat, authenticators : Seq(Entries)]

StateOutputs == [out : Outpoints, lock : Locks, data : AccountStates]
StateCells   == [out : Outpoints, lock : Locks, data : AccountStates, born : 0..MaxHeight]

Transactions ==
  [inputs : SUBSET Outpoints, deps : SUBSET Outpoints, group_deps : SUBSET Outpoints,
   since : Sinces, state_outputs : SUBSET StateOutputs, asset_outputs : SUBSET Outpoints,
   verifiers : [Verifiers -> Nat], rest : Rests]

IntentType == [operation : Operations, account_id : Accounts, data : AccountStates, tx : Txs]
Signatures == [key : Keys, intent : IntentType]

ASSUME ChainConstants ==
  /\ AccountId \in Accounts
  /\ Slots \subseteq Nat
  /\ Txs \subseteq Transactions
  /\ Intents \subseteq IntentType
  /\ InitialData \subseteq AccountStates
  /\ InitialState \in Outpoints
  /\ InitialAssets \subseteq Outpoints \ {InitialState}
  /\ MaxHeight \in Nat
  /\ EpochAt \in [0..MaxHeight -> Nat] /\ TimeAt \in [0..MaxHeight -> Nat]
  /\ EpochSpan \in [0..(SINCE_METRIC - 1) -> Nat]

\* AccountStateConfig::encode writes only states that validate_state accepts,
\* and only with sequence 0.
ASSUME InitialDataValid == \A d \in InitialData : d.sequence = 0 /\ validate_state(d)

VARIABLES
  states,   \* the live cells that carry the account's Type ID
  assets,   \* outpoints of the live asset cells under the account's lock
  used,     \* every outpoint created so far
  height,   \* the height of the chain
  signed,   \* the signatures that exist
  last      \* the last transaction the lock accepted, with what it resolved

vars == <<states, assets, used, height, signed, last>>

NoTx == [operation |-> "none"]
CommitRecords ==
  [operation : Operations, tx : Txs, data : AccountStates,
   born : 0..MaxHeight, height : 0..MaxHeight]

Init ==
  /\ \E d \in InitialData :
        states = {[out |-> InitialState, lock |-> "account", data |-> d, born |-> 0]}
  /\ assets = InitialAssets
  /\ used = InitialAssets \cup {InitialState}
  /\ height = 0
  /\ signed = {}
  /\ last = NoTx

(***************************************************************************)
(* The chain.                                                              *)
(***************************************************************************)
StateOuts == {c.out : c \in states}

\* Cells whose lock is the account's lock: consuming one runs the lock.
GuardedCells == assets \cup {c.out : c \in {s \in states : s.lock = "account"}}

\* Inputs and cell deps are live, outputs are new cells.
CellsResolve(tx) ==
  LET outs == {s.out : s \in tx.state_outputs} IN
  /\ tx.inputs \subseteq assets \cup StateOuts
  /\ tx.deps \cup tx.group_deps \subseteq StateOuts
  /\ (outs \cup tx.asset_outputs) \cap used = {}
  /\ outs \cap tx.asset_outputs = {}

\* The Type ID system script: at most one cell of the type in and out, and none
\* out without one in, the type being fixed by the account's creation.
TypeIdAccepts(tx) ==
  \/ tx.state_outputs = {}
  \/ /\ MatchingInputs(tx, states) # {}
     /\ \E s \in tx.state_outputs : tx.state_outputs = {s}

\* How far the chain has come at height h, in a since's metric.
ChainClock(metric, h) ==
  CASE metric = "block"     -> h
    [] metric = "epoch"     -> EpochAt[h]
    [] metric = "timestamp" -> TimeAt[h]

\* What the value of a since stands for.  That of an epoch since packs a number
\* with a fraction whose length is in the highest bits, so a larger value may
\* mean an earlier epoch.
SinceSpan(since) == IF since.metric = "epoch" THEN EpochSpan[since.value] ELSE since.value

\* At height h the chain lets an input with this since consume a cell that was
\* created at height born.
Matured(since, born, h) ==
  (IF since.relative THEN ChainClock(since.metric, born) ELSE 0) + SinceSpan(since)
    <= ChainClock(since.metric, h)

\* The since field of the state input, checked against the chain.
SinceMature(tx) == \A c \in MatchingInputs(tx, states) : Matured(tx.since, c.born, height)

ConsensusAccepts(tx) == CellsResolve(tx) /\ TypeIdAccepts(tx) /\ SinceMature(tx)

\* The account's lock runs once, for all inputs it guards.
LockRuns(tx) == tx.inputs \cap GuardedCells # {}

ApplyTx(tx) ==
  /\ states' = {c \in states : c.out \notin tx.inputs} \cup
               {[out |-> s.out, lock |-> s.lock, data |-> s.data, born |-> height] :
                   s \in tx.state_outputs}
  /\ assets' = (assets \ tx.inputs) \cup tx.asset_outputs
  /\ used' = used \cup {s.out : s \in tx.state_outputs} \cup tx.asset_outputs

(***************************************************************************)
(* Signers, blocks and transactions.                                       *)
(***************************************************************************)
Sign(k, intent) ==
  /\ Cardinality(signed) < MaxSignatures
  /\ signed' = signed \cup {[key |-> k, intent |-> intent]}
  /\ UNCHANGED <<states, assets, used, height, last>>

Tick ==
  /\ height < MaxHeight
  /\ height' = height + 1
  /\ UNCHANGED <<states, assets, used, signed, last>>

\* What every account transaction does: the chain resolves it, the lock accepts
\* it with some witness, and its cells are consumed and created.
Commit(operation, tx) ==
  /\ ConsensusAccepts(tx)
  /\ LockRuns(tx)
  /\ \E c \in states, sequence \in 0..U64_MAX :
       /\ StateAdmits(operation, sequence, tx, states, c)
       /\ \E P \in SUBSET Slots : \E proofs \in [P -> signed] :
             ProofsSuffice(operation, tx, proofs, c.data, signed)
       /\ last' = [operation |-> operation, tx |-> tx, data |-> c.data,
                   born |-> c.born, height |-> height]
  /\ ApplyTx(tx)
  /\ UNCHANGED <<height, signed>>

Spend(tx)   == Commit(OP_SPEND, tx)
Rotate(tx)  == Commit(OP_ROTATE, tx)
Recover(tx) == Commit(OP_RECOVERY, tx)

\* A transaction that consumes nothing the lock guards: a deposit, or a change
\* of a state cell that a rotation moved under another lock.
CommitUnguarded(tx) ==
  /\ ConsensusAccepts(tx)
  /\ ~LockRuns(tx)
  /\ ApplyTx(tx)
  /\ UNCHANGED <<height, signed, last>>

Next ==
  \/ \E k \in Keys, intent \in Intents : Sign(k, intent)
  \/ Tick
  \/ \E tx \in Txs : Spend(tx) \/ Rotate(tx) \/ Recover(tx) \/ CommitUnguarded(tx)

Spec == Init /\ [][Next]_vars
-----------------------------------------------------------------------------
(***************************************************************************)
(* Properties.                                                             *)
(***************************************************************************)

\* Types of the variables, which the proofs rest on.
TypeOK ==
  /\ states \subseteq StateCells
  /\ assets \subseteq Outpoints
  /\ used \subseteq Outpoints
  /\ assets \cup StateOuts \subseteq used
  /\ assets \cap StateOuts = {}
  /\ height \in 0..MaxHeight
  /\ signed \subseteq Signatures
  /\ last \in CommitRecords \cup {NoTx}

\* The signature of key k on exactly what was committed.
SignatureFor(k, commit) ==
  [key |-> k, intent |-> [operation |-> commit.operation, account_id |-> AccountId,
                          data |-> commit.data, tx |-> commit.tx]]

\* A committed transaction was signed, as this operation of this account on this
\* state by this transaction, by authenticators of the state it was committed
\* against that hold the capability and whose weights reach its threshold, and
\* that threshold is not zero: run() counts no proof made for another operation,
\* state, sequence or transaction, and no proof by a key that was rotated out.
CommitAuthorized ==
  last # NoTx =>
    \E I \in SUBSET DOMAIN last.data.authenticators :
      /\ \A i \in I :
           /\ capability_for_operation(last.operation)
                \in last.data.authenticators[i].capabilities
           /\ SignatureFor(last.data.authenticators[i].key_id, last) \in signed
      /\ WeightOf(last.data.authenticators, I)
           >= threshold_for_operation(last.operation, last.data)
      /\ threshold_for_operation(last.operation, last.data) # 0

\* A cell under the account's lock, asset or state, leaves the live set only by
\* a transaction that consumes it, that the lock accepted, and that enough of
\* the current authenticators signed as it stands.
GuardedCellsSafe ==
  [][\A c \in GuardedCells \ GuardedCells' :
       (last # NoTx /\ c \in last.tx.inputs /\ CommitAuthorized)']_vars

\* The state cell under the account's lock is never deleted, duplicated or
\* spent by a SPEND: when it goes, exactly one successor takes its place, with
\* the next sequence number, by a ROTATE or a RECOVERY of that very state.
StateEvolves ==
  [][\A c \in states \ states' :
       c.lock = "account" =>
         /\ \E n \in states' :
              /\ states' = {n}
              /\ n.data.sequence = c.data.sequence + 1
         /\ last'.operation \in {OP_ROTATE, OP_RECOVERY}
         /\ last'.data = c.data]_vars

(***************************************************************************)
(* Whether a policy can be met: what run() would answer if every           *)
(* authenticator that holds the capability signed.                         *)
(***************************************************************************)
OpenOperations(data) ==
  {OP_SPEND, OP_ROTATE} \cup (IF data.recovery_enabled THEN {OP_RECOVERY} ELSE {})

Holders(operation, data) ==
  WithCapability(data.authenticators, capability_for_operation(operation))

AllSign(operation, tx, data) ==
  [i \in Holders(operation, data) |->
     SignatureFor(data.authenticators[i].key_id,
                  [operation |-> operation, tx |-> tx, data |-> data])]

\* The witness's proofs then: one for every slot of a holder.
AllProofs(operation, tx, data) ==
  [slot \in {data.authenticators[i].slot : i \in Holders(operation, data)} |->
     AllSign(operation, tx, data)[CHOOSE i \in Holders(operation, data) :
                                    data.authenticators[i].slot = slot]]

MetByAll(operation, tx, data) ==
  ProofsSuffice(operation, tx, AllProofs(operation, tx, data), data,
                {AllSign(operation, tx, data)[i] : i \in Holders(operation, data)})

\* Every open operation needs a proof, and the lock accepts the proofs of all
\* holders of its capability on every transaction that carries their verifiers,
\* unless the aux of one of them is longer than a verifier request can hold.
Satisfiable(data) ==
  \A operation \in OpenOperations(data) :
    /\ threshold_for_operation(operation, data) # 0
    /\ (\A i \in Holders(operation, data) : data.authenticators[i].aux # "oversized") =>
         \A tx \in Txs :
            (\A i \in Holders(operation, data) : resolve_verifier(data.authenticators[i], tx))
              => MetByAll(operation, tx, data)

\* A transition of a state cell under the account's lock never installs a policy
\* that its authenticators cannot meet, whatever lock the successor is put
\* under, if each of them has an aux that fits into a verifier request: what
\* validate_state adds up is what run() will count.  (validate_state does not ask
\* for that: a policy with an oversized aux is installed and can not be met.
\* Once the state cell is under another lock, that lock alone decides.)
PolicySatisfiable ==
  [][\A c \in states \ states' :
       c.lock = "account" => \A n \in states' : Satisfiable(n.data)]_vars

\* A recovery is committed only on a state that enables it and only once the
\* since that its policy configures has matured for the state cell, unless the
\* since of the input has larger flag bits than the configured one or that one
\* is in epochs.  (The lock compares the u64s: a since of a higher kind passes
\* whatever its value, see docs/THREAT_MODEL.md, Residual risks.  For a
\* recovery_since relative in median time, the highest kind, there is no such.)
RecoveryDelayed ==
  last.operation = OP_RECOVERY =>
    /\ last.data.recovery_enabled
    /\ \A due \in Sinces :
         RawSince(due) = last.data.recovery_since =>
           \/ Matured(due, last.born, last.height)
           \/ SinceKind(last.tx.since) > SinceKind(due)
           \/ due.metric = "epoch"
=============================================================================
