------------------------- MODULE AccountChainProofs -------------------------
(***************************************************************************)
(* Proofs about AccountChain, for every set of keys, transactions, intents *)
(* and initial states and every bound.  The weight of a set of             *)
(* authenticators is never computed: the proofs only use that the lock     *)
(* compares the same weight that the properties speak of.                  *)
(***************************************************************************)
EXTENDS AccountChain, TLAPS

(***************************************************************************)
(* Types.                                                                  *)
(***************************************************************************)

\* Applying a transaction whose cells resolve keeps the live cells well typed,
\* accounted for in used, and assets apart from state cells.
LEMMA ApplyTxTypes ==
  ASSUME TypeOK, NEW tx \in Txs, CellsResolve(tx), ApplyTx(tx)
  PROVE  /\ states' \subseteq StateCells
         /\ assets' \subseteq Outpoints
         /\ used' \subseteq Outpoints
         /\ assets' \cup StateOuts' \subseteq used'
         /\ assets' \cap StateOuts' = {}
<1>1. /\ tx.state_outputs \subseteq StateOutputs
      /\ tx.asset_outputs \subseteq Outpoints
      /\ height \in 0..MaxHeight
  BY ChainConstants DEF Transactions, TypeOK
<1>2. states' \subseteq StateCells
  BY <1>1 DEF TypeOK, ApplyTx, StateOutputs, StateCells
<1>3. \A s \in tx.state_outputs : s.out \in Outpoints
  BY <1>1 DEF StateOutputs
<1>4. assets' \subseteq Outpoints /\ used' \subseteq Outpoints
  BY <1>1, <1>3 DEF TypeOK, ApplyTx
<1>5. \A o \in StateOuts' : o \in StateOuts \/ \E s \in tx.state_outputs : o = s.out
  BY DEF StateOuts, ApplyTx
<1>6. assets' \cup StateOuts' \subseteq used'
  BY <1>5 DEF TypeOK, ApplyTx
<1>7. assets' \cap StateOuts' = {}
  <2>1. SUFFICES ASSUME NEW o \in assets', o \in StateOuts'
                 PROVE  FALSE
    OBVIOUS
  <2>2. o \in assets \/ o \in tx.asset_outputs
    BY <2>1 DEF ApplyTx
  <2>3. CASE o \in StateOuts
    BY <2>2, <2>3 DEF TypeOK, CellsResolve
  <2>4. CASE \E s \in tx.state_outputs : o = s.out
    BY <2>2, <2>4 DEF TypeOK, CellsResolve
  <2> QED BY <1>5, <2>1, <2>3, <2>4
<1> QED BY <1>2, <1>4, <1>6, <1>7

\* What a committed transaction records about itself is well typed.
LEMMA CommitTypes ==
  ASSUME TypeOK, NEW operation \in Operations, NEW tx \in Txs, Commit(operation, tx)
  PROVE  TypeOK'
<1>1. CellsResolve(tx) /\ ApplyTx(tx)
  BY DEF Commit, ConsensusAccepts
<1>2. PICK c \in states :
        last' = [operation |-> operation, tx |-> tx, data |-> c.data,
                 born |-> c.born, height |-> height]
  BY DEF Commit
<1>3. c.data \in AccountStates /\ c.born \in 0..MaxHeight /\ height \in 0..MaxHeight
  BY DEF TypeOK, StateCells
<1>4. last' \in CommitRecords
  BY <1>2, <1>3 DEF CommitRecords
<1>5. height' \in 0..MaxHeight /\ signed' \subseteq Signatures
  BY DEF TypeOK, Commit
<1> QED BY <1>1, <1>4, <1>5, ApplyTxTypes DEF TypeOK

LEMMA UnguardedTypes ==
  ASSUME TypeOK, NEW tx \in Txs, CommitUnguarded(tx)
  PROVE  TypeOK'
<1>1. CellsResolve(tx) /\ ApplyTx(tx)
  BY DEF CommitUnguarded, ConsensusAccepts
<1>2. /\ height' \in 0..MaxHeight
      /\ signed' \subseteq Signatures
      /\ last' \in CommitRecords \cup {NoTx}
  BY DEF TypeOK, CommitUnguarded
<1> QED BY <1>1, <1>2, ApplyTxTypes DEF TypeOK

\* The actions of Next, one by one.
LEMMA NextCases ==
  ASSUME [Next]_vars
  PROVE  \/ \E k \in Keys, intent \in Intents : Sign(k, intent)
         \/ Tick
         \/ \E operation \in Operations, tx \in Txs : Commit(operation, tx)
         \/ \E tx \in Txs : CommitUnguarded(tx)
         \/ UNCHANGED vars
BY DEF Next, Spend, Rotate, Recover, Operations

\* The variables keep their types, which the theorems below rest on.
LEMMA TypeCorrect == Spec => []TypeOK
<1>1. Init => TypeOK
  <2>1. SUFFICES ASSUME Init PROVE TypeOK
    OBVIOUS
  <2>2. PICK d \in InitialData :
          states = {[out |-> InitialState, lock |-> "account", data |-> d, born |-> 0]}
    BY <2>1 DEF Init
  <2>3. states \subseteq StateCells
    BY <2>2, ChainConstants DEF StateCells, Locks
  <2>4. StateOuts = {InitialState}
    BY <2>2 DEF StateOuts
  <2> QED BY <2>1, <2>3, <2>4, ChainConstants DEF Init, TypeOK
<1>2. TypeOK /\ [Next]_vars => TypeOK'
  <2>1. SUFFICES ASSUME TypeOK, [Next]_vars PROVE TypeOK'
    OBVIOUS
  <2>2. ASSUME NEW k \in Keys, NEW intent \in Intents, Sign(k, intent)
        PROVE  TypeOK'
    <3>1. [key |-> k, intent |-> intent] \in Signatures
      BY ChainConstants DEF Signatures
    <3> QED BY <2>1, <2>2, <3>1 DEF TypeOK, Sign, StateOuts
  <2>3. CASE Tick
    <3>1. height' \in 0..MaxHeight
      BY <2>1, <2>3, ChainConstants DEF TypeOK, Tick
    <3> QED BY <2>1, <2>3, <3>1 DEF TypeOK, Tick, StateOuts
  <2>4. CASE UNCHANGED vars
    BY <2>1, <2>4 DEF TypeOK, vars, StateOuts
  <2> QED BY <2>1, <2>2, <2>3, <2>4, NextCases, CommitTypes, UnguardedTypes
<1> QED BY <1>1, <1>2, PTL DEF Spec

(***************************************************************************)
(* Authorization.                                                          *)
(***************************************************************************)

\* A signature a verifier accepts is on exactly this operation of this account,
\* on this state and by this transaction: the digest separates all of them.
LEMMA DigestBinds ==
  ASSUME NEW sig \in Signatures, NEW operation, NEW data, NEW tx,
         SignedDigest(sig) = authorization_digest(operation, AccountId, data, tx)
  PROVE  sig.intent = [operation |-> operation, account_id |-> AccountId,
                       data |-> data, tx |-> tx]
<1>1. /\ sig.intent.operation = operation
      /\ sig.intent.account_id = AccountId
      /\ sig.intent.data = data
      /\ sig.intent.tx = tx
  BY DEF SignedDigest, authorization_digest, canonical_group_sighash
<1>2. sig.intent \in IntentType
  BY DEF Signatures
<1> QED BY <1>1, <1>2 DEF IntentType

\* In a state that validate_state accepts, a slot names one authenticator.
LEMMA SlotsDistinct ==
  ASSUME NEW data \in AccountStates, validate_state(data),
         NEW i \in DOMAIN data.authenticators, NEW j \in DOMAIN data.authenticators,
         data.authenticators[i].slot = data.authenticators[j].slot
  PROVE  i = j
<1>1. /\ data.authenticators \in Seq(Entries)
      /\ DOMAIN data.authenticators \subseteq Nat
  BY DEF AccountStates
<1>2. data.authenticators[i] \in Entries /\ data.authenticators[j] \in Entries
  BY <1>1
<1>3. \A e \in Entries : e.slot \in Nat
  BY ChainConstants DEF Entries
<1> QED BY <1>1, <1>2, <1>3 DEF validate_state, SlotsStrictlyIncreasing

\* The threshold of an operation that the lock admits is not zero.
LEMMA ThresholdNonZero ==
  ASSUME NEW operation \in Operations, NEW sequence, NEW tx, NEW c,
         StateAdmits(operation, sequence, tx, states, c)
  PROVE  threshold_for_operation(operation, c.data) # 0
<1>1. validate_state(c.data) /\ validate_transition(operation, tx, c.data)
  BY DEF StateAdmits
<1>2. CASE operation = OP_SPEND
  <2>1. c.data.spend_threshold # 0
    BY <1>1 DEF validate_state, SpendAndRotateSatisfiable
  <2> QED BY <1>2, <2>1 DEF threshold_for_operation, OP_SPEND, OP_ROTATE, OP_RECOVERY
<1>3. CASE operation = OP_ROTATE
  <2>1. c.data.rotate_threshold # 0
    BY <1>1 DEF validate_state, SpendAndRotateSatisfiable
  <2> QED BY <1>3, <2>1 DEF threshold_for_operation, OP_SPEND, OP_ROTATE, OP_RECOVERY
<1>4. CASE operation = OP_RECOVERY
  <2>1. c.data.recovery_enabled
    BY <1>1, <1>4 DEF validate_transition, RecoveryUnlocked, OP_SPEND, OP_ROTATE, OP_RECOVERY
  <2>2. c.data.recovery_threshold # 0
    BY <1>1, <2>1 DEF validate_state, RecoveryConsistent
  <2> QED BY <1>4, <2>2 DEF threshold_for_operation, OP_SPEND, OP_ROTATE, OP_RECOVERY
<1> QED BY <1>2, <1>3, <1>4 DEF Operations

\* What the lock accepts is authorized: the authenticators it verified hold the
\* capability, signed what is committed, and carry enough weight.
LEMMA CommitIsAuthorized ==
  ASSUME TypeOK, NEW operation \in Operations, NEW tx \in Txs, Commit(operation, tx)
  PROVE  CommitAuthorized' /\ last' # NoTx /\ last'.tx = tx
<1>1. PICK c \in states, sequence \in 0..U64_MAX :
        /\ StateAdmits(operation, sequence, tx, states, c)
        /\ \E P \in SUBSET Slots : \E proofs \in [P -> signed] :
              ProofsSuffice(operation, tx, proofs, c.data, signed)
        /\ last' = [operation |-> operation, tx |-> tx, data |-> c.data,
                    born |-> c.born, height |-> height]
  BY DEF Commit
<1>2. PICK P \in SUBSET Slots : \E proofs \in [P -> signed] :
        ProofsSuffice(operation, tx, proofs, c.data, signed)
  BY <1>1
<1>3. PICK proofs \in [P -> signed] : ProofsSuffice(operation, tx, proofs, c.data, signed)
  BY <1>2
<1> DEFINE auths == c.data.authenticators
           I == VerifiedAuthenticators(operation, tx, proofs, c.data, signed)
<1>4. signed' = signed
  BY DEF Commit
<1>5. c.data \in AccountStates /\ validate_state(c.data)
  BY <1>1 DEF TypeOK, StateCells, StateAdmits
<1>6. I \subseteq DOMAIN auths
  BY DEF VerifiedAuthenticators
<1>7. ASSUME NEW i \in I
      PROVE  capability_for_operation(operation) \in auths[i].capabilities
  <2>1. i \in DOMAIN auths /\ auths[i].slot \in DOMAIN proofs
    BY <1>7 DEF VerifiedAuthenticators
  <2>2. PICK j \in DOMAIN auths :
          /\ auths[j].slot = auths[i].slot
          /\ capability_for_operation(operation) \in auths[j].capabilities
    BY <1>3, <2>1 DEF ProofsSuffice, ProofsAdmissible
  <2>3. i = j
    BY <1>5, <2>1, <2>2, SlotsDistinct
  <2> QED BY <2>2, <2>3
<1>8. ASSUME NEW i \in I
      PROVE  [key |-> auths[i].key_id,
              intent |-> [operation |-> operation, account_id |-> AccountId,
                          data |-> c.data, tx |-> tx]] \in signed
  <2> DEFINE sig == proofs[auths[i].slot]
  <2>1. /\ sig \in signed
        /\ sig.key = auths[i].key_id
        /\ SignedDigest(sig) = authorization_digest(operation, AccountId, c.data, tx)
    BY <1>8 DEF VerifiedAuthenticators, VerifierAccepts
  <2>2. sig \in Signatures
    BY <2>1 DEF TypeOK
  <2> HIDE DEF sig
  <2>3. sig.intent = [operation |-> operation, account_id |-> AccountId,
                      data |-> c.data, tx |-> tx]
    BY <2>1, <2>2, DigestBinds
  <2>4. sig = [key |-> sig.key, intent |-> sig.intent]
    BY <2>2 DEF Signatures
  <2> QED BY <2>1, <2>3, <2>4
<1>9. WeightOf(auths, I) >= threshold_for_operation(operation, c.data)
  BY <1>3 DEF ProofsSuffice, ThresholdReached
<1>10. threshold_for_operation(operation, c.data) # 0
  BY <1>1, ThresholdNonZero
<1> HIDE DEF I
<1>11. /\ last'.operation = operation
       /\ last'.data = c.data
       /\ last'.tx = tx
  BY <1>1
<1>12. CommitAuthorized'
  <2>1. /\ I \in SUBSET DOMAIN last'.data.authenticators
        /\ \A i \in I :
             /\ capability_for_operation(last'.operation)
                  \in last'.data.authenticators[i].capabilities
             /\ SignatureFor(last'.data.authenticators[i].key_id, last') \in signed'
        /\ WeightOf(last'.data.authenticators, I)
             >= threshold_for_operation(last'.operation, last'.data)
        /\ threshold_for_operation(last'.operation, last'.data) # 0
    BY <1>4, <1>6, <1>7, <1>8, <1>9, <1>10, <1>11 DEF SignatureFor
  <2> QED BY <2>1 DEF CommitAuthorized
<1>13. last' # NoTx
  BY <1>11 DEF NoTx, Operations, OP_SPEND, OP_ROTATE, OP_RECOVERY
<1> QED BY <1>11, <1>12, <1>13

\* No step but a commit touches the last commit, and signatures only accumulate.
LEMMA LastKept ==
  ASSUME [Next]_vars
  PROVE  \/ \E operation \in Operations, tx \in Txs : Commit(operation, tx)
         \/ last' = last /\ signed \subseteq signed'
<1>1. ASSUME NEW k \in Keys, NEW intent \in Intents, Sign(k, intent)
      PROVE  last' = last /\ signed \subseteq signed'
  BY <1>1 DEF Sign
<1>2. ASSUME NEW tx \in Txs, CommitUnguarded(tx)
      PROVE  last' = last /\ signed \subseteq signed'
  BY <1>2 DEF CommitUnguarded
<1> QED BY <1>1, <1>2, NextCases DEF Tick, vars

\* Every committed transaction is authorized, in every reachable state.
THEOREM AllCommitsAuthorized == Spec => []CommitAuthorized
<1>1. Init => CommitAuthorized
  BY DEF Init, CommitAuthorized
<1>2. TypeOK /\ CommitAuthorized /\ [Next]_vars => CommitAuthorized'
  <2>1. SUFFICES ASSUME TypeOK, CommitAuthorized, [Next]_vars PROVE CommitAuthorized'
    OBVIOUS
  <2>2. CASE \E operation \in Operations, tx \in Txs : Commit(operation, tx)
    BY <2>1, <2>2, CommitIsAuthorized
  <2>3. CASE last' = last /\ signed \subseteq signed'
    BY <2>1, <2>3 DEF CommitAuthorized, SignatureFor
  <2> QED BY <2>1, <2>2, <2>3, LastKept
<1> QED BY <1>1, <1>2, TypeCorrect, PTL DEF Spec

\* A live cell that a transaction does not consume stays live.
LEMMA Unconsumed ==
  ASSUME NEW tx, ApplyTx(tx), NEW o \in GuardedCells, o \notin tx.inputs
  PROVE  o \in GuardedCells'
BY DEF ApplyTx, GuardedCells

\* A cell under the account's lock is consumed only by a transaction that enough
\* of the current authenticators signed as it stands: nothing else removes it,
\* and no signature made for another operation, account, state or transaction
\* counts towards it.
THEOREM GuardedCellsAreSafe == Spec => GuardedCellsSafe
<1> DEFINE Safe == \A c \in GuardedCells \ GuardedCells' :
                     (last # NoTx /\ c \in last.tx.inputs /\ CommitAuthorized)'
<1>1. TypeOK /\ [Next]_vars => [Safe]_vars
  <2>1. SUFFICES ASSUME TypeOK, [Next]_vars, NEW c \in GuardedCells \ GuardedCells'
                 PROVE  (last # NoTx /\ c \in last.tx.inputs /\ CommitAuthorized)'
    OBVIOUS
  <2>2. ASSUME NEW operation \in Operations, NEW tx \in Txs, Commit(operation, tx)
        PROVE  (last # NoTx /\ c \in last.tx.inputs /\ CommitAuthorized)'
    <3>1. c \in tx.inputs
      BY <2>1, <2>2, Unconsumed DEF Commit
    <3> QED BY <2>1, <2>2, <3>1, CommitIsAuthorized
  <2>3. ASSUME NEW tx \in Txs, CommitUnguarded(tx)
        PROVE  FALSE
    <3>1. c \in tx.inputs
      BY <2>1, <2>3, Unconsumed DEF CommitUnguarded
    <3> QED BY <2>1, <2>3, <3>1 DEF CommitUnguarded, LockRuns
  <2>4. ASSUME states' = states, assets' = assets
        PROVE  FALSE
    BY <2>1, <2>4 DEF GuardedCells
  <2> QED BY <2>1, <2>2, <2>3, <2>4, NextCases DEF Sign, Tick, vars
<1> HIDE DEF Safe
<1>2. Spec => [][Safe]_vars
  BY <1>1, TypeCorrect, PTL DEF Spec
<1> QED BY <1>2, PTL DEF GuardedCellsSafe, Safe

(***************************************************************************)
(* The state cell.                                                         *)
(***************************************************************************)

\* The account has at most one live state cell.
AtMostOneState == \A c, d \in states : c = d

\* The Type ID rule keeps it so.
LEMMA ApplyTxOneState ==
  ASSUME AtMostOneState, NEW tx, TypeIdAccepts(tx), ApplyTx(tx)
  PROVE  AtMostOneState'
<1>1. CASE tx.state_outputs = {}
  BY <1>1 DEF ApplyTx, AtMostOneState
<1>2. CASE /\ MatchingInputs(tx, states) # {}
           /\ \E s \in tx.state_outputs : tx.state_outputs = {s}
  <2>1. \A c \in states : c.out \in tx.inputs
    BY <1>2 DEF MatchingInputs, AtMostOneState
  <2>2. PICK s \in tx.state_outputs : tx.state_outputs = {s}
    BY <1>2
  <2>3. states' = {[out |-> s.out, lock |-> s.lock, data |-> s.data, born |-> height]}
    BY <2>1, <2>2 DEF ApplyTx
  <2> QED BY <2>3 DEF AtMostOneState
<1> QED BY <1>1, <1>2 DEF TypeIdAccepts

\* At every time at most one live cell carries the account's Type ID.
THEOREM OneStateCell == Spec => []AtMostOneState
<1>1. Init => AtMostOneState
  BY DEF Init, AtMostOneState
<1>2. AtMostOneState /\ [Next]_vars => AtMostOneState'
  <2>1. SUFFICES ASSUME AtMostOneState, [Next]_vars PROVE AtMostOneState'
    OBVIOUS
  <2>2. ASSUME NEW tx, TypeIdAccepts(tx), ApplyTx(tx)
        PROVE  AtMostOneState'
    BY <2>1, <2>2, ApplyTxOneState
  <2>3. ASSUME states' = states
        PROVE  AtMostOneState'
    BY <2>1, <2>3 DEF AtMostOneState
  <2> QED BY <2>1, <2>2, <2>3, NextCases
          DEF Sign, Tick, Commit, CommitUnguarded, ConsensusAccepts, vars
<1> QED BY <1>1, <1>2, PTL DEF Spec

\* A step that removes a state cell under the account's lock is a transition of
\* that very state, and the one state cell after it holds a valid successor.
LEMMA Succession ==
  ASSUME AtMostOneState, [Next]_vars,
         NEW c \in states \ states', c.lock = "account"
  PROVE  \E operation \in {OP_ROTATE, OP_RECOVERY}, n \in states' :
           /\ states' = {n}
           /\ validate_state(n.data)
           /\ n.data.sequence = c.data.sequence + 1
           /\ last'.operation = operation
           /\ last'.data = c.data
<1>1. ASSUME NEW tx \in Txs, ApplyTx(tx)
      PROVE  c \in MatchingInputs(tx, states) /\ LockRuns(tx)
  BY <1>1 DEF ApplyTx, MatchingInputs, LockRuns, GuardedCells
<1>2. PICK operation \in Operations, tx \in Txs : Commit(operation, tx)
  BY <1>1, NextCases DEF CommitUnguarded, Sign, Tick, vars
<1>3. PICK cell \in states, sequence \in 0..U64_MAX :
        /\ StateAdmits(operation, sequence, tx, states, cell)
        /\ last' = [operation |-> operation, tx |-> tx, data |-> cell.data,
                    born |-> cell.born, height |-> height]
  BY <1>2 DEF Commit
<1>4. c \in MatchingInputs(tx, states)
  BY <1>1, <1>2 DEF Commit
<1>5. operation \in {OP_ROTATE, OP_RECOVERY} /\ ResolvesTransition(tx, states, cell)
  BY <1>3, <1>4 DEF StateAdmits, resolve_state, ResolvesSpend
<1>6. cell = c /\ states = {c}
  BY <1>4, <1>5 DEF ResolvesTransition, AtMostOneState
<1>7. PICK s \in tx.state_outputs : tx.state_outputs = {s}
  BY <1>5 DEF ResolvesTransition
<1> DEFINE n == [out |-> s.out, lock |-> s.lock, data |-> s.data, born |-> height]
<1>8. states' = {n}
  BY <1>2, <1>4, <1>6, <1>7 DEF Commit, ApplyTx, MatchingInputs
<1>9. SuccessorFollows(c.data, s.data)
  BY <1>3, <1>5, <1>6, <1>7 DEF StateAdmits, validate_transition, OP_SPEND, OP_ROTATE,
     OP_RECOVERY
<1>10. validate_state(n.data) /\ n.data.sequence = c.data.sequence + 1
  BY <1>9 DEF SuccessorFollows
<1> QED BY <1>3, <1>5, <1>6, <1>8, <1>10

\* The state cell under the account's lock is never deleted, duplicated or spent
\* by a SPEND, and its sequence number goes up by one with every transition.
THEOREM StateCellEvolves == Spec => StateEvolves
<1> DEFINE Evolves == \A c \in states \ states' :
                        c.lock = "account" =>
                          /\ \E n \in states' :
                               /\ states' = {n}
                               /\ n.data.sequence = c.data.sequence + 1
                          /\ last'.operation \in {OP_ROTATE, OP_RECOVERY}
                          /\ last'.data = c.data
<1>1. AtMostOneState /\ [Next]_vars => [Evolves]_vars
  BY Succession
<1> HIDE DEF Evolves
<1>2. Spec => [][Evolves]_vars
  BY <1>1, OneStateCell, PTL DEF Spec
<1> QED BY <1>2, PTL DEF StateEvolves, Evolves

\* The thresholds that validate_state has compared with the summed weights.
LEMMA ThresholdsWithin ==
  ASSUME NEW data, validate_state(data), NEW operation \in OpenOperations(data)
  PROVE  /\ threshold_for_operation(operation, data) # 0
         /\ threshold_for_operation(operation, data)
              <= WeightOf(data.authenticators, Holders(operation, data))
<1> DEFINE W(capability) == CapabilityWeight(data.authenticators, capability)
<1>1. /\ data.spend_threshold # 0 /\ data.spend_threshold <= W(CAP_SPEND)
      /\ data.rotate_threshold # 0 /\ data.rotate_threshold <= W(CAP_ROTATE)
      /\ data.recovery_enabled =>
           data.recovery_threshold # 0 /\ data.recovery_threshold <= W(CAP_RECOVERY)
  BY DEF validate_state, SpendAndRotateSatisfiable, RecoveryConsistent
<1>2. operation \in Operations /\ (operation = OP_RECOVERY => data.recovery_enabled)
  BY DEF OpenOperations, Operations, OP_SPEND, OP_ROTATE, OP_RECOVERY
<1>3. W(capability_for_operation(operation))
        = WeightOf(data.authenticators, Holders(operation, data))
  BY DEF Holders, CapabilityWeight
<1> HIDE DEF W
<1>4. CASE operation = OP_SPEND
  BY <1>1, <1>3, <1>4 DEF threshold_for_operation, capability_for_operation,
     OP_SPEND, OP_ROTATE, OP_RECOVERY
<1>5. CASE operation = OP_ROTATE
  BY <1>1, <1>3, <1>5 DEF threshold_for_operation, capability_for_operation,
     OP_SPEND, OP_ROTATE, OP_RECOVERY
<1>6. CASE operation = OP_RECOVERY
  BY <1>1, <1>2, <1>3, <1>6 DEF threshold_for_operation, capability_for_operation,
     OP_SPEND, OP_ROTATE, OP_RECOVERY
<1> QED BY <1>2, <1>4, <1>5, <1>6 DEF Operations

\* Slots being distinct, the proof offered for a holder's slot is that holder's.
LEMMA ProofOfHolder ==
  ASSUME NEW data \in AccountStates, validate_state(data), NEW operation, NEW tx,
         NEW i \in Holders(operation, data)
  PROVE  /\ data.authenticators[i].slot \in DOMAIN AllProofs(operation, tx, data)
         /\ AllProofs(operation, tx, data)[data.authenticators[i].slot]
              = AllSign(operation, tx, data)[i]
<1> DEFINE H == Holders(operation, data)
           slot == data.authenticators[i].slot
           k == CHOOSE j \in H : data.authenticators[j].slot = slot
<1>1. H \subseteq DOMAIN data.authenticators
  BY DEF Holders, WithCapability
<1>2. k \in H /\ data.authenticators[k].slot = slot
  OBVIOUS
<1>3. k = i
  <2> HIDE DEF k
  <2> QED BY <1>1, <1>2, SlotsDistinct
<1>4. slot \in {data.authenticators[j].slot : j \in H}
  OBVIOUS
<1> QED BY <1>3, <1>4 DEF AllProofs

\* What validate_state accepts can be met: if the requests of all holders can be
\* encoded and their verifiers are there, run() accepts their proofs.
LEMMA ValidIsSatisfiable ==
  ASSUME NEW data \in AccountStates, validate_state(data)
  PROVE  Satisfiable(data)
<1> DEFINE auths == data.authenticators
<1>1. SUFFICES ASSUME NEW operation \in OpenOperations(data),
                      \A i \in Holders(operation, data) : auths[i].aux # "oversized",
                      NEW tx \in Txs,
                      \A i \in Holders(operation, data) : resolve_verifier(auths[i], tx)
               PROVE  MetByAll(operation, tx, data)
  BY ThresholdsWithin DEF Satisfiable
<1> DEFINE H == Holders(operation, data)
           proofs == AllProofs(operation, tx, data)
           sigs == {AllSign(operation, tx, data)[i] : i \in H}
<1>2. H \subseteq DOMAIN auths
  BY DEF Holders, WithCapability
<1>3. \A i \in H : encode_request(auths[i])
  <2>1. SUFFICES ASSUME NEW i \in H PROVE encode_request(auths[i])
    OBVIOUS
  <2>2. auths[i].key_id_sized /\ auths[i].aux # "empty"
    BY <1>2 DEF validate_state, EntrySupported
  <2>3. auths[i] \in Entries
    BY <1>2 DEF AccountStates
  <2>4. auths[i].aux \in AuxSizes
    BY <2>3 DEF Entries
  <2> QED BY <1>1, <2>2, <2>4 DEF encode_request, AuxSizes
<1>4. ProofsAdmissible(operation, tx, proofs, data)
  <2>1. SUFFICES ASSUME NEW slot \in DOMAIN proofs
                 PROVE  \E i \in DOMAIN auths :
                          /\ auths[i].slot = slot
                          /\ capability_for_operation(operation) \in auths[i].capabilities
                          /\ resolve_verifier(auths[i], tx)
                          /\ encode_request(auths[i])
    BY DEF ProofsAdmissible
  <2>2. PICK i \in H : auths[i].slot = slot
    BY DEF AllProofs
  <2>3. capability_for_operation(operation) \in auths[i].capabilities
    BY DEF Holders, WithCapability
  <2> QED BY <1>1, <1>2, <1>3, <2>2, <2>3
<1> DEFINE V == VerifiedAuthenticators(operation, tx, proofs, data, sigs)
<1>5. \A i \in H : i \in V
  <2>1. SUFFICES ASSUME NEW i \in H PROVE i \in V
    OBVIOUS
  <2> DEFINE sig == AllSign(operation, tx, data)[i]
  <2>2. /\ auths[i].slot \in DOMAIN proofs
        /\ proofs[auths[i].slot] = sig
    BY ProofOfHolder
  <2>3. /\ sig.key = auths[i].key_id
        /\ sig.intent = [operation |-> operation, account_id |-> AccountId,
                         data |-> data, tx |-> tx]
    BY DEF AllSign, SignatureFor
  <2>4. SignedDigest(sig) = authorization_digest(operation, AccountId, data, tx)
    BY <2>3 DEF SignedDigest
  <2>5. VerifierAccepts(auths[i], sig, authorization_digest(operation, AccountId, data, tx), sigs)
    BY <2>3, <2>4 DEF VerifierAccepts
  <2> QED BY <1>2, <2>2, <2>5 DEF VerifiedAuthenticators
<1>6. \A i \in V : i \in H
  <2>1. SUFFICES ASSUME NEW i \in V PROVE i \in H
    OBVIOUS
  <2>2. i \in DOMAIN auths /\ auths[i].slot \in DOMAIN proofs
    BY DEF VerifiedAuthenticators
  <2>3. PICK j \in H : auths[j].slot = auths[i].slot
    BY <2>2 DEF AllProofs
  <2> QED BY <1>2, <2>2, <2>3, SlotsDistinct
<1>7. V = H
  <2> HIDE DEF V, H
  <2> QED BY <1>5, <1>6
<1>8. ThresholdReached(operation, tx, proofs, data, sigs)
  <2>1. threshold_for_operation(operation, data) <= WeightOf(auths, H)
    BY <1>1, ThresholdsWithin
  <2>2. WeightOf(auths, V) >= threshold_for_operation(operation, data)
    <3> HIDE DEF V, H
    <3> QED BY <1>7, <2>1
  <2> QED BY <2>2 DEF ThresholdReached
<1> QED BY <1>4, <1>8 DEF MetByAll, ProofsSuffice

\* A transition never installs a policy that its authenticators cannot meet, if
\* their aux fits into a verifier request.
THEOREM PolicyStaysSatisfiable == Spec => PolicySatisfiable
<1> DEFINE Kept == \A c \in states \ states' :
                     c.lock = "account" => \A n \in states' : Satisfiable(n.data)
<1>1. TypeOK' /\ AtMostOneState /\ [Next]_vars => [Kept]_vars
  <2>1. SUFFICES ASSUME TypeOK', AtMostOneState, [Next]_vars,
                        NEW c \in states \ states', c.lock = "account", NEW n \in states'
                 PROVE  Satisfiable(n.data)
    OBVIOUS
  <2>2. validate_state(n.data)
    BY <2>1, Succession
  <2>3. n.data \in AccountStates
    BY <2>1 DEF TypeOK, StateCells
  <2> QED BY <2>2, <2>3, ValidIsSatisfiable
<1> HIDE DEF Kept
<1>2. Spec => [][Kept]_vars
  BY <1>1, TypeCorrect, OneStateCell, PTL DEF Spec
<1> QED BY <1>2, PTL DEF PolicySatisfiable, Kept

(***************************************************************************)
(* Recovery.                                                               *)
(***************************************************************************)

\* The order of raw since values: a smaller kind never has the larger number, and
\* within a kind the values decide.
LEMMA RawSinceOrder ==
  ASSUME NEW a \in Sinces, NEW b \in Sinces, RawSince(a) >= RawSince(b)
  PROVE  \/ SinceKind(a) > SinceKind(b)
         \/ a.relative = b.relative /\ a.metric = b.metric /\ a.value >= b.value
<1>1. PICK M : M = SINCE_METRIC
  OBVIOUS
<1>2. M \in Nat /\ a.value \in 0..(M - 1) /\ b.value \in 0..(M - 1)
  BY <1>1, SinceBound DEF Sinces
<1>3. SinceKind(a) \in {0, 1, 2, 4, 5, 6} /\ SinceKind(b) \in {0, 1, 2, 4, 5, 6}
  BY DEF SinceKind, Sinces, SinceMetrics
<1>4. PICK j, k : j = SinceKind(a) /\ k = SinceKind(b)
  OBVIOUS
<1>5. j * M + a.value >= k * M + b.value
  BY <1>1, <1>4 DEF RawSince
<1>6. ASSUME j < k PROVE FALSE
  <2>1. j * M + M <= k * M
    BY <1>2, <1>3, <1>4, <1>6
  <2>2. PICK x, y : x = j * M /\ y = k * M
    OBVIOUS
  <2>3. x \in Nat /\ y \in Nat
    BY <1>2, <1>3, <1>4, <2>2
  <2> QED BY <1>2, <1>5, <2>1, <2>2, <2>3
<1>7. j = k => a.relative = b.relative /\ a.metric = b.metric
  BY <1>4 DEF SinceKind, Sinces, SinceMetrics
<1>8. j = k => a.value >= b.value
  <2>1. PICK x : x = j * M
    OBVIOUS
  <2>2. x \in Nat
    BY <1>2, <1>3, <1>4, <2>1
  <2> QED BY <1>2, <1>5, <2>1, <2>2
<1>9. j > k \/ j = k
  BY <1>3, <1>4, <1>6
<1> QED BY <1>4, <1>7, <1>8, <1>9

\* In blocks and in median time, a since that asks for no more matures no later.
LEMMA MaturedOrder ==
  ASSUME NEW a \in Sinces, NEW b \in Sinces,
         a.relative = b.relative, a.metric = b.metric, a.value >= b.value,
         a.metric # "epoch", NEW born \in 0..MaxHeight, NEW h \in 0..MaxHeight,
         Matured(a, born, h)
  PROVE  Matured(b, born, h)
<1>1. a.value \in Nat /\ b.value \in Nat /\ a.metric \in SinceMetrics
  BY SinceBound DEF Sinces
<1>2. SinceSpan(a) = a.value /\ SinceSpan(b) = b.value
  BY DEF SinceSpan
<1>3. /\ ChainClock(a.metric, born) \in Nat /\ ChainClock(a.metric, h) \in Nat
  <2>1. CASE a.metric = "block"
    BY <2>1, ChainConstants DEF ChainClock
  <2>2. CASE a.metric = "timestamp"
    BY <2>2, ChainConstants DEF ChainClock
  <2> QED BY <1>1, <2>1, <2>2 DEF SinceMetrics
<1>4. PICK x, y : x = ChainClock(a.metric, born) /\ y = ChainClock(a.metric, h)
  OBVIOUS
<1>5. (IF b.relative THEN x ELSE 0) + a.value <= y
  BY <1>2, <1>4 DEF Matured
<1>6. (IF b.relative THEN x ELSE 0) + b.value <= y
  BY <1>1, <1>3, <1>4, <1>5
<1> QED BY <1>2, <1>4, <1>6 DEF Matured

\* A recovery is never committed before the since of the policy it recovers has
\* matured, unless its own since is of a higher kind or that one is in epochs.
THEOREM RecoveryIsDelayed == Spec => []RecoveryDelayed
<1>1. Init => RecoveryDelayed
  BY DEF Init, RecoveryDelayed, NoTx, OP_RECOVERY
<1>2. TypeOK /\ RecoveryDelayed /\ [Next]_vars => RecoveryDelayed'
  <2>1. SUFFICES ASSUME TypeOK, RecoveryDelayed, [Next]_vars PROVE RecoveryDelayed'
    OBVIOUS
  <2>2. ASSUME NEW operation \in Operations, NEW tx \in Txs, Commit(operation, tx)
        PROVE  RecoveryDelayed'
    <3>1. PICK cell \in states, sequence \in 0..U64_MAX :
            /\ StateAdmits(operation, sequence, tx, states, cell)
            /\ last' = [operation |-> operation, tx |-> tx, data |-> cell.data,
                        born |-> cell.born, height |-> height]
      BY <2>2 DEF Commit
    <3>2. /\ last'.operation = operation /\ last'.tx = tx /\ last'.data = cell.data
          /\ last'.born = cell.born /\ last'.height = height
      BY <3>1
    <3>3. SUFFICES ASSUME operation = OP_RECOVERY
                   PROVE  /\ cell.data.recovery_enabled
                          /\ \A due \in Sinces :
                               RawSince(due) = cell.data.recovery_since =>
                                 \/ Matured(due, cell.born, height)
                                 \/ SinceKind(tx.since) > SinceKind(due)
                                 \/ due.metric = "epoch"
      BY <3>2 DEF RecoveryDelayed
    <3>4. cell.data.recovery_enabled /\ RawSince(tx.since) >= cell.data.recovery_since
      BY <3>1, <3>3 DEF StateAdmits, validate_transition, RecoveryUnlocked,
         OP_SPEND, OP_ROTATE, OP_RECOVERY
    <3>5. cell \in MatchingInputs(tx, states)
      BY <3>1, <3>3 DEF StateAdmits, resolve_state, ResolvesTransition, OP_SPEND, OP_RECOVERY
    <3>6. Matured(tx.since, cell.born, height)
      BY <2>2, <3>5 DEF Commit, ConsensusAccepts, SinceMature
    <3>7. tx.since \in Sinces /\ cell.born \in 0..MaxHeight /\ height \in 0..MaxHeight
      BY <2>1, ChainConstants DEF Transactions, TypeOK, StateCells
    <3>8. ASSUME NEW due \in Sinces, RawSince(due) = cell.data.recovery_since,
                 ~(SinceKind(tx.since) > SinceKind(due)), due.metric # "epoch"
          PROVE  Matured(due, cell.born, height)
      <4>1. /\ tx.since.relative = due.relative /\ tx.since.metric = due.metric
            /\ tx.since.value >= due.value
        BY <3>4, <3>7, <3>8, RawSinceOrder
      <4> QED BY <3>6, <3>7, <3>8, <4>1, MaturedOrder
    <3> QED BY <3>4, <3>8
  <2>3. CASE last' = last
    BY <2>1, <2>3 DEF RecoveryDelayed
  <2> QED BY <2>1, <2>2, <2>3, LastKept
<1> QED BY <1>1, <1>2, TypeCorrect, PTL DEF Spec
=============================================================================
