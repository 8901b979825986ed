---------------------------- MODULE PasskeySpend ----------------------------
(***************************************************************************)
(* The passkey spend of the demo client, from discovering the account's    *)
(* cells to the transaction it submits, against what the account's first   *)
(* configuration allows, AccountLock accepts and verifier-p256 checks.     *)
(* The client finds the cells with three reads (the state cell, the        *)
(* indexer's scan, which may lag behind the chain, and the asset cell),    *)
(* builds the transaction with a placeholder witness of maximal size,      *)
(* signs its digest and swaps the placeholder for the real witness.        *)
(* Meanwhile the account's owner rotates it, spends from another tab, or   *)
(* somebody sends cells to its lock.  Sizes are in bytes, capacities in    *)
(* shannons.  Chain, indexer and authenticator are external.               *)
(***************************************************************************)
EXTENDS AccountLock, AccountConfig, Integers

CONSTANTS
  SHANNONS_PER_CKB,   \* 10^8 in the code
  RawTxBytes,         \* serialized size of the spend without its witness
  FunderArgsBytes,    \* size of the args of the funder's lock
  Configs,            \* configurations given to the bootstrap command
  AssetCkb,           \* asset capacities asked for at creation, in CKB
  Keys,               \* key ids of passkeys
  Verifiers,          \* verifier code hashes
  DeployedVerifier,   \* the one in the deployment manifest
  AuthenticatorDataSizes, ClientDataSizes, SignatureSizes,  \* of assertions
  MaxOut              \* bound: outpoints of the account's cells, 0..MaxOut

ASSUME SpendConstants ==
  /\ SHANNONS_PER_CKB \in Nat \ {0} /\ RawTxBytes \in Nat /\ FunderArgsBytes \in Nat
  /\ AssetCkb \subseteq Nat
  /\ AuthenticatorDataSizes \subseteq Nat /\ ClientDataSizes \subseteq Nat
  /\ SignatureSizes \subseteq Nat
  /\ DeployedVerifier \in Verifiers /\ MaxOut \in Nat

\* Authenticators are a list; an aux field with a binding has the 65 bytes of one,
\* which fit a request.
ASSUME ConfigsTyped ==
  \A config \in Configs :
    /\ DOMAIN config.authenticators = 1..Len(config.authenticators)
    /\ \A i \in DOMAIN config.authenticators :
         config.authenticators[i].binding # "none" => config.authenticators[i].aux = "fits"

VARIABLES
  live,    \* the account's live cells: [out, kind, capacity, data]
  index,   \* those cells as the indexer knows them
  page,    \* where the spend is
  signed   \* the signatures that exist

vars == <<live, index, page, signed>>

(***************************************************************************)
(* Capacities and sizes.                                                   *)
(***************************************************************************)
TRANSFER_CAPACITY == 100 * SHANNONS_PER_CKB
FEE_RATE == 1000
MAX_AUTHENTICATOR_DATA_BYTES == 1024
MAX_CLIENT_DATA_BYTES == 2048
MAX_DER_SIGNATURE_BYTES == 72
MIN_AUTHENTICATOR_DATA_BYTES == 37

cellCapacityShannons(lockArgs, data) == (8 + 33 + lockArgs + data) * SHANNONS_PER_CKB
AccountCellCapacity == cellCapacityShannons(33, 0)
FunderCellCapacity == cellCapacityShannons(FunderArgsBytes, 0)

encodeP256Proof(authenticatorData, clientData, signature) ==
  65 + 1 + 21 + 2 + authenticatorData + 2 + clientData + 2 + signature

encodeAccountWitness(proof) == 16 + 8 + proof
packAccountWitness(witness) == 20 + witness

WitnessBytes(authenticatorData, clientData, signature) ==
  packAccountWitness(encodeAccountWitness(
    encodeP256Proof(authenticatorData, clientData, signature)))

\* Mutant: the placeholder leaves out the client data.
maximumWitness_no_client_data ==
  WitnessBytes(MAX_AUTHENTICATOR_DATA_BYTES, 0, MAX_DER_SIGNATURE_BYTES)

maximumWitness ==
  WitnessBytes(MAX_AUTHENTICATOR_DATA_BYTES, MAX_CLIENT_DATA_BYTES, MAX_DER_SIGNATURE_BYTES)

\* The fee for a transaction with so many bytes of witness, rounded up.
estimateFee(witness) == ((RawTxBytes + witness) * FEE_RATE + 999) \div 1000

(***************************************************************************)
(* Creation, by the server or by the bootstrap command.  The smallest      *)
(* asset is an empty AccountLock cell.                                     *)
(***************************************************************************)
INITIAL_ASSET == 200   \* in CKB
DemoSite == "demo"     \* the binding to RP_ID and CLIENT_ORIGIN

\* The one profile of the demo.
DemoProfile(key, verifier_hash_type) ==
  [flags_known |-> TRUE, sized |-> TRUE, recovery_enabled |-> TRUE, sequence |-> 0,
   spend_threshold |-> 1, rotate_threshold |-> 1, recovery_threshold |-> 1,
   recovery_since |-> 0,
   authenticators |->
     <<[slot |-> 0, algorithm_id |-> "P256_WEBAUTHN",
        capabilities |-> {CAP_SPEND, CAP_ROTATE, CAP_RECOVERY}, weight |-> 1,
        verifier_hash_type |-> verifier_hash_type, verifier_abi |-> VERIFIER_ABI_V1,
        verifier_code_hash |-> DeployedVerifier, key_id |-> key,
        key_id_sized |-> TRUE, aux |-> "fits", binding |-> DemoSite]>>]

\* Mutant: the verifier is referred to by type.
accountConfiguration_by_type(key) == DemoProfile(key, 1)

\* The configuration the server writes for a passkey: the verifier by data hash.
accountConfiguration(key) == DemoProfile(key, 0)

validateOptions(ckb) == ckb > 0 /\ ckb * SHANNONS_PER_CKB >= AccountCellCapacity

Cell(out, kind, capacity, data) ==
  [out |-> out, kind |-> kind, capacity |-> capacity, data |-> data]
NoData == [framed |-> FALSE]
StateOut == 0
AssetOut == 1

\* (The capacity of the state cell plays no part in a spend.)
AccountCells(config, ckb) ==
  {Cell(StateOut, "state", AccountCellCapacity, AccountState(config)),
   Cell(AssetOut, "asset", ckb * SHANNONS_PER_CKB, NoData)}

Creations ==
  [config : {accountConfiguration(key) : key \in Keys}, ckb : {INITIAL_ASSET}]
  \cup [config : Configs, ckb : AssetCkb]

Init ==
  /\ \E created \in Creations :
        /\ encode(created.config) /\ validateOptions(created.ckb)
        /\ live = AccountCells(created.config, created.ckb)
  /\ index = live
  /\ page = [step |-> "start"]
  /\ signed = {}

(***************************************************************************)
(* discoverAccountCells.                                                   *)
(***************************************************************************)
\* The client accepts that profile only.
parseAccountState(data) ==
  /\ data.framed /\ data.recovery_enabled /\ data.recovery_since = 0
  /\ data.spend_threshold = 1 /\ data.rotate_threshold = 1 /\ data.recovery_threshold = 1
  /\ Len(data.authenticators) = 1
  /\ LET entry == data.authenticators[1]
     IN /\ entry.slot = 0 /\ entry.algorithm_id = "P256_WEBAUTHN" /\ entry.weight = 1
        /\ entry.capabilities = {CAP_SPEND, CAP_ROTATE, CAP_RECOVERY}
        /\ entry.verifier_hash_type = 0 /\ entry.verifier_abi = VERIFIER_ABI_V1
        /\ entry.verifier_code_hash = DeployedVerifier
        /\ entry.key_id_sized /\ entry.binding = DemoSite

Blocked(why) == page' = [step |-> "blocked", why |-> why]

\* The state cell is live at its recorded outpoint and has that profile.
ReadState ==
  /\ page.step = "start"
  /\ LET found == {c \in live : c.out = StateOut /\ parseAccountState(c.data)}
     IN IF found = {} THEN Blocked("state")
        ELSE page' = [step |-> "scan", state |-> CHOOSE c \in found : TRUE]
  /\ UNCHANGED <<live, index, signed>>

\* Besides the state cell the indexer knows of one cell, the recorded asset.
ScanAssets ==
  /\ page.step = "scan"
  /\ LET others == {c \in index : c.out # StateOut}
     IN IF /\ Cardinality(others) = 1
           /\ \A c \in others : c.kind = "asset" /\ c.out = AssetOut
          THEN page' = [step |-> "asset", state |-> page.state,
                        asset |-> CHOOSE c \in others : TRUE]
          ELSE Blocked("cells")
  /\ UNCHANGED <<live, index, signed>>

(***************************************************************************)
(* prepareSpend, once the asset cell has been read.                        *)
(***************************************************************************)
\* Mutant: the fee is not taken off.
Change_free(capacity) == capacity - TRANSFER_CAPACITY

Change(capacity) == capacity - TRANSFER_CAPACITY - estimateFee(maximumWitness)

\* Both outputs meet their occupied capacity and the asset covers them.
CapacitySuffices(capacity) ==
  /\ capacity > TRANSFER_CAPACITY
  /\ capacity > TRANSFER_CAPACITY + estimateFee(maximumWitness)
  /\ TRANSFER_CAPACITY >= FunderCellCapacity
  /\ Change(capacity) >= AccountCellCapacity

\* Mutant: the placeholder's lock field is hashed too.
groupSighash_whole(tx) == tx

\* The transaction with the lock field of its witness emptied.
groupSighash(tx) == [tx EXCEPT !.rest.lock = "empty"]

\* The transaction, as in AccountLock; rest has its outputs and its witness's lock.
SpendTx(state, capacity) ==
  [inputs |-> {AssetOut}, deps |-> {state.out}, group_deps |-> {},
   since |-> [relative |-> FALSE, metric |-> "block", value |-> 0],
   state_outputs |-> {}, asset_outputs |-> {},
   verifiers |-> [v \in Verifiers |-> IF v = DeployedVerifier THEN 1 ELSE 0],
   rest |-> [transfer |-> TRANSFER_CAPACITY, change |-> Change(capacity),
             lock |-> "placeholder"]]

PrepareSpend(key) ==
  /\ page.step = "asset"
  /\ IF page.asset \notin live THEN Blocked("cells")
     ELSE IF page.state.data.authenticators[1].key_id # key THEN Blocked("key")
     ELSE IF ~CapacitySuffices(page.asset.capacity) THEN Blocked("capacity")
     ELSE page' = [step     |-> "review",
                   key      |-> key,
                   state    |-> page.state,
                   capacity |-> page.asset.capacity,
                   tx       |-> SpendTx(page.state, page.asset.capacity),
                   change   |-> Change(page.asset.capacity),
                   reserved |-> maximumWitness]
  /\ UNCHANGED <<live, index, signed>>

(***************************************************************************)
(* authorize: requestAssertion, then finalizeSpend in the same step.       *)
(***************************************************************************)
AuthorizationIntent ==
  [operation  |-> OP_SPEND,
   account_id |-> AccountId,
   data       |-> page.state.data,
   tx         |-> groupSighash(page.tx)]

InBounds(a, c, s) ==
  /\ a \in MIN_AUTHENTICATOR_DATA_BYTES..MAX_AUTHENTICATOR_DATA_BYTES
  /\ c \in 1..MAX_CLIENT_DATA_BYTES
  /\ s \in 8..MAX_DER_SIGNATURE_BYTES

\* The browser answers for the credential and the challenge it was given, as the
\* client then checks (when the user cancels, the review stays as it is).  The
\* client asks for user verification but looks neither at the flags nor at how the
\* client data and the signature are written: the browser is trusted to set user
\* presence and verification, to write flat JSON and canonical DER.
Assertion(a, c, s) ==
  /\ page.step = "review"
  /\ signed' = signed \cup {[key |-> page.key, intent |-> AuthorizationIntent]}
  /\ IF ~InBounds(a, c, s) THEN Blocked("assertion")
     ELSE IF WitnessBytes(a, c, s) > page.reserved THEN page' = [step |-> "over reservation"]
     ELSE page' = [step |-> "final", key |-> page.key, state |-> page.state,
                   capacity |-> page.capacity, change |-> page.change,
                   tx |-> [page.tx EXCEPT !.rest.lock = "proof"],
                   intent |-> AuthorizationIntent, witness |-> WitnessBytes(a, c, s)]
  /\ UNCHANGED <<live, index>>

AccountWitness ==
  [operation      |-> OP_SPEND,
   state_sequence |-> page.state.data.sequence,
   proofs         |-> [slot \in {0} |-> [key |-> page.key, intent |-> page.intent]]]

StateCells == {[out |-> c.out, data |-> c.data] : c \in {s \in live : s.kind = "state"}}

\* What the lock's own sighash covers: it empties the lock field, too.
canonical_witness(tx) == [tx EXCEPT !.rest.lock = "empty"]

\* What verifier-p256 asks of an entry besides the signature: the profile, and the
\* site at which the assertion was made, which is the demo.  What it asks of flags,
\* client data and DER holds by the assumption at Assertion.
verify(entry) == entry.algorithm_id = "P256_WEBAUTHN" /\ entry.binding = DemoSite

\* The signatures that count for a state.
Verified(state) ==
  {s \in signed : \E i \in DOMAIN state.authenticators :
                     /\ state.authenticators[i].key_id = s.key
                     /\ verify(state.authenticators[i])}

LockAccepts ==
  \E cell \in StateCells :
     Accepts(canonical_witness(page.tx), AccountWitness, StateCells, cell,
             Verified(cell.data))

FreshOut == 1 + Max({c.out : c \in live})
CellsResolve == \A out \in page.tx.inputs \cup page.tx.deps : \E c \in live : c.out = out

\* The chain commits the transaction, or a node refuses it.
SubmitSpend ==
  /\ page.step = "final"
  /\ IF CellsResolve /\ LockAccepts
       THEN /\ FreshOut <= MaxOut
            /\ live' = {c \in live : c.out # AssetOut}
                       \cup {Cell(FreshOut, "asset", page.change, NoData)}
            /\ page' = [step |-> "committed"]
       ELSE Blocked("refused") /\ UNCHANGED live
  /\ UNCHANGED <<index, signed>>

(***************************************************************************)
(* The account's other users and the indexer.                              *)
(***************************************************************************)
Rotate ==
  /\ FreshOut <= MaxOut
  /\ \E c \in live :
        /\ c.kind = "state"
        /\ live' = (live \ {c}) \cup {Cell(FreshOut, "state", c.capacity,
                                        [c.data EXCEPT !.sequence = @ + 1])}
  /\ UNCHANGED <<index, page, signed>>

SpendElsewhere ==
  /\ FreshOut <= MaxOut
  /\ \E c \in live :
        /\ c.out = AssetOut
        /\ live' = (live \ {c}) \cup {Cell(FreshOut, "asset", c.capacity, NoData)}
  /\ UNCHANGED <<index, page, signed>>

Deposit(kind) ==
  /\ FreshOut <= MaxOut
  /\ live' = live \cup {Cell(FreshOut, kind, AccountCellCapacity, NoData)}
  /\ UNCHANGED <<index, page, signed>>

IndexerCatchesUp ==
  /\ index # live
  /\ index' = live
  /\ UNCHANGED <<live, page, signed>>

Next ==
  \/ ReadState \/ ScanAssets \/ \E key \in Keys : PrepareSpend(key)
  \/ \E a \in AuthenticatorDataSizes, c \in ClientDataSizes, s \in SignatureSizes :
        Assertion(a, c, s)
  \/ SubmitSpend
  \/ Rotate \/ SpendElsewhere \/ IndexerCatchesUp
  \/ \E kind \in {"asset", "token"} : Deposit(kind)

Spec == Init /\ [][Next]_vars
-----------------------------------------------------------------------------
(***************************************************************************)
(* Properties.                                                             *)
(***************************************************************************)
\* A spend the client finalised is accepted by AccountLock and its verifier as long
\* as the cells it names are live: the digest made with the placeholder witness is
\* the one the lock computes, and the client's profile check leaves nothing that
\* encode let through and the lock or the verifier rejects.
FinalisedAccepted == page.step = "final" /\ CellsResolve => LockAccepts

\* An account the server created is spendable: as long as nobody else has touched
\* its cells, no check of the client, the lock or the verifier stops the spend,
\* only another passkey or an assertion beyond the client's bounds does.
DemoAccountSpendable ==
  page.step = "blocked"
  /\ (\E key \in Keys : live = AccountCells(accountConfiguration(key), INITIAL_ASSET))
    => page.why \in {"key", "assertion"}

\* A finalised spend balances, pays at least the fee its real witness needs, sends
\* the fixed transfer and leaves both outputs their occupied capacity.
FeeCoversFinal ==
  page.step = "final" =>
    LET fee == page.capacity - TRANSFER_CAPACITY - page.change
    IN /\ fee >= estimateFee(page.witness)
       /\ page.change >= AccountCellCapacity
       /\ TRANSFER_CAPACITY >= FunderCellCapacity

\* An assertion within the bounds always fits the reservation: the client never
\* finds out after the user has signed that the fee was too small.
NeverOverReservation == page.step # "over reservation"
=============================================================================
