-------------------------- MODULE PasskeySpendProofs --------------------------
(***************************************************************************)
(* The capacity argument of the passkey spend, for every size of CKB, of   *)
(* the transaction, of the funder's lock and of assertions.  What is       *)
(* reserved with the placeholder is an upper bound of every witness within *)
(* the bounds, the fee grows with the witness, and from the review to the  *)
(* finalised spend the change is the capacity less transfer and that fee.  *)
(*                                                                         *)
(* Then the acceptance of what was signed.  New cells get outpoints beyond *)
(* the two of the creation, so the cell at the recorded outpoint is the    *)
(* first state of the account or gone, and the one the page has read; and  *)
(* an account whose cells are still those two was never touched.           *)
(***************************************************************************)
EXTENDS PasskeySpend, FiniteSetTheorems, WellFoundedInduction, TLAPS

Natural(cells) == \A c \in cells : c.capacity \in Nat

Reviewed ==
  /\ page.capacity \in Nat
  /\ CapacitySuffices(page.capacity)
  /\ page.change = Change(page.capacity)

\* The inductive invariant: the capacities read, and what a review has fixed.
SpendInv ==
  /\ Natural(live) /\ Natural(index)
  /\ page.step \in {"start", "scan", "asset", "review", "final", "blocked", "committed"}
  /\ page.step = "review" => Reviewed /\ page.reserved = maximumWitness
  /\ page.step = "final" => /\ Reviewed
                            /\ page.witness \in Nat /\ page.witness <= maximumWitness

\* The placeholder is the longest witness an assertion within the bounds leads to.
LEMMA WitnessFits ==
  ASSUME NEW a \in Nat, NEW c \in Nat, NEW s \in Nat, InBounds(a, c, s)
  PROVE  WitnessBytes(a, c, s) \in Nat /\ WitnessBytes(a, c, s) <= maximumWitness
BY DEF InBounds, WitnessBytes, maximumWitness, packAccountWitness, encodeAccountWitness,
       encodeP256Proof, MIN_AUTHENTICATOR_DATA_BYTES, MAX_AUTHENTICATOR_DATA_BYTES,
       MAX_CLIENT_DATA_BYTES, MAX_DER_SIGNATURE_BYTES

\* The placeholder has a size.
LEMMA ReservationNatural == maximumWitness \in Nat
BY DEF WitnessBytes, maximumWitness, packAccountWitness, encodeAccountWitness,
       encodeP256Proof, MAX_AUTHENTICATOR_DATA_BYTES, MAX_CLIENT_DATA_BYTES,
       MAX_DER_SIGNATURE_BYTES

\* A shorter witness never costs more.
LEMMA FeeMonotone ==
  ASSUME NEW w \in Nat, NEW v \in Nat, w <= v
  PROVE  /\ estimateFee(w) \in Nat /\ estimateFee(v) \in Nat
         /\ estimateFee(w) <= estimateFee(v)
BY SpendConstants DEF estimateFee, FEE_RATE

\* Products with the size of a CKB are natural numbers.
LEMMA CapacitiesNatural ==
  /\ TRANSFER_CAPACITY \in Nat
  /\ AccountCellCapacity \in Nat
  /\ \A ckb \in Nat : ckb * SHANNONS_PER_CKB \in Nat
BY SpendConstants DEF TRANSFER_CAPACITY, AccountCellCapacity, cellCapacityShannons

\* The account has just been created and nothing is prepared.
LEMMA InitSpendInv == Init => SpendInv
<1> SUFFICES ASSUME Init PROVE SpendInv
  OBVIOUS
<1>1. PICK created \in Creations : live = AccountCells(created.config, created.ckb)
  BY DEF Init
<1>2. created.ckb \in Nat
  <2>1. \/ created \in [config : {accountConfiguration(key) : key \in Keys},
                        ckb : {INITIAL_ASSET}]
        \/ created \in [config : Configs, ckb : AssetCkb]
    BY <1>1 DEF Creations
  <2>2. created.ckb \in {INITIAL_ASSET} \/ created.ckb \in AssetCkb
    BY <2>1
  <2>3. INITIAL_ASSET \in Nat
    BY DEF INITIAL_ASSET
  <2>4. AssetCkb \subseteq Nat
    BY SpendConstants
  <2> QED
    BY <2>2, <2>3, <2>4
<1>3. Natural(live)
  BY <1>1, <1>2, CapacitiesNatural DEF Natural, AccountCells, Cell
<1>4. page.step = "start" /\ index = live
  BY DEF Init
<1> QED
  BY <1>3, <1>4 DEF SpendInv

\* Reviewing: the capacity is one that was read, and it suffices.
LEMMA PrepareKeepsInv ==
  ASSUME SpendInv, NEW key \in Keys, PrepareSpend(key)
  PROVE  SpendInv'
<1>1. Natural(live)' /\ Natural(index)'
  BY DEF SpendInv, PrepareSpend, Natural
<1>2. CASE \E why \in {"cells", "key", "capacity"} : Blocked(why)
  <2>1. page'.step = "blocked"
    BY <1>2 DEF Blocked
  <2> QED
    BY <1>1, <2>1 DEF SpendInv
<1>3. CASE ~\E why \in {"cells", "key", "capacity"} : Blocked(why)
  <2>1. /\ page.asset \in live /\ CapacitySuffices(page.asset.capacity)
        /\ page'.step = "review" /\ page'.capacity = page.asset.capacity
        /\ page'.change = Change(page.asset.capacity) /\ page'.reserved = maximumWitness
    BY <1>3 DEF PrepareSpend
  <2>2. page.asset.capacity \in Nat
    BY <2>1 DEF SpendInv, Natural
  <2>3. Reviewed'
    BY <2>1, <2>2 DEF Reviewed, CapacitySuffices, Change
  <2> QED
    BY <1>1, <2>1, <2>3 DEF SpendInv
<1> QED
  BY <1>2, <1>3

\* Finalising: the witness fits, so the spend is never over its reservation.
LEMMA AssertionKeepsInv ==
  ASSUME SpendInv, NEW a \in AuthenticatorDataSizes, NEW c \in ClientDataSizes,
         NEW s \in SignatureSizes, Assertion(a, c, s)
  PROVE  SpendInv'
<1>1. Natural(live)' /\ Natural(index)'
  BY DEF SpendInv, Assertion, Natural
<1>2. a \in Nat /\ c \in Nat /\ s \in Nat
  BY SpendConstants
<1>3. Reviewed /\ page.reserved = maximumWitness
  BY DEF SpendInv, Assertion
<1>4. CASE ~InBounds(a, c, s)
  <2>1. page'.step = "blocked"
    BY <1>4 DEF Assertion, Blocked
  <2> QED
    BY <1>1, <2>1 DEF SpendInv
<1>5. CASE InBounds(a, c, s)
  <2>1. WitnessBytes(a, c, s) \in Nat /\ WitnessBytes(a, c, s) <= maximumWitness
    BY <1>2, <1>5, WitnessFits
  <2>2. ~(WitnessBytes(a, c, s) > page.reserved)
    BY <2>1, <1>3, ReservationNatural
  <2>3. page' = [step |-> "final", key |-> page.key, state |-> page.state,
                 capacity |-> page.capacity, change |-> page.change,
                 tx |-> [page.tx EXCEPT !.rest.lock = "proof"],
                 intent |-> AuthorizationIntent, witness |-> WitnessBytes(a, c, s)]
    BY <1>5, <2>2, Zenon DEF Assertion
  <2>4. /\ page'.step = "final" /\ page'.capacity = page.capacity
        /\ page'.change = page.change /\ page'.witness = WitnessBytes(a, c, s)
    BY <2>3
  <2>5. Reviewed'
    BY <1>3, <2>4 DEF Reviewed, CapacitySuffices, Change
  <2> QED
    BY <1>1, <2>1, <2>4, <2>5 DEF SpendInv
<1> QED
  BY <1>4, <1>5

\* Committing: the change is a capacity again.
LEMMA SubmitKeepsInv ==
  ASSUME SpendInv, SubmitSpend
  PROVE  SpendInv'
<1>1. Reviewed
  BY DEF SpendInv, SubmitSpend
<1>2. page.change \in Nat
  BY <1>1, CapacitiesNatural, ReservationNatural, FeeMonotone
  DEF Reviewed, CapacitySuffices, Change
<1>3. Natural(live)' /\ Natural(index)'
  BY <1>2 DEF SpendInv, SubmitSpend, Natural, Cell
<1>4. page'.step \in {"committed", "blocked"}
  BY DEF SubmitSpend, Blocked
<1> QED
  BY <1>3, <1>4 DEF SpendInv

\* Other users of the account and the indexer leave the page alone.
LEMMA SurroundingsKeepInv ==
  ASSUME SpendInv,
         \/ Rotate \/ SpendElsewhere \/ IndexerCatchesUp
         \/ \E kind \in {"asset", "token"} : Deposit(kind)
  PROVE  SpendInv'
<1>1. page' = page
  BY DEF Rotate, SpendElsewhere, IndexerCatchesUp, Deposit
<1>2. Natural(live)' /\ Natural(index)'
  BY CapacitiesNatural
  DEF SpendInv, Natural, Cell, Rotate, SpendElsewhere, IndexerCatchesUp, Deposit
<1>3. Reviewed' = Reviewed
  BY <1>1 DEF Reviewed, CapacitySuffices, Change
<1> QED
  BY <1>1, <1>2, <1>3 DEF SpendInv

\* Discovering the cells fixes nothing yet.
LEMMA DiscoveryKeepsInv ==
  ASSUME SpendInv, ReadState \/ ScanAssets
  PROVE  SpendInv'
<1>1. Natural(live)' /\ Natural(index)'
  BY DEF SpendInv, ReadState, ScanAssets, Natural
<1>2. page'.step \in {"scan", "asset", "blocked"}
  BY DEF ReadState, ScanAssets, Blocked
<1> QED
  BY <1>1, <1>2 DEF SpendInv

\* The invariant holds in every reachable state.
THEOREM SpendInvariant == Spec => []SpendInv
<1>1. SpendInv /\ [Next]_vars => SpendInv'
  <2> SUFFICES ASSUME SpendInv, [Next]_vars PROVE SpendInv'
    OBVIOUS
  <2>1. CASE ReadState \/ ScanAssets
    BY <2>1, DiscoveryKeepsInv
  <2>2. CASE \E key \in Keys : PrepareSpend(key)
    BY <2>2, PrepareKeepsInv
  <2>3. CASE \E a \in AuthenticatorDataSizes, c \in ClientDataSizes, s \in SignatureSizes :
               Assertion(a, c, s)
    BY <2>3, AssertionKeepsInv
  <2>4. CASE SubmitSpend
    BY <2>4, SubmitKeepsInv
  <2>5. CASE \/ Rotate \/ SpendElsewhere \/ IndexerCatchesUp
             \/ \E kind \in {"asset", "token"} : Deposit(kind)
    BY <2>5, SurroundingsKeepInv
  <2>6. CASE UNCHANGED vars
    BY <2>6 DEF vars, SpendInv, Natural, Reviewed, CapacitySuffices, Change
  <2> QED
    BY <2>1, <2>2, <2>3, <2>4, <2>5, <2>6 DEF Next
<1> QED
  BY <1>1, InitSpendInv, PTL DEF Spec

\* finalizeSpend and prepareSpend: whatever the sizes of the assertion, the fee the
\* review fixed covers the finalised transaction and both outputs are occupied.
THEOREM FeeCovers == Spec => []FeeCoversFinal
<1>1. SpendInv => FeeCoversFinal
  <2> SUFFICES ASSUME SpendInv, page.step = "final" PROVE FeeCoversFinal
    BY DEF FeeCoversFinal
  <2>1. Reviewed /\ page.witness \in Nat /\ page.witness <= maximumWitness
    BY DEF SpendInv
  <2>2. /\ estimateFee(page.witness) \in Nat /\ estimateFee(maximumWitness) \in Nat
        /\ estimateFee(page.witness) <= estimateFee(maximumWitness)
    BY <2>1, ReservationNatural, FeeMonotone
  <2>3. page.capacity - TRANSFER_CAPACITY - page.change = estimateFee(maximumWitness)
    BY <2>1, <2>2, CapacitiesNatural DEF Reviewed, Change
  <2>4. page.change >= AccountCellCapacity /\ TRANSFER_CAPACITY >= FunderCellCapacity
    BY <2>1 DEF Reviewed, CapacitySuffices
  <2> QED
    BY <2>2, <2>3, <2>4 DEF FeeCoversFinal
<1> QED
  BY <1>1, SpendInvariant, PTL

\* The RangeError "exceeds the prepared fee reservation" of finalizeSpend is never
\* thrown after the user has signed.
THEOREM ReservationHolds == Spec => []NeverOverReservation
<1>1. SpendInv => NeverOverReservation
  BY DEF SpendInv, NeverOverReservation
<1> QED
  BY <1>1, SpendInvariant, PTL

-----------------------------------------------------------------------------
(***************************************************************************)
(* What the lock and the verifier make of the finalised spend.             *)
(***************************************************************************)
Sound(data) ==
  /\ DOMAIN data.authenticators = 1..Len(data.authenticators)
  /\ \A i \in DOMAIN data.authenticators :
       data.authenticators[i].binding # "none" => data.authenticators[i].aux = "fits"

\* The state cell of the creation.
Original(c) == c.out = StateOut /\ c.kind = "state" /\ validate_state(c.data) /\ Sound(c.data)

\* The recorded outpoints are the creation's: the state cell's holds the original or
\* nothing, the asset's never a state cell.
CellsInv ==
  /\ \A c \in live : c.out \in 0..(MaxOut + 1)
  /\ \E c \in live : c.out >= 1
  /\ \A c \in live : c.out = StateOut => Original(c)
  /\ \A c, d \in live : c.out = StateOut /\ d.out = StateOut => c = d
  /\ \A c \in live : c.kind = "state" => c.out # AssetOut

Intent(state, tx) ==
  [operation |-> OP_SPEND, account_id |-> AccountId, data |-> state.data,
   tx |-> groupSighash(tx)]

\* The state the page has read, the transaction it shows and what was signed.
PageInv ==
  /\ page.step \in {"scan", "asset", "review", "final"} =>
       /\ parseAccountState(page.state.data) /\ Original(page.state)
       /\ \A c \in live : c.out = StateOut => c = page.state
  /\ page.step \in {"review", "final"} => page.key = page.state.data.authenticators[1].key_id
  /\ page.step = "review" => page.tx = SpendTx(page.state, page.capacity)
  /\ page.step = "final" =>
       /\ page.tx = [SpendTx(page.state, page.capacity) EXCEPT !.rest.lock = "proof"]
       /\ page.intent = Intent(page.state, SpendTx(page.state, page.capacity))
       /\ [key |-> page.key, intent |-> page.intent] \in signed

AcceptInv == CellsInv /\ PageInv

LEMMA LeastNumber ==
  ASSUME NEW T, T \subseteq Nat, T # {}
  PROVE  \E n \in T : \A m \in T : n <= m
<1>1. PICK n \in T : \A m \in T : ~(<<m, n>> \in OpToRel(<, Nat))
  BY NatLessThanWellFounded, WFMin
<1>2. \A m \in T : ~(m < n)
  BY <1>1 DEF OpToRel
<1> QED
  BY <1>2

\* A new cell gets an outpoint beyond all live ones and the two of the creation.
LEMMA FreshIs ==
  ASSUME CellsInv
  PROVE  FreshOut \in Nat /\ FreshOut >= 2
<1> DEFINE S == {c.out : c \in live}
           B == MaxOut + 1
           T == {n \in Nat : \E x \in S : n = B - x}
<1>1. B \in Nat /\ S \subseteq 0..B /\ \E x \in S : x >= 1
  BY SpendConstants DEF CellsInv
<1> HIDE DEF S, B
<1>2. T \subseteq Nat /\ T # {}
  <2>1. PICK x \in S : x >= 1
    BY <1>1
  <2>2. B - x \in Nat
    BY <1>1
  <2> QED
    BY <2>2
<1>3. PICK n \in T : \A m \in T : n <= m
  <2> HIDE DEF T
  <2> QED
    BY <1>2, LeastNumber
<1>4. PICK x \in S : n = B - x
  OBVIOUS
<1>5. \A y \in S : x >= y
  <2> SUFFICES ASSUME NEW y \in S PROVE x >= y
    OBVIOUS
  <2>1. x \in 0..B /\ y \in 0..B
    BY <1>1
  <2>2. B - y \in T
    BY <1>1, <2>1
  <2>3. n <= B - y
    BY <1>3, <2>2
  <2> QED
    BY <1>1, <1>4, <2>1, <2>3
<1>6. Max(S) \in S /\ \A y \in S : Max(S) >= y
  BY <1>5 DEF Max
<1>7. Max(S) \in Nat /\ Max(S) >= 1
  <2>1. PICK y \in S : y >= 1
    BY <1>1
  <2>2. PICK m : m = Max(S)
    OBVIOUS
  <2>3. m \in 0..B /\ y \in 0..B /\ m >= y
    BY <1>1, <1>6, <2>1, <2>2
  <2>4. m \in Nat /\ m >= 1
    BY <1>1, <2>1, <2>3
  <2> QED
    BY <2>2, <2>4
<1>8. FreshOut = 1 + Max(S)
  BY DEF FreshOut, S
<1> QED
  BY <1>7, <1>8

\* Whatever is replaced, with a new cell added: the original is still there or gone.
LEMMA NewCellKeepsInv ==
  ASSUME CellsInv, NEW kept, kept \subseteq live, NEW cell, cell.out = FreshOut,
         FreshOut <= MaxOut, live' = kept \cup {cell}
  PROVE  /\ CellsInv'
         /\ \A c \in live' : c.out = StateOut => c \in live
         /\ cell \in live' /\ cell.out >= 2
<1>1. cell.out \in Nat /\ cell.out >= 2 /\ cell.out \in 0..(MaxOut + 1)
  BY FreshIs, SpendConstants
<1>2. cell.out # StateOut /\ cell.out # AssetOut
  BY <1>1 DEF StateOut, AssetOut
<1>3. cell.out >= 1
  BY <1>1
<1> QED
  BY <1>1, <1>2, <1>3 DEF CellsInv

\* A page that holds a state keeps it: the cells at that outpoint only go away.
LEMMA PageStays ==
  ASSUME PageInv, page' = page, signed' = signed,
         \A c \in live' : c.out = StateOut => c \in live
  PROVE  PageInv'
BY DEF PageInv

LEMMA LiveChanges ==
  ASSUME CellsInv,
         \/ SubmitSpend /\ CellsResolve /\ LockAccepts
         \/ Rotate \/ SpendElsewhere \/ \E kind \in {"asset", "token"} : Deposit(kind)
  PROVE  /\ CellsInv'
         /\ \A c \in live' : c.out = StateOut => c \in live
         /\ \E c \in live' : c.out >= 2
<1>1. \E kept, cell : /\ kept \subseteq live /\ cell.out = FreshOut /\ FreshOut <= MaxOut
                      /\ live' = kept \cup {cell}
  <2>1. CASE SubmitSpend /\ CellsResolve /\ LockAccepts
    BY <2>1 DEF SubmitSpend, Cell
  <2>2. CASE Rotate
    BY <2>2 DEF Rotate, Cell
  <2>3. CASE SpendElsewhere
    BY <2>3 DEF SpendElsewhere, Cell
  <2>4. CASE \E kind \in {"asset", "token"} : Deposit(kind)
    BY <2>4 DEF Deposit, Cell
  <2> QED
    BY <2>1, <2>2, <2>3, <2>4
<1> QED
  BY <1>1, NewCellKeepsInv


\* The account has just been created.
LEMMA InitAcceptInv == Init => AcceptInv
<1> SUFFICES ASSUME Init PROVE AcceptInv
  OBVIOUS
<1>1. PICK created \in Creations :
        encode(created.config) /\ live = AccountCells(created.config, created.ckb)
  BY DEF Init
<1> DEFINE config == created.config
           data == AccountState(config)
<1>2. config \in {accountConfiguration(key) : key \in Keys} \/ config \in Configs
  BY DEF Creations
<1>3. data.authenticators = config.authenticators
  BY DEF AccountState
<1>4. Sound(data)
  <2>1. CASE config \in Configs
    BY <1>3, <2>1, ConfigsTyped DEF Sound
  <2>2. CASE config \in {accountConfiguration(key) : key \in Keys}
    <3>1. PICK key : config = DemoProfile(key, 0)
      BY <2>2 DEF accountConfiguration
    <3>2. PICK entry : config.authenticators = <<entry>> /\ entry.aux = "fits"
      BY <3>1 DEF DemoProfile
    <3>3. /\ DOMAIN config.authenticators = 1..Len(config.authenticators)
          /\ \A i \in DOMAIN config.authenticators : config.authenticators[i] = entry
      BY <3>2
    <3> QED
      BY <1>3, <3>2, <3>3 DEF Sound
  <2> QED
    BY <1>2, <2>1, <2>2
<1>5. validate_state(data)
  BY <1>1 DEF encode, encode_state
<1> HIDE DEF data
<1>6. live = {Cell(0, "state", AccountCellCapacity, data),
              Cell(1, "asset", created.ckb * SHANNONS_PER_CKB, NoData)}
  BY <1>1 DEF AccountCells, StateOut, AssetOut, data
<1>7. PICK s, a : /\ s.out = 0 /\ s.kind = "state" /\ s.data = data
                  /\ a.out = 1 /\ a.kind = "asset" /\ live = {s, a}
  BY <1>6 DEF Cell
<1>8. 0 \in 0..(MaxOut + 1) /\ 1 \in 0..(MaxOut + 1)
  BY SpendConstants
<1>9. Original(s)
  BY <1>4, <1>5, <1>7 DEF Original, StateOut
<1>10. CellsInv
  BY <1>7, <1>8, <1>9 DEF CellsInv, StateOut, AssetOut
<1>11. page.step = "start"
  BY DEF Init
<1> QED
  BY <1>10, <1>11 DEF AcceptInv, PageInv

LEMMA DiscoveryKeepsAccept ==
  ASSUME AcceptInv, ReadState \/ ScanAssets
  PROVE  AcceptInv'
<1>1. live' = live
  BY DEF ReadState, ScanAssets
<1>2. CellsInv'
  BY <1>1 DEF AcceptInv, CellsInv
<1>3. CASE page'.step = "blocked"
  BY <1>2, <1>3 DEF AcceptInv, PageInv
<1>4. CASE page'.step # "blocked" /\ ReadState
  <2> DEFINE found == {c \in live : c.out = StateOut /\ parseAccountState(c.data)}
  <2>1. /\ found # {}
        /\ page' = [step |-> "scan", state |-> CHOOSE c \in found : TRUE]
    BY <1>4 DEF ReadState, Blocked
  <2>2. page'.state \in found /\ page'.step = "scan"
    BY <2>1
  <2> QED
    BY <1>1, <1>2, <2>2 DEF AcceptInv, PageInv, CellsInv
<1>5. CASE page'.step # "blocked" /\ ScanAssets
  <2>1. page'.step = "asset" /\ page'.state = page.state /\ page.step = "scan"
    BY <1>5 DEF ScanAssets, Blocked
  <2> QED
    BY <1>1, <1>2, <2>1 DEF AcceptInv, PageInv
<1> QED
  BY <1>3, <1>4, <1>5

LEMMA PrepareKeepsAccept ==
  ASSUME AcceptInv, NEW key \in Keys, PrepareSpend(key)
  PROVE  AcceptInv'
<1>1. live' = live
  BY DEF PrepareSpend
<1>2. CellsInv'
  BY <1>1 DEF AcceptInv, CellsInv
<1>3. CASE \E why \in {"cells", "key", "capacity"} : Blocked(why)
  <2>1. page'.step = "blocked"
    BY <1>3 DEF Blocked
  <2> QED
    BY <1>2, <2>1 DEF AcceptInv, PageInv
<1>4. CASE ~\E why \in {"cells", "key", "capacity"} : Blocked(why)
  <2>1. /\ page.step = "asset" /\ page.state.data.authenticators[1].key_id = key
        /\ page' = [step |-> "review", key |-> key, state |-> page.state,
                    capacity |-> page.asset.capacity,
                    tx |-> SpendTx(page.state, page.asset.capacity),
                    change |-> Change(page.asset.capacity), reserved |-> maximumWitness]
    BY <1>4 DEF PrepareSpend
  <2>2. /\ page'.step = "review" /\ page'.key = key /\ page'.state = page.state
        /\ page'.tx = SpendTx(page'.state, page'.capacity)
    BY <2>1
  <2> QED
    BY <1>1, <1>2, <2>1, <2>2 DEF AcceptInv, PageInv
<1> QED
  BY <1>3, <1>4

LEMMA AssertionKeepsAccept ==
  ASSUME SpendInv, AcceptInv, NEW a \in AuthenticatorDataSizes, NEW c \in ClientDataSizes,
         NEW s \in SignatureSizes, Assertion(a, c, s)
  PROVE  AcceptInv'
<1>1. live' = live /\ page.step = "review"
  BY DEF Assertion
<1>2. CellsInv'
  BY <1>1 DEF AcceptInv, CellsInv
<1>3. CASE page'.step \in {"blocked", "over reservation"}
  BY <1>2, <1>3 DEF AcceptInv, PageInv
<1>4. CASE page'.step \notin {"blocked", "over reservation"}
  <2>1. page' = [step |-> "final", key |-> page.key, state |-> page.state,
                 capacity |-> page.capacity, change |-> page.change,
                 tx |-> [page.tx EXCEPT !.rest.lock = "proof"],
                 intent |-> AuthorizationIntent, witness |-> WitnessBytes(a, c, s)]
    <3>1. ASSUME ~InBounds(a, c, s) PROVE FALSE
      <4>1. page' = [step |-> "blocked", why |-> "assertion"]
        BY <3>1, Zenon DEF Assertion, Blocked
      <4> QED
        BY <1>4, <4>1
    <3>2. ASSUME InBounds(a, c, s), WitnessBytes(a, c, s) > page.reserved PROVE FALSE
      <4>1. page' = [step |-> "over reservation"]
        BY <3>2, Zenon DEF Assertion
      <4> QED
        BY <1>4, <4>1
    <3> QED
      BY <3>1, <3>2, Zenon DEF Assertion
  <2>2. /\ page'.step = "final" /\ page'.key = page.key /\ page'.state = page.state
        /\ page'.capacity = page.capacity /\ page'.intent = AuthorizationIntent
        /\ page'.tx = [page.tx EXCEPT !.rest.lock = "proof"]
    BY <2>1
  <2>3. page.tx = SpendTx(page.state, page.capacity)
    BY <1>1 DEF AcceptInv, PageInv
  <2>4. AuthorizationIntent = Intent(page.state, SpendTx(page.state, page.capacity))
    BY <2>3 DEF AuthorizationIntent, Intent
  <2>5. [key |-> page.key, intent |-> AuthorizationIntent] \in signed'
    BY DEF Assertion
  <2>6. /\ page'.tx = [SpendTx(page'.state, page'.capacity) EXCEPT !.rest.lock = "proof"]
        /\ page'.intent = Intent(page'.state, SpendTx(page'.state, page'.capacity))
        /\ [key |-> page'.key, intent |-> page'.intent] \in signed'
    BY <2>2, <2>3, <2>4, <2>5
  <2> QED
    BY <1>1, <1>2, <2>2, <2>6 DEF AcceptInv, PageInv
<1> QED
  BY <1>3, <1>4

LEMMA OthersKeepAccept ==
  ASSUME AcceptInv,
         \/ SubmitSpend \/ Rotate \/ SpendElsewhere \/ IndexerCatchesUp
         \/ \E kind \in {"asset", "token"} : Deposit(kind)
  PROVE  AcceptInv'
<1>1. CASE SubmitSpend /\ CellsResolve /\ LockAccepts
  <2>1. page'.step = "committed"
    BY <1>1 DEF SubmitSpend
  <2> QED
    BY <1>1, <2>1, LiveChanges DEF AcceptInv, PageInv
<1>2. CASE SubmitSpend /\ ~(CellsResolve /\ LockAccepts)
  <2>1. page'.step = "blocked" /\ live' = live
    BY <1>2 DEF SubmitSpend, Blocked
  <2> QED
    BY <2>1 DEF AcceptInv, PageInv, CellsInv
<1>3. CASE Rotate \/ SpendElsewhere \/ \E kind \in {"asset", "token"} : Deposit(kind)
  <2>1. page' = page /\ signed' = signed
    BY <1>3 DEF Rotate, SpendElsewhere, Deposit
  <2> QED
    BY <1>3, <2>1, LiveChanges, PageStays DEF AcceptInv
<1>4. CASE IndexerCatchesUp
  BY <1>4 DEF IndexerCatchesUp, AcceptInv, PageInv, CellsInv
<1> QED
  BY <1>1, <1>2, <1>3, <1>4

LEMMA NextAcceptInv ==
  ASSUME SpendInv, AcceptInv, [Next]_vars
  PROVE  AcceptInv'
<1>1. CASE UNCHANGED vars
  BY <1>1 DEF vars, AcceptInv, CellsInv, PageInv
<1> QED
  BY <1>1, DiscoveryKeepsAccept, PrepareKeepsAccept, AssertionKeepsAccept, OthersKeepAccept
  DEF Next

\* The invariant holds in every reachable state.
THEOREM AcceptInvariant == Spec => []AcceptInv
<1>1. SpendInv /\ AcceptInv /\ [Next]_vars => AcceptInv'
  BY NextAcceptInv
<1> QED
  BY <1>1, InitAcceptInv, SpendInvariant, PTL DEF Spec


(***************************************************************************)
(* The lock's own view of a finalised spend.                               *)
(***************************************************************************)
First(s) == CHOOSE x \in s : TRUE

Sums(g, S, w) ==
  g = [s \in SUBSET S |-> IF s = {} THEN 0 ELSE w[First(s)].weight + g[s \ {First(s)}]]

LEMMA WeightUnfold ==
  ASSUME NEW S, NEW w, \E g : Sums(g, S, w)
  PROVE  \E g : Sums(g, S, w) /\ WeightOf(w, S) = g[S]
BY DEF Sums, First, WeightOf, MapThenSumSet, MapThenFoldSet

\* The weight of one authenticator of weight one.
LEMMA OneWeight ==
  ASSUME NEW w, w[1].weight = 1
  PROVE  WeightOf(w, {1}) = 1
<1> DEFINE h == [s \in SUBSET {1} |-> IF s = {} THEN 0 ELSE 1]
<1>1. \A s \in SUBSET {1} : s # {} => s = {1} /\ First(s) = 1 /\ s \ {First(s)} = {}
  BY DEF First
<1>2. h[{}] = 0 /\ h[{1}] = 1
  OBVIOUS
<1>3. \A s \in SUBSET {1} :
        h[s] = IF s = {} THEN 0 ELSE w[First(s)].weight + h[s \ {First(s)}]
  <2> SUFFICES ASSUME NEW s \in SUBSET {1}, s # {}
               PROVE  h[s] = w[First(s)].weight + h[s \ {First(s)}]
    BY <1>2
  <2>1. s = {1} /\ First(s) = 1 /\ s \ {First(s)} = {}
    BY <1>1
  <2> HIDE DEF h
  <2> QED
    BY <1>2, <2>1
<1>4. Sums(h, {1}, w)
  BY <1>3 DEF Sums
<1>5. PICK g : Sums(g, {1}, w) /\ WeightOf(w, {1}) = g[{1}]
  BY <1>4, WeightUnfold
<1>6. g[{}] = 0
  BY <1>5 DEF Sums
<1>7. g[{1}] = w[1].weight + g[{}]
  <2>1. {1} \in SUBSET {1} /\ {1} # {} /\ First({1}) = 1 /\ {1} \ {1} = {}
    BY <1>1
  <2>2. g[{1}] = w[First({1})].weight + g[{1} \ {First({1})}]
    BY <1>5, <2>1 DEF Sums
  <2> QED
    BY <2>1, <2>2
<1> QED
  BY <1>5, <1>6, <1>7

\* Emptying the lock field of the finalised witness gives what was signed.
LEMMA SameSighash ==
  ASSUME NEW tx, NEW r, NEW p,
         tx = [x \in DOMAIN tx |-> tx[x]], "rest" \in DOMAIN tx, tx.rest = r,
         r = [x \in DOMAIN r |-> r[x]], "lock" \in DOMAIN r
  PROVE  canonical_witness([tx EXCEPT !.rest.lock = p]) = groupSighash(tx)
<1>1. PICK t : t = [tx EXCEPT !.rest.lock = p]
  OBVIOUS
<1>2. /\ t = [x \in DOMAIN tx |-> t[x]] /\ \A x \in DOMAIN tx : x # "rest" => t[x] = tx[x]
      /\ t.rest = [r EXCEPT !.lock = p]
  BY <1>1
<1>3. [t.rest EXCEPT !.lock = "empty"] = [r EXCEPT !.lock = "empty"]
  BY <1>2
<1>4. [t EXCEPT !.rest.lock = "empty"] = [x \in DOMAIN tx |->
         IF x = "rest" THEN [r EXCEPT !.lock = "empty"] ELSE tx[x]]
  BY <1>2, <1>3
<1>5. [tx EXCEPT !.rest.lock = "empty"] = [x \in DOMAIN tx |->
         IF x = "rest" THEN [r EXCEPT !.lock = "empty"] ELSE tx[x]]
  OBVIOUS
<1> QED
  BY <1>1, <1>4, <1>5 DEF canonical_witness, groupSighash


\* What the lock reads of the transaction it is shown.
LEMMA FinalTx ==
  ASSUME NEW state, state.out = StateOut, NEW capacity, NEW tx,
         tx = canonical_witness([SpendTx(state, capacity) EXCEPT !.rest.lock = "proof"])
  PROVE  /\ tx = groupSighash(SpendTx(state, capacity))
         /\ tx.inputs = {AssetOut} /\ tx.deps = {StateOut} /\ tx.group_deps = {}
         /\ tx.verifiers[DeployedVerifier] = 1
<1>1. PICK since : since = [relative |-> FALSE, metric |-> "block", value |-> 0]
  OBVIOUS
<1>2. PICK r : r = [transfer |-> TRANSFER_CAPACITY, change |-> Change(capacity),
                    lock |-> "placeholder"]
  OBVIOUS
<1>3. PICK v : v = [x \in Verifiers |-> IF x = DeployedVerifier THEN 1 ELSE 0]
  OBVIOUS
<1>4. PICK t : t = [inputs |-> {AssetOut}, deps |-> {StateOut}, group_deps |-> {},
                    since |-> since, state_outputs |-> {}, asset_outputs |-> {},
                    verifiers |-> v, rest |-> r]
  OBVIOUS
<1>5. SpendTx(state, capacity) = t
  BY <1>1, <1>2, <1>3, <1>4 DEF SpendTx
<1>6. /\ t = [x \in DOMAIN t |-> t[x]] /\ "rest" \in DOMAIN t /\ t.rest = r
      /\ r = [x \in DOMAIN r |-> r[x]] /\ "lock" \in DOMAIN r
  BY <1>2, <1>4
<1>7. tx = groupSighash(t)
  BY <1>5, <1>6, SameSighash
<1>8. /\ groupSighash(t).inputs = t.inputs /\ groupSighash(t).deps = t.deps
      /\ groupSighash(t).group_deps = t.group_deps /\ groupSighash(t).verifiers = t.verifiers
  BY <1>4 DEF groupSighash
<1>9. v[DeployedVerifier] = 1
  BY <1>3, SpendConstants
<1>10. /\ t.inputs = {AssetOut} /\ t.deps = {StateOut} /\ t.group_deps = {} /\ t.verifiers = v
  BY <1>4
<1> QED
  BY <1>5, <1>7, <1>8, <1>9, <1>10

\* The profile the client insists on, with what encode let through.
LEMMA ProfileIs ==
  ASSUME NEW data, parseAccountState(data), Sound(data)
  PROVE  /\ DOMAIN data.authenticators = {1} /\ data.spend_threshold = 1
         /\ LET entry == data.authenticators[1] IN
              /\ entry.slot = 0 /\ entry.weight = 1 /\ CAP_SPEND \in entry.capabilities
              /\ entry.verifier_code_hash = DeployedVerifier
              /\ verify(entry) /\ encode_request(entry)
<1>1. DOMAIN data.authenticators = 1..1
  BY DEF parseAccountState, Sound
<1>2. 1..1 = {1}
  OBVIOUS
<1>3. data.authenticators[1].binding = "demo"
  BY DEF parseAccountState, DemoSite
<1>4. data.authenticators[1].aux = "fits"
  BY <1>1, <1>2, <1>3 DEF Sound
<1> QED
  BY <1>1, <1>2, <1>4 DEF parseAccountState, verify, encode_request

\* A spend the client finalised is accepted as long as its cells are live.
LEMMA FinalIsAccepted ==
  ASSUME AcceptInv, page.step = "final", CellsResolve
  PROVE  LockAccepts
<1> DEFINE state == page.state
           data == state.data
           entry == data.authenticators[1]
           x == [out |-> state.out, data |-> data]
           sig == [key |-> page.key, intent |-> page.intent]
<1>1. /\ parseAccountState(data) /\ Original(state)
      /\ \A c \in live : c.out = StateOut => c = state
      /\ page.key = entry.key_id
      /\ page.tx = [SpendTx(state, page.capacity) EXCEPT !.rest.lock = "proof"]
      /\ page.intent = Intent(state, SpendTx(state, page.capacity))
      /\ sig \in signed
  BY DEF AcceptInv, PageInv
<1>2. PICK tx : tx = canonical_witness(page.tx)
  OBVIOUS
<1>3. /\ tx = groupSighash(SpendTx(state, page.capacity))
      /\ tx.inputs = {AssetOut} /\ tx.deps = {StateOut} /\ tx.group_deps = {}
      /\ tx.verifiers[DeployedVerifier] = 1
  <2>1. tx = canonical_witness([SpendTx(state, page.capacity) EXCEPT !.rest.lock = "proof"])
    BY <1>1, <1>2, Zenon
  <2>2. state.out = StateOut
    BY <1>1 DEF Original
  <2> QED
    BY <2>1, <2>2, FinalTx
<1>4. /\ DOMAIN data.authenticators = {1} /\ data.spend_threshold = 1
      /\ entry.slot = 0 /\ entry.weight = 1 /\ CAP_SPEND \in entry.capabilities
      /\ entry.verifier_code_hash = DeployedVerifier
      /\ verify(entry) /\ encode_request(entry)
  BY <1>1, ProfileIs DEF Original
<1>5. state \in live
  <2>1. StateOut \in page.tx.deps
    <3>1. (canonical_witness(page.tx)).deps = page.tx.deps
      BY <1>1 DEF canonical_witness, SpendTx
    <3> QED
      BY <1>2, <1>3, <3>1
  <2>2. PICK c \in live : c.out = StateOut
    BY <2>1 DEF CellsResolve
  <2> QED
    BY <1>1, <2>2
<1>6. StateCells = {[out |-> c.out, data |-> c.data] : c \in {s \in live : s.kind = "state"}}
  BY DEF StateCells
<1>7. x \in StateCells /\ x.out = StateOut /\ x.data = data
  BY <1>1, <1>5, <1>6 DEF Original
<1>8. \A y \in StateCells : y.out # AssetOut /\ (y.out = StateOut => y = x)
  <2> SUFFICES ASSUME NEW y \in StateCells
               PROVE  y.out # AssetOut /\ (y.out = StateOut => y = x)
    OBVIOUS
  <2>1. PICK c \in live : c.kind = "state" /\ y = [out |-> c.out, data |-> c.data]
    BY <1>6
  <2>2. y.out = c.out /\ c.out # AssetOut
    BY <2>1 DEF AcceptInv, CellsInv
  <2> QED
    BY <1>1, <2>1, <2>2
<1> HIDE DEF x
<1>9. resolve_state(OP_SPEND, tx, StateCells, x)
  <2>1. MatchingInputs(tx, StateCells) = {}
    BY <1>3, <1>8 DEF MatchingInputs
  <2>2. MatchingDeps(tx, StateCells) = {[cell |-> x, via |-> "direct"]}
    <3>1. {s \in StateCells : s.out \in tx.deps} = {x}
      BY <1>3, <1>7, <1>8
    <3>2. {s \in StateCells : s.out \in tx.group_deps} = {}
      BY <1>3
    <3> QED
      BY <3>1, <3>2 DEF MatchingDeps
  <2> QED
    BY <2>1, <2>2 DEF resolve_state, ResolvesSpend
<1>10. PICK proofs : proofs = [slot \in {0} |-> sig]
  OBVIOUS
<1>11. PICK w : w = AccountWitness
  OBVIOUS
<1>12. w.operation = OP_SPEND /\ w.state_sequence = data.sequence /\ w.proofs = proofs
  BY <1>10, <1>11 DEF AccountWitness
<1>13. StateAdmits(OP_SPEND, data.sequence, tx, StateCells, x)
  BY <1>1, <1>7, <1>9 DEF StateAdmits, validate_transition, Original
<1>14. ProofsAdmissible(OP_SPEND, tx, proofs, data)
  <2>1. capability_for_operation(OP_SPEND) = CAP_SPEND
    BY DEF capability_for_operation, OP_SPEND, OP_ROTATE, OP_RECOVERY
  <2>2. DOMAIN proofs = {0}
    BY <1>10
  <2> QED
    BY <1>3, <1>4, <2>1, <2>2 DEF ProofsAdmissible, resolve_verifier
<1>15. VerifiedAuthenticators(OP_SPEND, tx, proofs, data, Verified(data)) = {1}
  <2>1. sig.key = entry.key_id /\ sig.intent = Intent(state, SpendTx(state, page.capacity))
    BY <1>1
  <2>2. SignedDigest(sig) = authorization_digest(OP_SPEND, AccountId, data, tx)
    BY <1>3, <2>1 DEF SignedDigest, Intent
  <2>3. sig \in Verified(data)
    BY <1>1, <1>4, <2>1 DEF Verified
  <2> HIDE DEF sig
  <2>4. VerifierAccepts(entry, sig, authorization_digest(OP_SPEND, AccountId, data, tx),
                        Verified(data))
    BY <2>1, <2>2, <2>3 DEF VerifierAccepts
  <2> QED
    BY <1>4, <1>10, <2>4 DEF VerifiedAuthenticators
<1>16. ThresholdReached(OP_SPEND, tx, proofs, data, Verified(data))
  <2>1. WeightOf(data.authenticators, {1}) = 1
    BY <1>4, OneWeight
  <2>2. threshold_for_operation(OP_SPEND, data) = 1
    BY <1>4 DEF threshold_for_operation, OP_SPEND, OP_ROTATE, OP_RECOVERY
  <2> QED
    BY <1>15, <2>1, <2>2 DEF ThresholdReached
<1>17. Accepts(tx, w, StateCells, x, Verified(x.data))
  BY <1>7, <1>12, <1>13, <1>14, <1>16 DEF Accepts, ProofsSuffice
<1> QED
  BY <1>2, <1>7, <1>11, <1>17 DEF LockAccepts

\* Account lock and verifier accept every spend the client finalised whose cells are
\* live: the digest made over the placeholder witness is the one the lock computes, and
\* nothing passes encode and the client's profile check that they reject.
THEOREM FinalisedIsAccepted == Spec => []FinalisedAccepted
<1>1. AcceptInv => FinalisedAccepted
  BY FinalIsAccepted DEF FinalisedAccepted
<1> QED
  BY <1>1, AcceptInvariant, PTL

-----------------------------------------------------------------------------
(***************************************************************************)
(* An account of the demo that nobody else has touched.                    *)
(***************************************************************************)
DemoLive == \E key \in Keys : live = AccountCells(accountConfiguration(key), INITIAL_ASSET)

\* Nothing has stood in the way of the spend so far.
DemoInv ==
  DemoLive =>
    /\ index = live
    /\ page.step = "asset" => page.asset \in live /\ page.asset.out = AssetOut
    /\ page.step = "blocked" => page.why \in {"key", "assertion"}

\* The sizes the capacity rules turn on: with the code's numbers 20 <= 59 and a
\* transaction of under 4 kB against 26 * 10^8.
SmallSpend ==
  /\ FunderArgsBytes <= 59
  /\ RawTxBytes + maximumWitness <= 26 * SHANNONS_PER_CKB

\* The server's asset pays for the transfer, the fee and a change cell.
LEMMA InitialAssetSuffices ==
  ASSUME SmallSpend
  PROVE  CapacitySuffices(INITIAL_ASSET * SHANNONS_PER_CKB)
<1> DEFINE S == SHANNONS_PER_CKB
           F == FunderArgsBytes
           fee == estimateFee(maximumWitness)
<1>1. S \in Nat /\ S > 0 /\ F \in Nat /\ F <= 59 /\ RawTxBytes \in Nat /\ maximumWitness \in Nat
  BY SpendConstants, ReservationNatural DEF SmallSpend
<1>2. fee = RawTxBytes + maximumWitness
  BY <1>1 DEF estimateFee, FEE_RATE
<1>3. fee \in Nat /\ fee <= 26 * S
  BY <1>1, <1>2 DEF SmallSpend
<1> HIDE DEF S, F, fee
<1>4. TRANSFER_CAPACITY = 100 * S /\ AccountCellCapacity = 74 * S
  BY <1>1 DEF TRANSFER_CAPACITY, AccountCellCapacity, cellCapacityShannons, S
<1>5. FunderCellCapacity = (41 + F) * S
  BY <1>1 DEF FunderCellCapacity, cellCapacityShannons, S, F
<1>6. (41 + F) * S <= 100 * S
  BY <1>1
<1>7. PICK cap : cap = 200 * S
  OBVIOUS
<1>8. Change(cap) = cap - 100 * S - fee
  BY <1>4 DEF Change, fee
<1>9. /\ cap > 100 * S /\ cap > 100 * S + fee /\ cap - 100 * S - fee >= 74 * S
  BY <1>1, <1>3, <1>7
<1>10. CapacitySuffices(cap)
  <2>1. TRANSFER_CAPACITY >= FunderCellCapacity
    BY <1>1, <1>4, <1>5, <1>6
  <2> QED
    BY <1>4, <1>8, <1>9, <2>1 DEF CapacitySuffices, fee
<1> QED
  BY <1>7, <1>10 DEF INITIAL_ASSET, S

\* The two cells of such an account, and the client's view of its state.
LEMMA DemoCells ==
  ASSUME NEW cells, NEW key, cells = AccountCells(accountConfiguration(key), INITIAL_ASSET)
  PROVE  \E s, a : /\ cells = {s, a} /\ s.out = StateOut /\ parseAccountState(s.data)
                   /\ a.out = AssetOut /\ a.kind = "asset"
                   /\ a.capacity = INITIAL_ASSET * SHANNONS_PER_CKB
<1>2. PICK data : data = AccountState(DemoProfile(key, 0))
  OBVIOUS
<1>3. parseAccountState(data)
  BY <1>2 DEF AccountState, DemoProfile, parseAccountState
<1>4. PICK s : s = Cell(StateOut, "state", AccountCellCapacity, data)
  OBVIOUS
<1>5. PICK a : a = Cell(AssetOut, "asset", INITIAL_ASSET * SHANNONS_PER_CKB, NoData)
  OBVIOUS
<1>6. cells = {s, a}
  BY <1>2, <1>4, <1>5 DEF AccountCells, accountConfiguration
<1>7. s.out = StateOut /\ s.data = data
  BY <1>4 DEF Cell
<1>8. /\ a.out = AssetOut /\ a.kind = "asset"
      /\ a.capacity = INITIAL_ASSET * SHANNONS_PER_CKB
  BY <1>5 DEF Cell
<1> QED
  BY <1>3, <1>6, <1>7, <1>8

\* Who touches the account leaves a new cell.
LEMMA TouchedForGood ==
  ASSUME CellsInv, DemoLive',
         \/ SubmitSpend /\ CellsResolve /\ LockAccepts
         \/ Rotate \/ SpendElsewhere \/ \E kind \in {"asset", "token"} : Deposit(kind)
  PROVE  FALSE
<1>1. PICK c \in live' : c.out >= 2
  BY LiveChanges
<1>2. PICK key : live' = AccountCells(accountConfiguration(key), INITIAL_ASSET)
  BY DEF DemoLive
<1>3. PICK s, a : live' = {s, a} /\ s.out = StateOut /\ a.out = AssetOut
  BY <1>2, DemoCells
<1> QED
  BY <1>1, <1>3 DEF StateOut, AssetOut


LEMMA DiscoveryKeepsDemo ==
  ASSUME DemoInv, ReadState \/ ScanAssets
  PROVE  DemoInv'
<1>1. live' = live /\ index' = index
  BY DEF ReadState, ScanAssets
<1> SUFFICES ASSUME DemoLive
             PROVE  /\ page'.step = "asset" => page'.asset \in live /\ page'.asset.out = AssetOut
                    /\ page'.step # "blocked"
  BY <1>1 DEF DemoInv, DemoLive
<1>2. PICK key : live = AccountCells(accountConfiguration(key), INITIAL_ASSET)
  BY DEF DemoLive
<1>3. PICK s, a : /\ live = {s, a} /\ s.out = StateOut /\ parseAccountState(s.data)
                  /\ a.out = AssetOut /\ a.kind = "asset"
  BY <1>2, DemoCells
<1>4. CASE ReadState
  <2>1. s \in {c \in live : c.out = StateOut /\ parseAccountState(c.data)}
    BY <1>3
  <2> HIDE DEF parseAccountState
  <2>2. page'.step = "scan"
    BY <1>4, <2>1 DEF ReadState
  <2> QED
    BY <2>2
<1>5. CASE ScanAssets
  <2>1. index = live
    BY DEF DemoInv
  <2>2. {c \in index : c.out # StateOut} = {a}
    BY <1>3, <2>1 DEF StateOut, AssetOut
  <2>3. Cardinality({a}) = 1
    BY FS_Singleton
  <2>4. (CHOOSE c \in {a} : TRUE) = a
    OBVIOUS
  <2>5. page' = [step |-> "asset", state |-> page.state, asset |-> a]
    BY <1>3, <1>5, <2>2, <2>3, <2>4 DEF ScanAssets
  <2> QED
    BY <1>3, <2>5
<1> QED
  BY <1>4, <1>5

LEMMA PrepareKeepsDemo ==
  ASSUME SmallSpend, DemoInv, NEW key \in Keys, PrepareSpend(key)
  PROVE  DemoInv'
<1>1. live' = live /\ index' = index
  BY DEF PrepareSpend
<1> SUFFICES ASSUME DemoLive
             PROVE  /\ page'.step # "asset"
                    /\ page'.step = "blocked" => page'.why \in {"key", "assertion"}
  BY <1>1 DEF DemoInv, DemoLive
<1>2. PICK k : live = AccountCells(accountConfiguration(k), INITIAL_ASSET)
  BY DEF DemoLive
<1>3. PICK s, a : /\ live = {s, a} /\ s.out = StateOut /\ a.out = AssetOut
                  /\ a.capacity = INITIAL_ASSET * SHANNONS_PER_CKB
  BY <1>2, DemoCells
<1>4. page.asset \in live /\ page.asset.out = AssetOut
  BY DEF DemoInv, PrepareSpend
<1>5. page.asset = a
  BY <1>3, <1>4 DEF StateOut, AssetOut
<1>6. CapacitySuffices(page.asset.capacity)
  BY <1>3, <1>5, InitialAssetSuffices
<1>7. CASE page.state.data.authenticators[1].key_id # key
  <2>1. page' = [step |-> "blocked", why |-> "key"]
    BY <1>4, <1>7 DEF PrepareSpend, Blocked
  <2> QED
    BY <2>1
<1>8. CASE page.state.data.authenticators[1].key_id = key
  <2>1. page'.step = "review"
    BY <1>4, <1>6, <1>8 DEF PrepareSpend
  <2> QED
    BY <2>1
<1> QED
  BY <1>7, <1>8

LEMMA AssertionKeepsDemo ==
  ASSUME DemoInv, NEW a, NEW c, NEW s, Assertion(a, c, s)
  PROVE  DemoInv'
<1>1. live' = live /\ index' = index
  BY DEF Assertion
<1>2. \/ page' = [step |-> "blocked", why |-> "assertion"]
      \/ page' = [step |-> "over reservation"]
      \/ \E t, i, w : page' = [step |-> "final", key |-> page.key, state |-> page.state,
                              capacity |-> page.capacity, change |-> page.change,
                              tx |-> t, intent |-> i, witness |-> w]
  BY Zenon DEF Assertion, Blocked
<1>3. page'.step # "asset" /\ (page'.step = "blocked" => page'.why = "assertion")
  <2>1. CASE page' = [step |-> "blocked", why |-> "assertion"]
    BY <2>1
  <2>2. CASE page' = [step |-> "over reservation"]
    BY <2>2
  <2>3. CASE \E t, i, w : page' = [step |-> "final", key |-> page.key, state |-> page.state,
                                  capacity |-> page.capacity, change |-> page.change,
                                  tx |-> t, intent |-> i, witness |-> w]
    BY <2>3
  <2> QED
    BY <1>2, <2>1, <2>2, <2>3
<1> QED
  BY <1>1, <1>3 DEF DemoInv, DemoLive

LEMMA SubmitKeepsDemo ==
  ASSUME AcceptInv, DemoInv, SubmitSpend
  PROVE  DemoInv'
<1>1. SUFFICES ASSUME DemoLive' PROVE FALSE
  BY DEF DemoInv
<1>2. ~(CellsResolve /\ LockAccepts)
  BY <1>1, TouchedForGood DEF AcceptInv
<1>3. live' = live /\ page.step = "final"
  BY <1>2 DEF SubmitSpend
<1>4. PICK key : live = AccountCells(accountConfiguration(key), INITIAL_ASSET)
  BY <1>1, <1>3 DEF DemoLive
<1>5. PICK s, a : live = {s, a} /\ s.out = StateOut /\ a.out = AssetOut
  BY <1>4, DemoCells
<1>6. page.tx.inputs = {AssetOut} /\ page.tx.deps = {StateOut}
  <2>1. /\ page.tx = [SpendTx(page.state, page.capacity) EXCEPT !.rest.lock = "proof"]
        /\ page.state.out = StateOut
    BY <1>3 DEF AcceptInv, PageInv, Original
  <2> QED
    BY <2>1 DEF SpendTx
<1>7. CellsResolve
  BY <1>5, <1>6 DEF CellsResolve
<1> QED
  BY <1>2, <1>3, <1>7, FinalIsAccepted

LEMMA NextDemoInv ==
  ASSUME SmallSpend, AcceptInv, DemoInv, [Next]_vars
  PROVE  DemoInv'
<1>1. CASE ReadState \/ ScanAssets
  BY <1>1, DiscoveryKeepsDemo
<1>2. CASE \E key \in Keys : PrepareSpend(key)
  BY <1>2, PrepareKeepsDemo
<1>3. CASE \E a \in AuthenticatorDataSizes, c \in ClientDataSizes, s \in SignatureSizes :
             Assertion(a, c, s)
  BY <1>3, AssertionKeepsDemo
<1>4. CASE SubmitSpend
  BY <1>4, SubmitKeepsDemo
<1>5. CASE Rotate \/ SpendElsewhere \/ \E kind \in {"asset", "token"} : Deposit(kind)
  BY <1>5, TouchedForGood DEF AcceptInv, DemoInv
<1>6. CASE IndexerCatchesUp
  BY <1>6 DEF IndexerCatchesUp, DemoInv, DemoLive
<1>7. CASE UNCHANGED vars
  BY <1>7 DEF vars, DemoInv, DemoLive
<1> QED
  BY <1>1, <1>2, <1>3, <1>4, <1>5, <1>6, <1>7 DEF Next

\* An account the server created can be spent from as long as nobody else has touched
\* its cells: no check of the client on the state, the cells or the capacity stops the
\* spend, and no node refuses it; only another passkey or an assertion beyond the
\* client's bounds does.
THEOREM DemoAccountIsSpendable ==
  ASSUME SmallSpend
  PROVE  Spec => []DemoAccountSpendable
<1>1. Init => DemoInv
  BY DEF Init, DemoInv
<1>2. AcceptInv /\ DemoInv /\ [Next]_vars => DemoInv'
  BY NextDemoInv
<1>3. DemoInv => DemoAccountSpendable
  BY DEF DemoInv, DemoLive, DemoAccountSpendable
<1> QED
  BY <1>1, <1>2, <1>3, AcceptInvariant, PTL DEF Spec
=============================================================================
