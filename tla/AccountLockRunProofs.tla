------------------------ MODULE AccountLockRunProofs ------------------------
(***************************************************************************)
(* run() implements its promise, for every execution of every witness,     *)
(* transaction and state: what AccountLockRun checks step by step is what  *)
(* AccountLockPromise describes at once.                                   *)
(*                                                                         *)
(* The invariant says what has been established when run() stands before a *)
(* check; each check's errors are empty exactly when the next conjunct of  *)
(* the promise holds.  The proofs are the hard part: the loop compares     *)
(* neighbouring slots and adds weights as it goes, the promise speaks of a *)
(* set of authenticators and the sum over it.  The facts about sums and    *)
(* about increasing slots are proved by looking at a least counterexample, *)
(* which LeastNumber provides.                                             *)
(***************************************************************************)
EXTENDS AccountLockRun, FiniteSetTheorems, WellFoundedInduction, TLAPS

(***************************************************************************)
(* Sums of weights.                                                        *)
(***************************************************************************)
LEMMA LeastNumber ==
  ASSUME NEW T, T \subseteq Nat, T # {}
  PROVE  \E n \in T : \A m \in T : n <= m
<1>1. PICK n \in T : \A m \in T : ~(<<m, n>> \in OpToRel(<, Nat))
  BY NatLessThanWellFounded, WFMin
<1>2. \A m \in T : ~(m < n)
  BY <1>1 DEF OpToRel
<1> QED
  BY <1>2

First(s) == CHOOSE x \in s : TRUE

LEMMA FirstIn == ASSUME NEW s, s # {} PROVE First(s) \in s
BY DEF First

SumsOn(g, F, w) ==
  g = [s \in F |-> IF s = {} THEN 0
                   ELSE w[First(s)].weight + g[s \ {First(s)}]]

Sums(g, S, w) == SumsOn(g, SUBSET S, w)

AddsUp(g, S, w) ==
  \A s \in SUBSET S : \A i \in S \ s : g[s \cup {i}] = w[i].weight + g[s]
Weighted(w, S) == \A x \in S : w[x].weight \in Nat

LEMMA WeightUnfold ==
  ASSUME NEW S, NEW w, \E g : Sums(g, S, w)
  PROVE  \E g : Sums(g, S, w) /\ WeightOf(w, S) = g[S]
BY DEF Sums, SumsOn, First, WeightOf, MapThenSumSet, MapThenFoldSet

\* The sums exist for every finite set: up to each size one after the other.
LEMMA SumsExist ==
  ASSUME NEW S, IsFiniteSet(S), NEW w
  PROVE  \E g : Sums(g, S, w)
<1> DEFINE Small(n) == {s \in SUBSET S : Cardinality(s) <= n}
           Missing == {n \in Nat : ~\E g : SumsOn(g, Small(n), w)}
<1>1. \A s \in SUBSET S : IsFiniteSet(s) /\ Cardinality(s) \in Nat /\ Cardinality(s) <= Cardinality(S)
  BY FS_Subset, FS_CardinalityType
<1>2. Missing = {}
  <2>1. SUFFICES ASSUME Missing # {} PROVE FALSE
    OBVIOUS
  <2>2. PICK n \in Missing : \A m \in Missing : n <= m
    BY <2>1, LeastNumber
  <2>3. n \in Nat /\ ~\E g : SumsOn(g, Small(n), w)
    OBVIOUS
  <2>4. CASE n = 0
    <3>1. \A s \in Small(0) : s = {}
      BY <1>1, FS_EmptySet
    <3>2. SumsOn([s \in Small(0) |-> 0], Small(0), w)
      BY <3>1 DEF SumsOn
    <3> QED
      BY <2>3, <2>4, <3>2
  <2>5. CASE n # 0
    <3>1. n - 1 \in Nat /\ ~(n <= n - 1)
      BY <2>3, <2>5
    <3>2. n - 1 \notin Missing
      BY <2>2, <3>1
    <3>3. PICK g : SumsOn(g, Small(n - 1), w)
      BY <3>1, <3>2
    <3>h. PICK h : h = [s \in Small(n) |-> IF s = {} THEN 0
                       ELSE w[First(s)].weight + g[s \ {First(s)}]]
      OBVIOUS
    <3>4. \A s \in Small(n - 1) : s \in Small(n)
      BY <1>1, <2>3
    <3>5. \A s \in Small(n - 1) : h[s] = g[s]
      BY <3>h, <3>3, <3>4 DEF SumsOn
    <3>6. ASSUME NEW s \in Small(n), s # {}, NEW x \in s PROVE s \ {x} \in Small(n - 1)
      <4>1. Cardinality(s \ {x}) = Cardinality(s) - 1
        BY <1>1, <3>6, FS_RemoveElement
      <4> QED
        BY <1>1, <2>3, <4>1
    <3> HIDE DEF Small
    <3>7. ASSUME NEW s \in Small(n), s # {}
          PROVE  h[s \ {First(s)}] = g[s \ {First(s)}]
      BY <3>5, <3>6, <3>7, FirstIn
    <3>8. SumsOn(h, Small(n), w)
      BY <3>h, <3>7 DEF SumsOn
    <3> QED
      BY <2>3, <3>8
  <2> QED
    BY <2>4, <2>5
<1>3. Cardinality(S) \in Nat
  BY FS_CardinalityType
<1>4. PICK g : SumsOn(g, Small(Cardinality(S)), w)
  BY <1>2, <1>3
<1>5. Small(Cardinality(S)) = SUBSET S
  BY <1>1
<1> QED
  BY <1>4, <1>5 DEF Sums

LEMMA MinimalSubset ==
  ASSUME NEW S, IsFiniteSet(S), NEW T, T \subseteq SUBSET S, T # {}
  PROVE  \E s \in T : \A u \in T : u \subseteq s => u = s
<1> DEFINE Sizes == {Cardinality(s) : s \in T}
<1>1. \A s \in T : IsFiniteSet(s) /\ Cardinality(s) \in Nat
  BY FS_Subset, FS_CardinalityType
<1>2. Sizes \subseteq Nat /\ Sizes # {}
  BY <1>1
<1>3. PICK n \in Sizes : \A m \in Sizes : n <= m
  BY <1>2, LeastNumber
<1>4. PICK s \in T : n = Cardinality(s)
  OBVIOUS
<1>5. ASSUME NEW u \in T, u \subseteq s PROVE u = s
  <2>1. Cardinality(s) <= Cardinality(u)
    BY <1>3, <1>4
  <2>2. u \in SUBSET s /\ IsFiniteSet(s)
    BY <1>1, <1>5
  <2>3. Cardinality(u) <= Cardinality(s) /\ (Cardinality(s) = Cardinality(u) => s = u)
    BY <2>2, FS_Subset
  <2>4. Cardinality(s) \in Nat /\ Cardinality(u) \in Nat
    BY <1>1
  <2> QED
    BY <2>1, <2>3, <2>4
<1> QED
  BY <1>5

LEMMA SumsTyped ==
  ASSUME NEW S, IsFiniteSet(S), NEW w, Weighted(w, S),
         NEW g, Sums(g, S, w)
  PROVE  \A s \in SUBSET S : g[s] \in Nat
<1> DEFINE Bad == {s \in SUBSET S : g[s] \notin Nat}
<1>1. SUFFICES ASSUME Bad # {} PROVE FALSE
  OBVIOUS
<1>0. Bad \subseteq SUBSET S
  OBVIOUS
<1>2. PICK s \in Bad : \A u \in Bad : u \subseteq s => u = s
  <2> HIDE DEF Bad
  <2> QED
    BY <1>0, <1>1, MinimalSubset
<1>3. s \in SUBSET S /\ g[s] \notin Nat
  OBVIOUS
<1>4. s # {}
  BY <1>3 DEF Sums, SumsOn
<1>5. g[s] = w[First(s)].weight + g[s \ {First(s)}] /\ First(s) \in s
  BY <1>3, <1>4, FirstIn DEF Sums, SumsOn
<1>6. g[s \ {First(s)}] \in Nat
  BY <1>2, <1>3, <1>5
<1>7. w[First(s)].weight \in Nat
  BY <1>3, <1>5 DEF Weighted
<1> QED
  BY <1>3, <1>5, <1>6, <1>7

\* The order in which a fold picks its elements makes no difference to a sum.
LEMMA SumsAdd ==
  ASSUME NEW S, IsFiniteSet(S), NEW w, Weighted(w, S),
         NEW g, Sums(g, S, w)
  PROVE  AddsUp(g, S, w)
<1> DEFINE Bad == {s \in SUBSET S : ~\A i \in S \ s : g[s \cup {i}] = w[i].weight + g[s]}
<1>1. SUFFICES ASSUME Bad # {} PROVE FALSE
  BY DEF AddsUp
<1>0. Bad \subseteq SUBSET S
  OBVIOUS
<1>2. PICK s \in Bad : \A u \in Bad : u \subseteq s => u = s
  <2> HIDE DEF Bad
  <2> QED
    BY <1>0, <1>1, MinimalSubset
<1>3. s \in SUBSET S
  OBVIOUS
<1>4. PICK i \in S \ s : g[s \cup {i}] # w[i].weight + g[s]
  OBVIOUS
<1>5. \A u \in SUBSET S : u \subseteq s /\ u # s =>
        \A k \in S \ u : g[u \cup {k}] = w[k].weight + g[u]
  BY <1>2
<1> HIDE DEF Bad
<1> DEFINE x == First(s \cup {i})
<1>6. x \in s \cup {i}
  BY FirstIn
<1>7. g[s \cup {i}] = w[x].weight + g[(s \cup {i}) \ {x}]
  BY <1>3, <1>4 DEF Sums, SumsOn
<1> HIDE DEF x
<1>8. CASE x = i
  <2>1. (s \cup {i}) \ {x} = s
    BY <1>4, <1>8
  <2> QED
    BY <1>4, <1>7, <1>8, <2>1
<1>9. CASE x # i
  <2> DEFINE u == s \ {x}
  <2>1. u \in SUBSET S /\ u \subseteq s /\ u # s /\ x \in S \ u /\ i \in S \ u
    BY <1>3, <1>4, <1>6, <1>9
  <2>2. (s \cup {i}) \ {x} = u \cup {i} /\ u \cup {x} = s
    BY <1>4, <1>6, <1>9
  <2>3. g[u \cup {i}] = w[i].weight + g[u] /\ g[u \cup {x}] = w[x].weight + g[u]
    BY <1>5, <2>1
  <2>4. g[u] \in Nat /\ w[i].weight \in Nat /\ w[x].weight \in Nat
    BY <2>1, SumsTyped DEF Weighted
  <2> HIDE DEF u
  <2>5. g[s] = w[x].weight + g[u] /\ g[s \cup {i}] = w[x].weight + (w[i].weight + g[u])
    BY <1>7, <2>2, <2>3
  <2> QED
    BY <1>4, <2>4, <2>5
<1> QED
  BY <1>8, <1>9

\* Sums over a set and over a larger one agree on what they have in common.
LEMMA SumsAgree ==
  ASSUME NEW S, IsFiniteSet(S), NEW R, R \subseteq S, NEW w,
         NEW g, Sums(g, S, w), NEW h, Sums(h, R, w)
  PROVE  g[R] = h[R]
<1> DEFINE Bad == {s \in SUBSET R : g[s] # h[s]}
<1>1. SUFFICES ASSUME Bad # {} PROVE FALSE
  OBVIOUS
<1>2. IsFiniteSet(R)
  BY FS_Subset
<1>0. Bad \subseteq SUBSET R
  OBVIOUS
<1>3. PICK s \in Bad : \A u \in Bad : u \subseteq s => u = s
  <2> HIDE DEF Bad
  <2> QED
    BY <1>0, <1>1, <1>2, MinimalSubset
<1>4. s \in SUBSET R /\ s \in SUBSET S /\ g[s] # h[s]
  OBVIOUS
<1>5. s # {}
  BY <1>4 DEF Sums, SumsOn
<1>6. First(s) \in s
  BY <1>5, FirstIn
<1>7. g[s \ {First(s)}] = h[s \ {First(s)}]
  BY <1>3, <1>4, <1>6
<1> QED
  BY <1>4, <1>5, <1>7 DEF Sums, SumsOn

LEMMA WeightFacts ==
  ASSUME NEW w, NEW I, IsFiniteSet(I), \A x \in I : w[x].weight \in Nat
  PROVE  WeightOf(w, I) \in Nat /\ (I = {} => WeightOf(w, I) = 0)
<1>1. PICK g : Sums(g, I, w) /\ WeightOf(w, I) = g[I]
  BY SumsExist, WeightUnfold
<1>2. g[I] \in Nat
  BY <1>1, SumsTyped DEF Weighted
<1>3. I = {} => g[I] = 0
  BY <1>1 DEF Sums, SumsOn
<1> QED
  BY <1>1, <1>2, <1>3

\* One more authenticator adds its weight.
LEMMA WeightAdds ==
  ASSUME NEW w, NEW I, IsFiniteSet(I), NEW i, i \notin I,
         \A x \in I \cup {i} : w[x].weight \in Nat
  PROVE  WeightOf(w, I \cup {i}) = w[i].weight + WeightOf(w, I)
<1>1. PICK J : J = I \cup {i}
  OBVIOUS
<1>2. IsFiniteSet(J) /\ I \subseteq J /\ i \in J \ I /\ \A x \in J : w[x].weight \in Nat
  BY <1>1, FS_AddElement
<1>3. PICK g : Sums(g, J, w) /\ WeightOf(w, J) = g[J]
  BY <1>2, SumsExist, WeightUnfold
<1>4. PICK h : Sums(h, I, w) /\ WeightOf(w, I) = h[I]
  BY SumsExist, WeightUnfold
<1>5. g[I] = h[I]
  BY <1>2, <1>3, <1>4, SumsAgree
<1>6. AddsUp(g, J, w)
  BY <1>2, <1>3, SumsAdd DEF Weighted
<1>7. g[J] = w[i].weight + g[I]
  BY <1>1, <1>2, <1>6 DEF AddsUp
<1> QED
  BY <1>1, <1>3, <1>4, <1>5, <1>7

(***************************************************************************)
(* The promise in the words of the lock itself.                            *)
(***************************************************************************)
LEMMA PromiseWeight ==
  ASSUME NEW a, NEW I
  PROVE  Promise!WeightOf(a, I) = WeightOf(a, I)
BY DEF Promise!WeightOf, WeightOf, Promise!MapThenSumSet, MapThenSumSet,
       Promise!MapThenFoldSet, MapThenFoldSet

LEMMA PromiseState ==
  ASSUME NEW s
  PROVE  Promise!validate_state(s) <=> validate_state(s)
<1>1. \A e : /\ Promise!EntryParses(e) <=> EntryParses(e)
             /\ Promise!EntrySupported(e) <=> EntrySupported(e)
  BY DEF Promise!EntryParses, EntryParses, Promise!EntrySupported, EntrySupported,
         Promise!KnownCapabilities, KnownCapabilities, Promise!VERIFIER_ABI_V1, VERIFIER_ABI_V1,
         Promise!SupportedAlgorithms, SupportedAlgorithms,
         Promise!CAP_SPEND, CAP_SPEND, Promise!CAP_ROTATE, CAP_ROTATE,
         Promise!CAP_RECOVERY, CAP_RECOVERY, Promise!CAP_SESSION, CAP_SESSION
<1>2. \A a, c : Promise!CapabilityWeight(a, c) = CapabilityWeight(a, c)
  BY PromiseWeight
  DEF Promise!CapabilityWeight, CapabilityWeight, Promise!WithCapability, WithCapability
<1>3. Promise!SpendAndRotateSatisfiable(s) <=> SpendAndRotateSatisfiable(s)
  BY <1>2 DEF Promise!SpendAndRotateSatisfiable, SpendAndRotateSatisfiable,
              Promise!CAP_SPEND, CAP_SPEND, Promise!CAP_ROTATE, CAP_ROTATE
<1>4. Promise!RecoveryConsistent(s) <=> RecoveryConsistent(s)
  BY <1>2 DEF Promise!RecoveryConsistent, RecoveryConsistent,
              Promise!CAP_RECOVERY, CAP_RECOVERY
<1>5. Promise!StateHeaderParses(s) <=> StateHeaderParses(s)
  BY DEF Promise!StateHeaderParses, StateHeaderParses
<1>6. Promise!SlotsStrictlyIncreasing(s.authenticators) <=> SlotsStrictlyIncreasing(s.authenticators)
  BY DEF Promise!SlotsStrictlyIncreasing, SlotsStrictlyIncreasing
<1> QED
  BY <1>1, <1>3, <1>4, <1>5, <1>6 DEF Promise!validate_state, validate_state

LEMMA PromiseOperations ==
  /\ Promise!OP_SPEND = OP_SPEND /\ Promise!OP_ROTATE = OP_ROTATE
  /\ Promise!OP_RECOVERY = OP_RECOVERY
  /\ \A op \in Operations : Promise!capability_for_operation(op) = capability_for_operation(op)
  /\ \A op \in Operations : \A s :
       Promise!threshold_for_operation(op, s) = threshold_for_operation(op, s)
BY DEF Promise!OP_SPEND, OP_SPEND, Promise!OP_ROTATE, OP_ROTATE, Promise!OP_RECOVERY, OP_RECOVERY,
       Promise!capability_for_operation, capability_for_operation,
       Promise!threshold_for_operation, threshold_for_operation, Operations,
       Promise!CAP_SPEND, CAP_SPEND, Promise!CAP_ROTATE, CAP_ROTATE,
       Promise!CAP_RECOVERY, CAP_RECOVERY

LEMMA PromiseStateAdmits ==
  ASSUME NEW op, NEW q, NEW tx, NEW states, NEW c
  PROVE  Promise!StateAdmits(op, q, tx, states, c) <=> StateAdmits(op, q, tx, states, c)
<1>1. /\ Promise!MatchingInputs(tx, states) = MatchingInputs(tx, states)
      /\ Promise!MatchingDeps(tx, states) = MatchingDeps(tx, states)
  BY DEF Promise!MatchingInputs, MatchingInputs, Promise!MatchingDeps, MatchingDeps
<1>2. /\ Promise!ResolvesSpend(tx, states, c) <=> ResolvesSpend(tx, states, c)
      /\ Promise!ResolvesTransition(tx, states, c) <=> ResolvesTransition(tx, states, c)
  BY <1>1 DEF Promise!ResolvesSpend, ResolvesSpend, Promise!ResolvesTransition, ResolvesTransition
<1>3. Promise!resolve_state(op, tx, states, c) <=> resolve_state(op, tx, states, c)
  BY <1>2, PromiseOperations DEF Promise!resolve_state, resolve_state
<1>4. \A n : Promise!SuccessorFollows(c.data, n) <=> SuccessorFollows(c.data, n)
  BY PromiseState DEF Promise!SuccessorFollows, SuccessorFollows
<1>5. Promise!RecoveryUnlocked(c.data, tx.since) <=> RecoveryUnlocked(c.data, tx.since)
  BY DEF Promise!RecoveryUnlocked, RecoveryUnlocked, Promise!RawSince, RawSince,
     Promise!SinceKind, SinceKind
<1>6. Promise!validate_transition(op, tx, c.data) <=> validate_transition(op, tx, c.data)
  BY <1>4, <1>5, PromiseOperations DEF Promise!validate_transition, validate_transition
<1> QED
  BY <1>3, <1>6, PromiseState DEF Promise!StateAdmits, StateAdmits

LEMMA PromiseProofs ==
  ASSUME NEW op \in Operations, NEW tx, NEW proofs, NEW s, NEW signed
  PROVE  Promise!ProofsSuffice(op, tx, proofs, s, signed) <=> ProofsSuffice(op, tx, proofs, s, signed)
<1>1. \A e : /\ Promise!resolve_verifier(e, tx) <=> resolve_verifier(e, tx)
             /\ Promise!encode_request(e) <=> encode_request(e)
  BY DEF Promise!resolve_verifier, resolve_verifier, Promise!encode_request, encode_request
<1>2. Promise!ProofsAdmissible(op, tx, proofs, s) <=> ProofsAdmissible(op, tx, proofs, s)
  BY <1>1, PromiseOperations DEF Promise!ProofsAdmissible, ProofsAdmissible
<1>3. \A o, a, t, x : Promise!authorization_digest(o, a, t, x) = authorization_digest(o, a, t, x)
  BY DEF Promise!authorization_digest, authorization_digest,
         Promise!canonical_group_sighash, canonical_group_sighash
<1>4. \A e, sig, d :
        Promise!VerifierAccepts(e, sig, d, signed) <=> VerifierAccepts(e, sig, d, signed)
  BY <1>3 DEF Promise!VerifierAccepts, VerifierAccepts, Promise!SignedDigest, SignedDigest
<1>5. Promise!VerifiedAuthenticators(op, tx, proofs, s, signed)
        = VerifiedAuthenticators(op, tx, proofs, s, signed)
  BY <1>3, <1>4 DEF Promise!VerifiedAuthenticators, VerifiedAuthenticators
<1>6. Promise!ThresholdReached(op, tx, proofs, s, signed)
        <=> ThresholdReached(op, tx, proofs, s, signed)
  BY <1>5, PromiseOperations, PromiseWeight DEF Promise!ThresholdReached, ThresholdReached
<1> QED
  BY <1>2, <1>6 DEF Promise!ProofsSuffice, ProofsSuffice

Sigs(t) == Promise!ProofsBySlot(t.witness.proofs)

\* What the promise accepts, with the lock's own operators.
LEMMA AcceptableIs ==
  ASSUME NEW t \in Cases
  PROVE  Promise!Acceptable(t) <=>
           /\ t.args = "parsed"
           /\ Promise!WitnessWellFormed(t.witness)
           /\ \E c \in t.states :
                /\ StateAdmits(t.witness.operation, t.witness.state_sequence, t.tx, t.states, c)
                /\ ProofsSuffice(t.witness.operation, t.tx, Sigs(t), c.data, t.signed)
<1> DEFINE w == [operation      |-> t.witness.operation,
                 state_sequence |-> t.witness.state_sequence,
                 proofs         |-> Promise!ProofsBySlot(t.witness.proofs)]
<1>1. /\ w.operation = t.witness.operation /\ w.state_sequence = t.witness.state_sequence
      /\ w.proofs = Sigs(t)
  BY DEF Sigs
<1>2. t.witness.operation \in Operations
  BY CasesTyped
<1>3. \A c : Promise!Accepts(t.tx, w, t.states, c, t.signed) <=>
         /\ StateAdmits(t.witness.operation, t.witness.state_sequence, t.tx, t.states, c)
         /\ ProofsSuffice(t.witness.operation, t.tx, Sigs(t), c.data, t.signed)
  <2> HIDE DEF w
  <2> QED
    BY <1>1, <1>2, PromiseStateAdmits, PromiseProofs DEF Promise!Accepts
<1>4. Promise!Acceptable(t) <=>
        /\ t.args = "parsed"
        /\ Promise!WitnessWellFormed(t.witness)
        /\ \E c \in t.states : Promise!Accepts(t.tx, w, t.states, c, t.signed)
  BY DEF Promise!Acceptable
<1> HIDE DEF w
<1> QED
  BY <1>3, <1>4

(***************************************************************************)
(* A check's errors are empty exactly when what it checks holds.           *)
(***************************************************************************)
LEMMA OrEmpty ==
  ASSUME NEW a, NEW b
  PROVE  (Or(a, b) = {}) <=> (a = {} /\ b = {})
BY DEF Or

LEMMA OrWithin ==
  ASSUME NEW a, NEW b, NEW E, a \subseteq E, b \subseteq E
  PROVE  Or(a, b) \subseteq E
BY DEF Or

LEMMA LessTransitive ==
  ASSUME NEW x \in Nat, NEW y \in Nat, NEW z \in Nat, x < y, y < z
  PROVE  x < z
OBVIOUS

\* Comparing each slot with the one before it is enough to have them increase.
LEMMA NeighboursIncrease ==
  ASSUME NEW a, NEW n \in Nat, n <= Len(a), Listed(a), \A i \in DOMAIN a : a[i].slot \in Nat,
         \A i \in 2..n : a[i - 1].slot < a[i].slot
  PROVE  \A i, j \in 1..n : i < j => a[i].slot < a[j].slot
<1> DEFINE Bad == {j \in 1..n : \E i \in 1..n : i < j /\ ~(a[i].slot < a[j].slot)}
<1>1. SUFFICES ASSUME Bad # {} PROVE FALSE
  OBVIOUS
<1>2. Bad \subseteq Nat
  OBVIOUS
<1>3. PICK j \in Bad : \A k \in Bad : j <= k
  <2> HIDE DEF Bad
  <2> QED
    BY <1>1, <1>2, LeastNumber
<1>4. PICK i \in 1..n : i < j /\ ~(a[i].slot < a[j].slot)
  OBVIOUS
<1>5. j \in 2..n /\ j - 1 \in 1..n /\ Len(a) \in Nat
  BY <1>4 DEF Listed
<1>6. \A k \in 1..n : k \in DOMAIN a
  BY <1>5 DEF Listed
<1>7. a[i].slot \in Nat /\ a[j].slot \in Nat /\ a[j - 1].slot \in Nat
  BY <1>4, <1>5, <1>6
<1>8. a[j - 1].slot < a[j].slot
  BY <1>5
<1>9. i # j - 1
  BY <1>4, <1>8
<1>10. i < j - 1 /\ ~(j <= j - 1)
  BY <1>4, <1>5, <1>9
<1>11. j - 1 \notin Bad
  BY <1>3, <1>10
<1>12. a[i].slot < a[j - 1].slot
  BY <1>4, <1>5, <1>10, <1>11
<1>13. a[i].slot < a[j].slot
  BY ONLY <1>7, <1>8, <1>12, LessTransitive
<1> QED
  BY <1>4, <1>13

LEMMA EntryErrorsAre ==
  ASSUME NEW s, StateFields(s), NEW i \in DOMAIN s.authenticators
  PROVE  (EntryErrors(s.authenticators, i) = {}) <=>
           /\ i > 1 => s.authenticators[i - 1].slot < s.authenticators[i].slot
           /\ EntryParses(s.authenticators[i]) /\ EntrySupported(s.authenticators[i])
<1> DEFINE a == s.authenticators
<1>1. i \in Nat /\ a[i].slot \in Nat /\ a[i].verifier_hash_type \in Nat
  BY DEF StateFields, Listed
<1>2. i > 1 => a[i - 1].slot \in Nat
  BY DEF StateFields, Listed
<1>3. (i > 1 /\ a[i].slot <= a[i - 1].slot) <=> ~(i > 1 => a[i - 1].slot < a[i].slot)
  BY <1>1, <1>2
<1>4. a[i].verifier_hash_type > 1 <=> a[i].verifier_hash_type \notin {0, 1}
  BY <1>1
<1> HIDE DEF a
<1>5. (EntryErrors(a, i) = {}) <=>
        /\ ~(i > 1 /\ a[i].slot <= a[i - 1].slot)
        /\ ~(a[i].weight = 0 \/ ~(a[i].capabilities \subseteq KnownCapabilities))
        /\ ~(a[i].verifier_hash_type > 1 \/ a[i].verifier_abi # VERIFIER_ABI_V1)
        /\ ~(a[i].algorithm_id \notin SupportedAlgorithms)
        /\ ~(~a[i].key_id_sized \/ a[i].aux = "empty")
  BY DEF EntryErrors, Or, FailIf
<1>6. (EntryErrors(a, i) = {}) <=>
           /\ i > 1 => a[i - 1].slot < a[i].slot
           /\ EntryParses(a[i]) /\ EntrySupported(a[i])
  BY <1>3, <1>4, <1>5 DEF EntryParses, EntrySupported
<1> QED
  BY <1>6 DEF a

LEMMA CapabilityWeightTyped ==
  ASSUME NEW s, StateFields(s), NEW c
  PROVE  CapabilityWeight(s.authenticators, c) \in Nat
<1> DEFINE I == WithCapability(s.authenticators, c)
<1>1. I \subseteq 1..Len(s.authenticators) /\ Len(s.authenticators) \in Nat
  BY DEF WithCapability, StateFields, Listed
<1>2. IsFiniteSet(I)
  <2>1. IsFiniteSet(1..Len(s.authenticators))
    BY <1>1, FS_Interval
  <2> QED
    BY <1>1, <2>1, FS_Subset
<1>3. \A x \in I : s.authenticators[x].weight \in Nat
  BY DEF WithCapability, StateFields
<1> QED
  BY <1>2, <1>3, WeightFacts DEF CapabilityWeight

LEMMA ThresholdErrorsAre ==
  ASSUME NEW s, StateFields(s)
  PROVE  (ThresholdErrors(s) = {}) <=> SpendAndRotateSatisfiable(s) /\ RecoveryConsistent(s)
<1> DEFINE W(c) == CapabilityWeight(s.authenticators, c)
<1>1. \A c : W(c) \in Nat
  BY CapabilityWeightTyped
<1>2. /\ s.spend_threshold \in Nat /\ s.rotate_threshold \in Nat
      /\ s.recovery_threshold \in Nat /\ s.recovery_since \in Nat
  BY DEF StateFields
<1> HIDE DEF W
<1>3. /\ (s.spend_threshold > W(CAP_SPEND)) <=> ~(s.spend_threshold <= W(CAP_SPEND))
      /\ (s.rotate_threshold > W(CAP_ROTATE)) <=> ~(s.rotate_threshold <= W(CAP_ROTATE))
      /\ (s.recovery_threshold > W(CAP_RECOVERY)) <=> ~(s.recovery_threshold <= W(CAP_RECOVERY))
  BY <1>1, <1>2
<1>4. (ThresholdErrors(s) = {}) <=>
        /\ ~(\/ s.spend_threshold = 0 \/ s.rotate_threshold = 0
             \/ s.spend_threshold > W(CAP_SPEND) \/ s.rotate_threshold > W(CAP_ROTATE))
        /\ IF s.recovery_enabled
             THEN ~(s.recovery_threshold = 0 \/ s.recovery_threshold > W(CAP_RECOVERY))
             ELSE ~(s.recovery_threshold # 0 \/ s.recovery_since # 0)
  BY DEF ThresholdErrors, Or, FailIf, W
<1>5. SpendAndRotateSatisfiable(s) <=>
        /\ s.spend_threshold # 0 /\ s.rotate_threshold # 0
        /\ s.spend_threshold <= W(CAP_SPEND) /\ s.rotate_threshold <= W(CAP_ROTATE)
  BY DEF SpendAndRotateSatisfiable, W
<1>6. RecoveryConsistent(s) <=>
        IF s.recovery_enabled
          THEN s.recovery_threshold # 0 /\ s.recovery_threshold <= W(CAP_RECOVERY)
          ELSE s.recovery_threshold = 0 /\ s.recovery_since = 0
  BY DEF RecoveryConsistent, W
<1> QED
  BY <1>3, <1>4, <1>5, <1>6

\* validate_state finds no error in a state exactly when the state is valid.
LEMMA StateErrorsAre ==
  ASSUME NEW s, StateFields(s)
  PROVE  (StateErrors(s) = {}) <=> validate_state(s)
<1> DEFINE a == s.authenticators
           bad == {i \in DOMAIN a : EntryErrors(a, i) # {}}
           entry == IF bad = {} THEN {} ELSE EntryErrors(a, Min(bad))
<1>1. Len(a) \in Nat /\ DOMAIN a = 1..Len(a) /\ \A i \in DOMAIN a : a[i].slot \in Nat
  BY DEF StateFields, Listed
<1>2. (entry = {}) <=> (bad = {})
  <2>1. bad \subseteq Nat
    BY <1>1
  <2>2. bad # {} => Min(bad) \in bad
    <3> HIDE DEF bad
    <3>1. SUFFICES ASSUME bad # {} PROVE Min(bad) \in bad
      OBVIOUS
    <3>2. \E x \in bad : \A y \in bad : x <= y
      BY <2>1, <3>1, LeastNumber
    <3> QED
      BY <3>2 DEF Min
  <2> QED
    BY <2>2
<1>3. (bad = {}) <=> /\ SlotsStrictlyIncreasing(a)
                     /\ \A i \in DOMAIN a : EntryParses(a[i]) /\ EntrySupported(a[i])
  <2>1. ASSUME bad = {}
        PROVE  /\ SlotsStrictlyIncreasing(a)
               /\ \A i \in DOMAIN a : EntryParses(a[i]) /\ EntrySupported(a[i])
    <3>1. \A i \in DOMAIN a : EntryErrors(a, i) = {}
      BY <2>1
    <3>2. \A i \in DOMAIN a : /\ i > 1 => a[i - 1].slot < a[i].slot
                              /\ EntryParses(a[i]) /\ EntrySupported(a[i])
      BY <3>1, EntryErrorsAre
    <3>3. \A i \in 2..Len(a) : a[i - 1].slot < a[i].slot
      BY <1>1, <3>2
    <3>4. \A i, j \in 1..Len(a) : i < j => a[i].slot < a[j].slot
      <4>1. Len(a) <= Len(a) /\ Listed(a)
        BY <1>1 DEF Listed
      <4> HIDE DEF a
      <4> QED
        BY <1>1, <3>3, <4>1, NeighboursIncrease
    <3> QED
      BY <1>1, <3>2, <3>4 DEF SlotsStrictlyIncreasing
  <2>2. ASSUME SlotsStrictlyIncreasing(a),
               \A i \in DOMAIN a : EntryParses(a[i]) /\ EntrySupported(a[i]),
               NEW i \in DOMAIN a
        PROVE  EntryErrors(a, i) = {}
    <3>1. i > 1 => i - 1 \in DOMAIN a /\ i - 1 < i
      BY <1>1
    <3>2. i > 1 => a[i - 1].slot < a[i].slot
      BY <2>2, <3>1 DEF SlotsStrictlyIncreasing
    <3> QED
      BY <2>2, <3>2, EntryErrorsAre
  <2> QED
    BY <2>1, <2>2
<1>4. StateHeaderParses(s) <=> s.framed /\ ~(Len(a) = 0 \/ Len(a) > AUTHENTICATOR_MAX_COUNT)
  BY <1>1, ProtocolBounds DEF StateHeaderParses
<1>5. StateErrors(s) = Or(IF s.framed THEN {} ELSE {"InvalidState", "UnsupportedVersion"} \cup entry,
                       Or(FailIf(Len(a) = 0 \/ Len(a) > AUTHENTICATOR_MAX_COUNT, "InvalidState"),
                       Or(entry, ThresholdErrors(s))))
  BY DEF StateErrors
<1> HIDE DEF entry, bad
<1>6. (StateErrors(s) = {}) <=>
        /\ s.framed /\ ~(Len(a) = 0 \/ Len(a) > AUTHENTICATOR_MAX_COUNT)
        /\ entry = {} /\ ThresholdErrors(s) = {}
  BY <1>5 DEF Or, FailIf
<1> QED
  BY <1>2, <1>3, <1>4, <1>6, ThresholdErrorsAre DEF validate_state

LEMMA ExactlyOneIs ==
  ASSUME NEW found, IsFiniteSet(found)
  PROVE  (ExactlyOne(found) = {}) <=> \E x : found = {x}
<1>1. Cardinality(found) \in Nat
  BY FS_CardinalityType
<1>2. /\ Cardinality(found) = 0 <=> found = {}
      /\ Cardinality(found) = 1 <=> \E x : found = {x}
  BY FS_EmptySet, FS_Singleton
<1>3. (ExactlyOne(found) = {}) <=> found # {} /\ ~(Cardinality(found) > 1)
  BY DEF ExactlyOne, Or, FailIf
<1>4. Cardinality(found) = 1 <=> Cardinality(found) # 0 /\ ~(Cardinality(found) > 1)
  BY <1>1
<1> QED
  BY <1>2, <1>3, <1>4

LEMMA MatchesFinite ==
  ASSUME NEW tx, NEW states, IsFiniteSet(states)
  PROVE  IsFiniteSet(MatchingInputs(tx, states)) /\ IsFiniteSet(MatchingDeps(tx, states))
<1>1. IsFiniteSet(MatchingInputs(tx, states))
  <2>1. MatchingInputs(tx, states) \in SUBSET states
    BY DEF MatchingInputs
  <2> QED
    BY <2>1, FS_Subset
<1>2. ASSUME NEW via PROVE IsFiniteSet({[cell |-> c, via |-> via] : c \in states})
  <2> DEFINE T == {[cell |-> c, via |-> via] : c \in states}
             f == [c \in states |-> [cell |-> c, via |-> via]]
  <2>1. f \in Surjection(states, T)
    BY DEF Surjection
  <2> QED
    BY <2>1, FS_Surjection
<1>3. PICK A : A = {[cell |-> c, via |-> "direct"] : c \in states}
  OBVIOUS
<1>4. PICK B : B = {[cell |-> c, via |-> "group"] : c \in states}
  OBVIOUS
<1>5. IsFiniteSet(A) /\ IsFiniteSet(B)
  BY <1>2, <1>3, <1>4
<1>6. IsFiniteSet(A \cup B)
  BY <1>5, FS_Union
<1>7. MatchingDeps(tx, states) \in SUBSET (A \cup B)
  BY <1>3, <1>4 DEF MatchingDeps
<1> QED
  BY <1>1, <1>6, <1>7, FS_Subset

\* resolve_state finds no error exactly when there is a state cell it resolves, which
\* is then the only one.
LEMMA ResolveErrorIs ==
  ASSUME in \in Cases
  PROVE  LET resolves(c) == resolve_state(in.witness.operation, in.tx, in.states, c) IN
         /\ (ResolveError = {}) <=> \E c \in in.states : resolves(c)
         /\ ResolveError = {} => \A c \in ResolvedCells : c \in in.states /\ resolves(c)
         /\ \A c, d : resolves(c) /\ resolves(d) => c = d
<1> DEFINE tx == in.tx
           states == in.states
           op == in.witness.operation
           inputs == MatchingInputs(tx, states)
           deps == MatchingDeps(tx, states)
<1>1. op \in Operations /\ IsFiniteSet(states) /\ IsFiniteSet(tx.state_outputs)
  BY CasesTyped
<1>2. IsFiniteSet(inputs) /\ IsFiniteSet(deps)
  BY <1>1, MatchesFinite
<1>3. inputs \subseteq states
  BY DEF MatchingInputs
<1>4. \A d \in deps : /\ d.cell \in states
                      /\ \E v \in {"direct", "group"} : d = [cell |-> d.cell, via |-> v]
  BY DEF MatchingDeps
<1> HIDE DEF inputs, deps, op
<1>5. CASE op = OP_SPEND
  <2>1. \A c : resolve_state(op, tx, states, c) <=>
                 inputs = {} /\ \E v \in {"direct", "group"} : deps = {[cell |-> c, via |-> v]}
    BY <1>5 DEF resolve_state, ResolvesSpend, inputs, deps, OP_SPEND, OP_ROTATE, OP_RECOVERY
  <2>2. (ResolveError = {}) <=> inputs = {} /\ ExactlyOne(deps) = {}
    BY <1>5 DEF ResolveError, Or, FailIf, inputs, deps, op
  <2>3. (ResolveError = {}) <=> inputs = {} /\ \E x : deps = {x}
    BY <1>2, <2>2, ExactlyOneIs
  <2>4. ResolvedCells = {d.cell : d \in deps}
    BY <1>5 DEF ResolvedCells, deps, op
  <2>5. ASSUME NEW x, deps = {x}
        PROVE  /\ x.cell \in states
               /\ \E v \in {"direct", "group"} : deps = {[cell |-> x.cell, via |-> v]}
    BY <1>4, <2>5
  <2>6. ASSUME NEW c, NEW d, resolve_state(op, tx, states, c), resolve_state(op, tx, states, d)
        PROVE  c = d
    <3>1. PICK v : deps = {[cell |-> c, via |-> v]}
      BY <2>1, <2>6
    <3>2. PICK u : deps = {[cell |-> d, via |-> u]}
      BY <2>1, <2>6
    <3>3. [cell |-> c, via |-> v] = [cell |-> d, via |-> u]
      BY <3>1, <3>2
    <3> QED
      BY <3>3
  <2>7. (ResolveError = {}) <=> \E c \in states : resolve_state(op, tx, states, c)
    BY <2>1, <2>3, <2>5
  <2>8. ASSUME ResolveError = {}, NEW c \in ResolvedCells
        PROVE  c \in states /\ resolve_state(op, tx, states, c)
    <3>1. PICK x : deps = {x} /\ inputs = {}
      BY <2>3, <2>8
    <3>2. c = x.cell
      BY <2>4, <3>1
    <3> QED
      BY <2>1, <2>5, <3>1, <3>2
  <2> QED
    BY <2>6, <2>7, <2>8 DEF op
<1>6. CASE op # OP_SPEND
  <2>0. op \in {OP_ROTATE, OP_RECOVERY}
    BY <1>1, <1>6 DEF Operations
  <2>1. \A c : resolve_state(op, tx, states, c) <=>
                 inputs = {c} /\ \E s \in tx.state_outputs : tx.state_outputs = {s}
    BY <1>6, <2>0 DEF resolve_state, ResolvesTransition, inputs
  <2>2. (ResolveError = {}) <=> ExactlyOne(inputs) = {} /\ Cardinality(tx.state_outputs) = 1
    BY <1>6 DEF ResolveError, Or, FailIf, inputs, op
  <2>3. (ResolveError = {}) <=> /\ \E x : inputs = {x}
                                /\ \E s \in tx.state_outputs : tx.state_outputs = {s}
    <3>1. Cardinality(tx.state_outputs) = 1 <=> \E s : tx.state_outputs = {s}
      BY <1>1, FS_Singleton
    <3>2. (\E s : tx.state_outputs = {s}) <=> \E s \in tx.state_outputs : tx.state_outputs = {s}
      OBVIOUS
    <3> QED
      BY <1>2, <2>2, <3>1, <3>2, ExactlyOneIs
  <2>4. ResolvedCells = inputs
    BY <1>6 DEF ResolvedCells, inputs, op
  <2>5. (ResolveError = {}) <=> \E c \in states : resolve_state(op, tx, states, c)
    BY <1>3, <2>1, <2>3
  <2>6. ASSUME ResolveError = {}, NEW c \in ResolvedCells
        PROVE  c \in states /\ resolve_state(op, tx, states, c)
    BY <1>3, <2>1, <2>3, <2>4, <2>6
  <2>7. ASSUME NEW c, NEW d, resolve_state(op, tx, states, c), resolve_state(op, tx, states, d)
        PROVE  c = d
    BY <2>1, <2>7
  <2> QED
    BY <2>5, <2>6, <2>7 DEF op
<1> QED
  BY <1>5, <1>6

LEMMA TransitionErrorsAre ==
  ASSUME in \in Cases, StateFields(cell.data),
         resolve_state(in.witness.operation, in.tx, in.states, cell)
  PROVE  ((IF in.witness.operation = OP_SPEND THEN {}
           ELSE TransitionErrors((CHOOSE s \in in.tx.state_outputs : TRUE).data)) = {})
           <=> validate_transition(in.witness.operation, in.tx, cell.data)
<1>1. CASE in.witness.operation = OP_SPEND
  BY <1>1 DEF validate_transition
<1>2. CASE in.witness.operation # OP_SPEND
  <2>1. in.witness.operation \in {OP_ROTATE, OP_RECOVERY}
    BY <1>2, CasesTyped DEF Operations
  <2>2. PICK s \in in.tx.state_outputs : in.tx.state_outputs = {s}
    BY <1>2 DEF resolve_state, ResolvesTransition
  <2>3. (CHOOSE x \in in.tx.state_outputs : TRUE) = s
    BY <2>2
  <2>4. StateFields(s.data) /\ in.tx.since \in Sinces
    BY CasesTyped
  <2>5. /\ cell.data.sequence \in 0..U64_MAX /\ cell.data.recovery_since \in Nat
        /\ s.data.sequence \in 0..U64_MAX
    BY <2>4 DEF StateFields
  <2>6. cell.data.sequence # U64_MAX <=> cell.data.sequence < U64_MAX
    BY <2>5, ProtocolBounds
  <2>7. RawSince(in.tx.since) \in Nat
    <3>1. SinceKind(in.tx.since) \in Nat /\ in.tx.since.value \in Nat
      BY <2>4, SinceBound DEF SinceKind, Sinces, SinceMetrics
    <3> QED BY <3>1, SinceBound DEF RawSince
  <2>8. RawSince(in.tx.since) < cell.data.recovery_since
          <=> ~(RawSince(in.tx.since) >= cell.data.recovery_since)
    BY <2>5, <2>7
  <2>9. (TransitionErrors(s.data) = {}) <=>
          /\ StateErrors(s.data) = {}
          /\ cell.data.sequence # U64_MAX /\ s.data.sequence = cell.data.sequence + 1
          /\ in.witness.operation = OP_RECOVERY =>
               /\ cell.data.recovery_enabled
               /\ ~(RawSince(in.tx.since) < cell.data.recovery_since)
    BY DEF TransitionErrors, Or, FailIf
  <2>10. (StateErrors(s.data) = {}) <=> validate_state(s.data)
    BY <2>4, StateErrorsAre
  <2>11. (TransitionErrors(s.data) = {}) <=>
           /\ SuccessorFollows(cell.data, s.data)
           /\ in.witness.operation = OP_RECOVERY => RecoveryUnlocked(cell.data, in.tx.since)
    BY <2>6, <2>8, <2>9, <2>10 DEF SuccessorFollows, RecoveryUnlocked
  <2>12. validate_transition(in.witness.operation, in.tx, cell.data) <=>
           /\ SuccessorFollows(cell.data, s.data)
           /\ in.witness.operation = OP_RECOVERY => RecoveryUnlocked(cell.data, in.tx.since)
    BY <1>2, <2>1, <2>2 DEF validate_transition
  <2> QED
    BY <1>2, <2>3, <2>11, <2>12
<1> QED
  BY <1>1, <1>2

(***************************************************************************)
(* The proofs.                                                             *)
(***************************************************************************)
\* Proof n names an authenticator that may take part.
Admissible(n) ==
  \E i \in DOMAIN cell.data.authenticators :
    /\ cell.data.authenticators[i].slot = in.witness.proofs[n].slot
    /\ capability_for_operation(in.witness.operation) \in cell.data.authenticators[i].capabilities
    /\ resolve_verifier(cell.data.authenticators[i], in.tx)
    /\ encode_request(cell.data.authenticators[i])

LEMMA SlotsDistinct ==
  ASSUME NEW s, StateFields(s), validate_state(s),
         NEW i \in DOMAIN s.authenticators, NEW j \in DOMAIN s.authenticators,
         s.authenticators[i].slot = s.authenticators[j].slot
  PROVE  i = j
<1>1. i \in Nat /\ j \in Nat /\ s.authenticators[i].slot \in Nat
  BY DEF StateFields, Listed
<1>2. ~(i < j) /\ ~(j < i)
  BY <1>1 DEF validate_state, SlotsStrictlyIncreasing
<1> QED
  BY <1>1, <1>2

\* The entry a slot stands for.
LEMMA EntryOfIs ==
  ASSUME StateFields(cell.data), validate_state(cell.data),
         NEW i \in DOMAIN cell.data.authenticators
  PROVE  EntryOf(cell.data.authenticators[i].slot) = cell.data.authenticators[i]
<1> DEFINE slot == cell.data.authenticators[i].slot
<1>1. i \in AuthenticatorsAt(slot)
  BY DEF AuthenticatorsAt
<1>2. \A j \in AuthenticatorsAt(slot) : j = i
  BY SlotsDistinct DEF AuthenticatorsAt
<1>3. (CHOOSE j \in AuthenticatorsAt(slot) : TRUE) = i
  <2> HIDE DEF slot
  <2> QED
    BY <1>1, <1>2
<1> QED
  BY <1>3 DEF EntryOf

LEMMA ProofErrorsAre ==
  ASSUME in \in Cases, StateFields(cell.data), validate_state(cell.data),
         next \in DOMAIN in.witness.proofs
  PROVE  (ProofErrors(in.witness.proofs[next]) = {}) <=>
           /\ in.witness.proofs[next].framed /\ in.witness.proofs[next].fits_request
           /\ ProofOrdered(next) /\ Admissible(next)
<1> DEFINE proof == in.witness.proofs[next]
           cap == capability_for_operation(in.witness.operation)
           here == AuthenticatorsAt(proof.slot)
           entry == EntryOf(proof.slot)
<1>1. (ProofErrors(proof) = {}) <=>
        /\ proof.framed /\ ProofOrdered(next) /\ here # {}
        /\ cap \in entry.capabilities /\ resolve_verifier(entry, in.tx)
        /\ proof.fits_request /\ encode_request(entry)
  <2> HIDE DEF proof, cap, here, entry
  <2>1. ProofErrors(proof) =
          Or(FailIf(~proof.framed \/ ~ProofOrdered(next), "InvalidWitness"),
          Or(FailIf(here = {}, "InvalidWitness"),
          Or(FailIf(cap \notin entry.capabilities, "InvalidCapability"),
          Or(FailIf(~resolve_verifier(entry, in.tx), "InvalidVerifierRef"),
             IF proof.fits_request /\ encode_request(entry) THEN {}
               ELSE {"InvalidRequest", "LengthOverflow"}))))
    BY DEF ProofErrors, cap, here, entry
  <2> QED
    BY <2>1 DEF Or, FailIf
<1>2. Admissible(next) <=>
        /\ here # {}
        /\ cap \in entry.capabilities /\ resolve_verifier(entry, in.tx) /\ encode_request(entry)
  <2>1. CASE here = {}
    BY <2>1 DEF Admissible, AuthenticatorsAt
  <2>2. CASE here # {}
    <3>1. PICK i \in DOMAIN cell.data.authenticators :
            cell.data.authenticators[i].slot = proof.slot
      BY <2>2 DEF AuthenticatorsAt
    <3>2. entry = cell.data.authenticators[i]
      BY <3>1, EntryOfIs
    <3>3. \A j \in DOMAIN cell.data.authenticators :
            cell.data.authenticators[j].slot = proof.slot => j = i
      BY <3>1, SlotsDistinct
    <3> HIDE DEF here, entry, cap
    <3> QED
      BY <2>2, <3>1, <3>2, <3>3 DEF Admissible, cap
  <2> QED
    BY <2>1, <2>2
<1> HIDE DEF here, entry, cap
<1> QED
  BY <1>1, <1>2

\* The authenticators with a verified proof among the first k - 1.
VerifiedBefore(k) ==
  {i \in DOMAIN cell.data.authenticators :
     \E n \in 1..(k - 1) :
        /\ in.witness.proofs[n].slot = cell.data.authenticators[i].slot
        /\ VerifierAccepts(cell.data.authenticators[i], in.witness.proofs[n].sig, Digest, in.signed)}

LEMMA VerifiedFinite ==
  ASSUME StateFields(cell.data), NEW k
  PROVE  /\ IsFiniteSet(VerifiedBefore(k))
         /\ \A i \in VerifiedBefore(k) : cell.data.authenticators[i].weight \in Nat
<1>1. VerifiedBefore(k) \subseteq 1..Len(cell.data.authenticators)
  BY DEF VerifiedBefore, StateFields, Listed
<1>2. IsFiniteSet(1..Len(cell.data.authenticators))
  BY FS_Interval DEF StateFields, Listed
<1>3. IsFiniteSet(VerifiedBefore(k))
  BY <1>1, <1>2, FS_Subset
<1> QED
  BY <1>3 DEF VerifiedBefore, StateFields

\* Where every proof so far has a larger slot than the one before it, the next one
\* is for an authenticator that has not been counted.
LEMMA NotYetCounted ==
  ASSUME in \in Cases, StateFields(cell.data), next \in DOMAIN in.witness.proofs,
         \A n \in 1..next : ProofOrdered(n),
         NEW i \in DOMAIN cell.data.authenticators,
         cell.data.authenticators[i].slot = in.witness.proofs[next].slot
  PROVE  i \notin VerifiedBefore(next)
<1> DEFINE proofs == in.witness.proofs
<1>1. Listed(proofs) /\ \A n \in DOMAIN proofs : proofs[n].slot \in Nat
  BY CasesTyped
<1>2. next \in Nat /\ next <= Len(proofs) /\ 1..next \subseteq DOMAIN proofs
  BY <1>1 DEF Listed
<1>3. \A n \in 2..next : proofs[n - 1].slot < proofs[n].slot
  <2> SUFFICES ASSUME NEW n \in 2..next PROVE proofs[n - 1].slot < proofs[n].slot
    OBVIOUS
  <2>1. n \in 1..next /\ n > 1 /\ n - 1 \in 1..next
    BY <1>2
  <2>2. proofs[n].slot > proofs[n - 1].slot
    BY <2>1 DEF ProofOrdered
  <2>3. proofs[n].slot \in Nat /\ proofs[n - 1].slot \in Nat
    BY <1>1, <1>2, <2>1
  <2> QED
    BY <2>2, <2>3
<1>4. \A m, n \in 1..next : m < n => proofs[m].slot < proofs[n].slot
  <2> HIDE DEF proofs
  <2> QED
    BY <1>1, <1>2, <1>3, NeighboursIncrease
<1>5. ASSUME NEW n \in 1..(next - 1) PROVE proofs[n].slot # proofs[next].slot
  <2>1. n \in 1..next /\ next \in 1..next /\ n < next
    BY <1>2
  <2>2. proofs[n].slot < proofs[next].slot
    BY <1>4, <2>1
  <2>3. proofs[n].slot \in Nat /\ proofs[next].slot \in Nat
    BY <1>1, <1>2, <2>1
  <2> QED
    BY <2>2, <2>3
<1> QED
  BY <1>5 DEF VerifiedBefore

\* One more proof counts its authenticator exactly once, and only if it verifies.
LEMMA WeightStep ==
  ASSUME in \in Cases, StateFields(cell.data), validate_state(cell.data),
         next \in DOMAIN in.witness.proofs,
         \A n \in 1..next : ProofOrdered(n), Admissible(next),
         weight = WeightOf(cell.data.authenticators, VerifiedBefore(next)),
         NEW entry, entry = EntryOf(in.witness.proofs[next].slot)
  PROVE  WeightAfter(entry, VerifierAccepts(entry, in.witness.proofs[next].sig, Digest, in.signed))
           = WeightOf(cell.data.authenticators, VerifiedBefore(next + 1))
<1> DEFINE a == cell.data.authenticators
           proof == in.witness.proofs[next]
           ok == VerifierAccepts(entry, proof.sig, Digest, in.signed)
<1>1. PICK i \in DOMAIN a : a[i].slot = proof.slot
  BY DEF Admissible
<1>2. entry = a[i]
  BY <1>1, EntryOfIs
<1>3. i \notin VerifiedBefore(next)
  BY <1>1, NotYetCounted
<1>4. next \in Nat /\ 1..((next + 1) - 1) = 1..(next - 1) \cup {next}
  BY CasesTyped DEF Listed
<1>5. \A j \in DOMAIN a : a[j].slot = proof.slot => j = i
  BY <1>1, SlotsDistinct
<1>6. CASE ok
  <2>1. VerifiedBefore(next + 1) = VerifiedBefore(next) \cup {i}
    <3>1. i \in VerifiedBefore(next + 1) /\ VerifiedBefore(next) \subseteq VerifiedBefore(next + 1)
      BY <1>1, <1>2, <1>4, <1>6 DEF VerifiedBefore
    <3>2. VerifiedBefore(next + 1) \subseteq VerifiedBefore(next) \cup {i}
      BY <1>4, <1>5 DEF VerifiedBefore
    <3> QED
      BY <3>1, <3>2
  <2>2. IsFiniteSet(VerifiedBefore(next))
    BY VerifiedFinite
  <2>3. \A x \in VerifiedBefore(next) \cup {i} : a[x].weight \in Nat
    BY VerifiedFinite DEF StateFields
  <2>4. WeightOf(a, VerifiedBefore(next) \cup {i}) = a[i].weight + WeightOf(a, VerifiedBefore(next))
    <3> HIDE DEF a
    <3> QED
      BY <1>3, <2>2, <2>3, WeightAdds
  <2>5. WeightOf(a, VerifiedBefore(next)) \in Nat /\ a[i].weight \in Nat
    <3>1. \A x \in VerifiedBefore(next) : a[x].weight \in Nat
      BY <2>3
    <3>2. a[i].weight \in Nat
      BY <2>3
    <3> HIDE DEF a
    <3> QED
      BY <2>2, <3>1, <3>2, WeightFacts
  <2>6. WeightAfter(entry, ok) = weight + a[i].weight
    BY <1>2, <1>6 DEF WeightAfter
  <2>7. weight + a[i].weight = WeightOf(a, VerifiedBefore(next + 1))
    <3>1. weight = WeightOf(a, VerifiedBefore(next))
      OBVIOUS
    <3>2. WeightOf(a, VerifiedBefore(next + 1)) = a[i].weight + weight
      BY <2>1, <2>4, <3>1, Zenon
    <3>3. weight \in Nat /\ a[i].weight \in Nat
      BY <2>5, <3>1, Zenon
    <3> HIDE DEF a
    <3> QED
      BY <3>2, <3>3
  <2> QED
    BY <2>6, <2>7, Zenon
<1>7. CASE ~ok
  <2>1. VerifiedBefore(next + 1) = VerifiedBefore(next)
    BY <1>1, <1>2, <1>4, <1>5, <1>7 DEF VerifiedBefore
  <2> QED
    BY <1>7, <2>1 DEF WeightAfter
<1> QED
  BY <1>6, <1>7

-----------------------------------------------------------------------------
(***************************************************************************)
(* What run() has established when it stands before a check.               *)
(***************************************************************************)
BeforeProofs == {"args", "witness", "resolve", "state", "sequence", "transition", "sighash"}
AfterSighash == {"proofs", "threshold"}
AfterTransition == {"sighash"} \cup AfterSighash
AfterSequence == {"transition"} \cup AfterTransition
AfterState == {"sequence"} \cup AfterSequence
AfterResolve == {"state"} \cup AfterState
AfterWitness == {"resolve"} \cup AfterResolve
AfterArgs == {"witness"} \cup AfterWitness

Running ==
  /\ in \in Cases
  /\ pc \in BeforeProofs \cup AfterSighash \cup {"exit"}
  /\ pc # "exit" => verdict = "none"
  /\ pc \in BeforeProofs => next = 1 /\ weight = 0

WitnessRead ==
  /\ pc \in AfterArgs => in.args = "parsed"
  /\ pc \in AfterWitness =>
       /\ in.witness.lock_readable /\ in.witness.header_parses
       /\ Len(in.witness.proofs) <= AUTHENTICATOR_MAX_COUNT

StateFound ==
  /\ pc \in AfterResolve =>
       cell \in in.states /\ resolve_state(in.witness.operation, in.tx, in.states, cell)
  /\ pc \in AfterState => validate_state(cell.data)
  /\ pc \in AfterSequence => in.witness.state_sequence = cell.data.sequence
  /\ pc \in AfterTransition => validate_transition(in.witness.operation, in.tx, cell.data)

ProofsRead ==
  /\ pc \in AfterSighash =>
       /\ in.witness.others_readable
       /\ next \in 1..(Len(in.witness.proofs) + 1)
       /\ \A n \in 1..(next - 1) :
            /\ in.witness.proofs[n].framed /\ in.witness.proofs[n].fits_request
            /\ ProofOrdered(n) /\ Admissible(n)
       /\ weight = WeightOf(cell.data.authenticators, VerifiedBefore(next))
  /\ pc = "threshold" => next = Len(in.witness.proofs) + 1 /\ ~in.witness.trailing_bytes

RunInv == Running /\ WitnessRead /\ StateFound /\ ProofsRead

\* A check that passes leaves everything but the program counter and the cell alone.
LEMMA CheckStep ==
  ASSUME NEW check, NEW errors, NEW then, Check(check, errors, then)
  PROVE  /\ pc = check /\ UNCHANGED <<in, faulted, next, weight>>
         /\ \/ errors # {} /\ verdict' \in errors /\ pc' = "exit"
            \/ errors = {} /\ verdict' = verdict /\ pc' = then
BY DEF Check, Exit, Continue

LEMMA InitRunInv == Init => RunInv
BY DEF Init, RunInv, Running, WitnessRead, StateFound, ProofsRead, BeforeProofs, AfterArgs,
       AfterWitness, AfterResolve, AfterState, AfterSequence, AfterTransition, AfterSighash

\* An execution that has exited keeps the invariant.
LEMMA ExitKeepsInv ==
  ASSUME RunInv, pc' = "exit", UNCHANGED in
  PROVE  RunInv'
BY DEF RunInv, Running, WitnessRead, StateFound, ProofsRead, BeforeProofs, AfterArgs,
       AfterWitness, AfterResolve, AfterState, AfterSequence, AfterTransition, AfterSighash

\* Once the state cell is found, the promise is about that cell.
LEMMA AcceptableCell ==
  ASSUME RunInv, pc \in AfterResolve
  PROVE  Promise!Acceptable(in) <=>
           /\ Promise!WitnessWellFormed(in.witness)
           /\ validate_state(cell.data) /\ in.witness.state_sequence = cell.data.sequence
           /\ validate_transition(in.witness.operation, in.tx, cell.data)
           /\ ProofsSuffice(in.witness.operation, in.tx, Sigs(in), cell.data, in.signed)
<1>1. in \in Cases /\ in.args = "parsed" /\ cell \in in.states
      /\ resolve_state(in.witness.operation, in.tx, in.states, cell)
  BY DEF RunInv, Running, WitnessRead, StateFound, AfterArgs, AfterWitness
<1>2. \A c : resolve_state(in.witness.operation, in.tx, in.states, c) => c = cell
  BY <1>1, ResolveErrorIs
<1> QED
  BY <1>1, <1>2, AcceptableIs DEF StateAdmits

\* The state cell found has its field types.
LEMMA CellFields ==
  ASSUME RunInv, pc \in AfterResolve
  PROVE  in \in Cases /\ StateFields(cell.data) /\ cell \in in.states
         /\ resolve_state(in.witness.operation, in.tx, in.states, cell)
BY CasesTyped DEF RunInv, Running, StateFound

\* Exiting with an error is right where the promise does not accept.
LEMMA Rejects ==
  ASSUME RunInv, pc # "exit", verdict' \in Promise!Errors, UNCHANGED <<in, faulted>>,
         ~Promise!Acceptable(in)
  PROVE  Promise!Decide
BY DEF RunInv, Running, Promise!Decide

AbstractStep == Promise!Decide \/ UNCHANGED <<in, verdict, faulted>>

LEMMA ParseStep ==
  ASSUME RunInv, ParseArgs \/ ParseWitness
  PROVE  RunInv' /\ AbstractStep
<1>1. in \in Cases
  BY DEF RunInv, Running
<1>2. CASE ParseArgs
  <2> DEFINE errors == IF in.args = "parsed" THEN {} ELSE {"InvalidArgs", "UnsupportedVersion"}
  <2>1. /\ pc = "args" /\ UNCHANGED <<in, faulted, next, weight>>
        /\ \/ errors # {} /\ verdict' \in errors /\ pc' = "exit"
           \/ errors = {} /\ verdict' = verdict /\ pc' = "witness"
    BY <1>2, CheckStep DEF ParseArgs
  <2>2. CASE errors # {}
    <3>1. verdict' \in Promise!Errors /\ pc' = "exit" /\ in.args # "parsed"
      BY <2>1, <2>2 DEF Promise!Errors
    <3>2. ~Promise!Acceptable(in)
      BY <1>1, <3>1, AcceptableIs
    <3> QED
      BY <2>1, <3>1, <3>2, Rejects, ExitKeepsInv DEF AbstractStep
  <2>3. CASE errors = {}
    <3>1. in.args = "parsed" /\ pc' = "witness" /\ verdict' = verdict
      BY <2>1, <2>3
    <3> QED
      BY <2>1, <3>1 DEF RunInv, Running, WitnessRead, StateFound, ProofsRead, BeforeProofs,
        AfterArgs, AfterWitness, AfterResolve, AfterState, AfterSequence, AfterTransition,
        AfterSighash, AbstractStep
  <2> QED
    BY <2>2, <2>3
<1>3. CASE ParseWitness
  <2> DEFINE broken == \/ ~in.witness.lock_readable \/ ~in.witness.header_parses
                       \/ Len(in.witness.proofs) > AUTHENTICATOR_MAX_COUNT
  <2>1. /\ pc = "witness" /\ UNCHANGED <<in, faulted, next, weight>>
        /\ \/ FailIf(broken, "InvalidWitness") # {} /\ verdict' \in FailIf(broken, "InvalidWitness")
              /\ pc' = "exit"
           \/ FailIf(broken, "InvalidWitness") = {} /\ verdict' = verdict /\ pc' = "resolve"
    BY <1>3, CheckStep DEF ParseWitness
  <2>2. Len(in.witness.proofs) > AUTHENTICATOR_MAX_COUNT
          <=> ~(Len(in.witness.proofs) <= AUTHENTICATOR_MAX_COUNT)
    BY <1>1, CasesTyped, ProtocolBounds DEF Listed
  <2>3. CASE broken
    <3>1. verdict' \in Promise!Errors /\ pc' = "exit"
      BY <2>1, <2>3 DEF Promise!Errors, FailIf
    <3>2. ~Promise!Acceptable(in)
      BY <1>1, <2>2, <2>3, AcceptableIs DEF Promise!WitnessWellFormed
    <3> QED
      BY <2>1, <3>1, <3>2, Rejects, ExitKeepsInv DEF AbstractStep
  <2>4. CASE ~broken
    <3>1. pc' = "resolve" /\ verdict' = verdict
      BY <2>1, <2>4 DEF FailIf
    <3> QED
      BY <2>1, <2>2, <2>4, <3>1 DEF RunInv, Running, WitnessRead, StateFound, ProofsRead,
        BeforeProofs, AfterArgs, AfterWitness, AfterResolve, AfterState, AfterSequence,
        AfterTransition, AfterSighash, AbstractStep
  <2> QED
    BY <2>3, <2>4
<1> QED
  BY <1>2, <1>3

\* Every exit is with an error of ProtocolError.
LEMMA ErrorsTyped ==
  /\ ResolveError \subseteq Promise!Errors
  /\ \A s : StateErrors(s) \subseteq Promise!Errors
  /\ \A s : TransitionErrors(s) \subseteq Promise!Errors
  /\ \A p : ProofErrors(p) \subseteq Promise!Errors
<1>1. \A e \in Promise!Errors : {e} \subseteq Promise!Errors
  OBVIOUS
<1>2. \A f : ExactlyOne(f) \subseteq Promise!Errors
  BY DEF ExactlyOne, Or, FailIf, Promise!Errors
<1>3. ResolveError \subseteq Promise!Errors
  <2>1. \A f : f \subseteq Promise!Errors =>
          /\ Or(FailIf(MatchingInputs(in.tx, in.states) # {}, "StateConsumedOnSpend"), f)
               \subseteq Promise!Errors
          /\ Or(f, FailIf(Cardinality(in.tx.state_outputs) # 1, "InvalidTransition"))
               \subseteq Promise!Errors
    BY DEF Or, FailIf, Promise!Errors
  <2> QED
    BY <1>2, <2>1 DEF ResolveError
<1>4. \A a, i : EntryErrors(a, i) \subseteq Promise!Errors
  BY DEF EntryErrors, Or, FailIf, Promise!Errors
<1>5. \A s : ThresholdErrors(s) \subseteq Promise!Errors
  BY DEF ThresholdErrors, Or, FailIf, Promise!Errors
<1>6. ASSUME NEW s PROVE StateErrors(s) \subseteq Promise!Errors
  <2> DEFINE a == s.authenticators
             bad == {i \in DOMAIN a : EntryErrors(a, i) # {}}
             entry == IF bad = {} THEN {} ELSE EntryErrors(a, Min(bad))
  <2>1. entry \subseteq Promise!Errors
    BY <1>4
  <2>2. StateErrors(s) = Or(IF s.framed THEN {} ELSE {"InvalidState", "UnsupportedVersion"} \cup entry,
                         Or(FailIf(Len(a) = 0 \/ Len(a) > AUTHENTICATOR_MAX_COUNT, "InvalidState"),
                         Or(entry, ThresholdErrors(s))))
    BY DEF StateErrors
  <2> HIDE DEF entry
  <2>3. /\ (IF s.framed THEN {} ELSE {"InvalidState", "UnsupportedVersion"} \cup entry)
             \subseteq Promise!Errors
        /\ FailIf(Len(a) = 0 \/ Len(a) > AUTHENTICATOR_MAX_COUNT, "InvalidState")
             \subseteq Promise!Errors
    BY <2>1 DEF FailIf, Promise!Errors
  <2> QED
    BY <1>5, <2>1, <2>2, <2>3 DEF Or
<1>7. ASSUME NEW s PROVE TransitionErrors(s) \subseteq Promise!Errors
  <2>1. \A f, g : f \subseteq Promise!Errors /\ g \subseteq Promise!Errors
          => Or(f, g) \subseteq Promise!Errors
    BY DEF Or
  <2>2. FailIf(cell.data.sequence = U64_MAX \/ s.sequence # cell.data.sequence + 1,
               "InvalidSequence") \subseteq Promise!Errors
    BY DEF FailIf, Promise!Errors
  <2>3. (IF in.witness.operation = OP_RECOVERY
           THEN Or(FailIf(~cell.data.recovery_enabled, "InvalidCapability"),
                   FailIf(RawSince(in.tx.since) < cell.data.recovery_since, "RecoveryLocked"))
           ELSE {}) \subseteq Promise!Errors
    BY DEF FailIf, Or, Promise!Errors
  <2> QED
    BY <1>6, <2>1, <2>2, <2>3 DEF TransitionErrors
<1>8. ASSUME NEW p PROVE ProofErrors(p) \subseteq Promise!Errors
  BY DEF ProofErrors, FailIf, Or, Promise!Errors
<1> QED
  BY <1>3, <1>6, <1>7, <1>8

LEMMA ResolveStep ==
  ASSUME RunInv, ResolveState
  PROVE  RunInv' /\ AbstractStep
<1>1. in \in Cases
  BY DEF RunInv, Running
<1>2. /\ pc = "resolve" /\ UNCHANGED <<in, faulted, next, weight>>
      /\ \/ ResolveError # {} /\ verdict' \in ResolveError /\ pc' = "exit"
         \/ ResolveError = {} /\ verdict' = verdict /\ pc' = "state"
  BY CheckStep DEF ResolveState
<1>3. CASE ResolveError # {}
  <2>1. verdict' \in Promise!Errors /\ pc' = "exit"
    BY <1>2, <1>3, ErrorsTyped
  <2>2. ~Promise!Acceptable(in)
    BY <1>1, <1>3, ResolveErrorIs, AcceptableIs DEF StateAdmits
  <2> QED
    BY <1>2, <2>1, <2>2, Rejects, ExitKeepsInv DEF AbstractStep
<1>4. CASE ResolveError = {}
  <2>1. cell' \in ResolvedCells /\ pc' = "state" /\ verdict' = verdict
    BY <1>2, <1>4 DEF ResolveState
  <2>2. cell' \in in.states /\ resolve_state(in.witness.operation, in.tx, in.states, cell')
    BY <1>1, <1>4, <2>1, ResolveErrorIs
  <2>3. StateFound'
    BY <1>2, <2>1, <2>2 DEF StateFound, AfterResolve, AfterState, AfterSequence,
      AfterTransition, AfterSighash
  <2> QED
    BY <1>2, <2>1, <2>3 DEF RunInv, Running, WitnessRead, ProofsRead, BeforeProofs,
      AfterArgs, AfterWitness, AfterResolve, AfterState, AfterSequence, AfterTransition,
      AfterSighash, AbstractStep
<1> QED
  BY <1>3, <1>4

LEMMA ValidateStep ==
  ASSUME RunInv, ValidateState \/ CheckSequence \/ ValidateTransition
  PROVE  RunInv' /\ AbstractStep
<1>1. pc \in {"state", "sequence", "transition"} /\ pc \in AfterResolve
  BY CheckStep DEF ValidateState, CheckSequence, ValidateTransition, AfterResolve, AfterState,
    AfterSequence
<1>2. /\ in \in Cases /\ StateFields(cell.data)
      /\ resolve_state(in.witness.operation, in.tx, in.states, cell)
  BY <1>1, CellFields
<1>3. CASE ValidateState
  <2> DEFINE errors == StateErrors(cell.data)
  <2>1. /\ pc = "state" /\ UNCHANGED <<in, faulted, next, weight, cell>>
        /\ \/ errors # {} /\ verdict' \in errors /\ pc' = "exit"
           \/ errors = {} /\ verdict' = verdict /\ pc' = "sequence"
    BY <1>3, CheckStep DEF ValidateState
  <2>2. (errors = {}) <=> validate_state(cell.data)
    BY <1>2, StateErrorsAre
  <2>3. errors \subseteq Promise!Errors
    BY ErrorsTyped
  <2> HIDE DEF errors
  <2>4. CASE errors # {}
    BY <1>1, <2>1, <2>2, <2>3, <2>4, AcceptableCell, Rejects, ExitKeepsInv DEF AbstractStep
  <2>5. CASE errors = {}
    BY <2>1, <2>2, <2>5 DEF RunInv, Running, WitnessRead, StateFound, ProofsRead, BeforeProofs,
      AfterArgs, AfterWitness, AfterResolve, AfterState, AfterSequence, AfterTransition,
      AfterSighash, AbstractStep
  <2> QED
    BY <2>4, <2>5
<1>4. CASE CheckSequence
  <2> DEFINE errors == FailIf(in.witness.state_sequence # cell.data.sequence, "InvalidSequence")
  <2>1. /\ pc = "sequence" /\ UNCHANGED <<in, faulted, next, weight, cell>>
        /\ \/ errors # {} /\ verdict' \in errors /\ pc' = "exit"
           \/ errors = {} /\ verdict' = verdict /\ pc' = "transition"
    BY <1>4, CheckStep DEF CheckSequence
  <2>2. (errors = {}) <=> in.witness.state_sequence = cell.data.sequence
    BY DEF FailIf
  <2>3. errors \subseteq Promise!Errors
    BY DEF FailIf, Promise!Errors
  <2> HIDE DEF errors
  <2>4. CASE errors # {}
    BY <1>1, <2>1, <2>2, <2>3, <2>4, AcceptableCell, Rejects, ExitKeepsInv DEF AbstractStep
  <2>5. CASE errors = {}
    BY <2>1, <2>2, <2>5 DEF RunInv, Running, WitnessRead, StateFound, ProofsRead, BeforeProofs,
      AfterArgs, AfterWitness, AfterResolve, AfterState, AfterSequence, AfterTransition,
      AfterSighash, AbstractStep
  <2> QED
    BY <2>4, <2>5
<1>5. CASE ValidateTransition
  <2> DEFINE errors == IF in.witness.operation = OP_SPEND THEN {}
                       ELSE TransitionErrors((CHOOSE s \in in.tx.state_outputs : TRUE).data)
  <2>1. /\ pc = "transition" /\ UNCHANGED <<in, faulted, next, weight, cell>>
        /\ \/ errors # {} /\ verdict' \in errors /\ pc' = "exit"
           \/ errors = {} /\ verdict' = verdict /\ pc' = "sighash"
    BY <1>5, CheckStep DEF ValidateTransition
  <2>2. (errors = {}) <=> validate_transition(in.witness.operation, in.tx, cell.data)
    BY <1>2, TransitionErrorsAre
  <2>3. errors \subseteq Promise!Errors
    BY ErrorsTyped
  <2> HIDE DEF errors
  <2>4. CASE errors # {}
    BY <1>1, <2>1, <2>2, <2>3, <2>4, AcceptableCell, Rejects, ExitKeepsInv DEF AbstractStep
  <2>5. CASE errors = {}
    BY <2>1, <2>2, <2>5 DEF RunInv, Running, WitnessRead, StateFound, ProofsRead, BeforeProofs,
      AfterArgs, AfterWitness, AfterResolve, AfterState, AfterSequence, AfterTransition,
      AfterSighash, AbstractStep
  <2> QED
    BY <2>4, <2>5
<1> QED
  BY <1>3, <1>4, <1>5


\* The input and the cell decide what is said about a proof.
LEMMA SameExecution ==
  ASSUME UNCHANGED <<in, cell>>
  PROVE  /\ \A n : ProofOrdered(n)' <=> ProofOrdered(n)
         /\ \A n : Admissible(n)' <=> Admissible(n)
         /\ \A k : VerifiedBefore(k)' = VerifiedBefore(k)
<1>1. in' = in /\ cell' = cell
  OBVIOUS
<1>2. \A n : ProofOrdered(n)' <=> ProofOrdered(n)
  BY <1>1 DEF ProofOrdered
<1>3. \A n : Admissible(n)' <=> Admissible(n)
  BY <1>1 DEF Admissible
<1>4. Digest' = Digest
  BY <1>1 DEF Digest
<1>5. \A k : VerifiedBefore(k)' = VerifiedBefore(k)
  BY <1>1, <1>4 DEF VerifiedBefore
<1> QED
  BY <1>2, <1>3, <1>5

\* What holds while run() is past the sighash.
LEMMA PastSighash ==
  ASSUME RunInv, pc \in AfterSighash
  PROVE  /\ in \in Cases /\ StateFields(cell.data) /\ validate_state(cell.data)
         /\ pc \in AfterResolve /\ verdict = "none"
         /\ Len(in.witness.proofs) \in Nat
         /\ DOMAIN in.witness.proofs = 1..Len(in.witness.proofs)
<1>1. pc \in AfterResolve /\ pc \in AfterState
  BY DEF AfterResolve, AfterState, AfterSequence, AfterTransition
<1>2. in \in Cases /\ StateFields(cell.data)
  BY <1>1, CellFields
<1>3. validate_state(cell.data)
  BY <1>1 DEF RunInv, StateFound
<1>4. verdict = "none"
  BY DEF RunInv, Running, AfterSighash
<1> QED
  BY <1>1, <1>2, <1>3, <1>4, CasesTyped DEF Listed

LEMMA SighashStep ==
  ASSUME RunInv, ComputeSighash
  PROVE  RunInv' /\ AbstractStep
<1> DEFINE errors == FailIf(~in.witness.others_readable, "InvalidWitness")
<1>1. /\ pc = "sighash" /\ UNCHANGED <<in, faulted, next, weight, cell>>
      /\ \/ errors # {} /\ verdict' \in errors /\ pc' = "exit"
         \/ errors = {} /\ verdict' = verdict /\ pc' = "proofs"
  BY CheckStep DEF ComputeSighash
<1>2. pc \in AfterResolve
  BY <1>1 DEF AfterResolve, AfterState, AfterSequence, AfterTransition
<1>3. in \in Cases /\ StateFields(cell.data)
  BY <1>2, CellFields
<1>4. (errors = {}) <=> in.witness.others_readable
  BY DEF FailIf
<1>5. errors \subseteq Promise!Errors
  BY DEF FailIf, Promise!Errors
<1> HIDE DEF errors
<1>6. CASE errors # {}
  <2>1. ~Promise!Acceptable(in)
    BY <1>2, <1>4, <1>6, AcceptableCell DEF Promise!WitnessWellFormed
  <2> QED
    BY <1>1, <1>5, <1>6, <2>1, Rejects, ExitKeepsInv DEF AbstractStep
<1>7. CASE errors = {}
  <2>1. next = 1 /\ weight = 0
    BY <1>1 DEF RunInv, Running, BeforeProofs
  <2>2. VerifiedBefore(1) = {}
    BY DEF VerifiedBefore
  <2>3. WeightOf(cell.data.authenticators, {}) = 0
    BY WeightFacts, FS_EmptySet
  <2>4. VerifiedBefore(1)' = {}
    BY <1>1, <2>2, SameExecution
  <2>5. Len(in.witness.proofs) \in Nat
    BY <1>3, CasesTyped DEF Listed
  <2>6. weight' = WeightOf(cell'.data.authenticators, VerifiedBefore(1)')
    BY <1>1, <2>1, <2>3, <2>4
  <2>7. /\ pc' = "proofs" /\ verdict' = verdict /\ next' = 1
        /\ 1 \in 1..(Len(in'.witness.proofs) + 1) /\ in'.witness.others_readable
        /\ 1..(1 - 1) = {}
    BY <1>1, <1>4, <1>7, <2>1, <2>5
  <2>8. ProofsRead'
    BY <2>6, <2>7 DEF ProofsRead
  <2> QED
    BY <1>1, <2>7, <2>8 DEF RunInv, Running, WitnessRead, StateFound, BeforeProofs,
      AfterArgs, AfterWitness, AfterResolve, AfterState, AfterSequence, AfterTransition,
      AfterSighash, AbstractStep
<1> QED
  BY <1>6, <1>7

LEMMA ProofFailsStep ==
  ASSUME RunInv, ProofFails
  PROVE  RunInv' /\ AbstractStep
<1> DEFINE proof == in.witness.proofs[next]
<1>1. /\ pc = "proofs" /\ next <= Len(in.witness.proofs) /\ UNCHANGED <<in, faulted>>
      /\ pc' = "exit" /\ verdict' \in ProofErrors(proof)
  BY DEF ProofFails, Exit
<1>2. pc \in AfterSighash
  BY <1>1 DEF AfterSighash
<1>3. /\ in \in Cases /\ StateFields(cell.data) /\ validate_state(cell.data)
      /\ pc \in AfterResolve
      /\ Len(in.witness.proofs) \in Nat
      /\ DOMAIN in.witness.proofs = 1..Len(in.witness.proofs)
  BY <1>2, PastSighash
<1>4. next \in DOMAIN in.witness.proofs
  BY <1>1, <1>2, <1>3 DEF RunInv, ProofsRead
<1>5. ~(proof.framed /\ proof.fits_request /\ ProofOrdered(next) /\ Admissible(next))
  BY <1>1, <1>3, <1>4, ProofErrorsAre
<1>6. SUFFICES ASSUME Promise!Acceptable(in) PROVE FALSE
  BY <1>1, Rejects, ExitKeepsInv, ErrorsTyped DEF AbstractStep
<1>7. Promise!WitnessWellFormed(in.witness)
      /\ ProofsSuffice(in.witness.operation, in.tx, Sigs(in), cell.data, in.signed)
  BY <1>3, <1>6, AcceptableCell
<1>8. proof.framed /\ proof.fits_request
  BY <1>4, <1>7 DEF Promise!WitnessWellFormed
<1>9. ProofOrdered(next)
  <2>1. SUFFICES ASSUME next > 1
                 PROVE  in.witness.proofs[next].slot > in.witness.proofs[next - 1].slot
    BY DEF ProofOrdered
  <2>2. next - 1 \in DOMAIN in.witness.proofs /\ next - 1 < next
    BY <1>3, <1>4, <2>1
  <2>3. in.witness.proofs[next - 1].slot < in.witness.proofs[next].slot
    BY <1>4, <1>7, <2>2 DEF Promise!WitnessWellFormed
  <2>4. in.witness.proofs[next - 1].slot \in Nat /\ in.witness.proofs[next].slot \in Nat
    BY <1>3, <1>4, <2>2, CasesTyped
  <2> QED
    BY <2>3, <2>4
<1>10. Admissible(next)
  <2>1. proof.slot \in DOMAIN Sigs(in)
    BY <1>4 DEF Sigs, Promise!ProofsBySlot
  <2>2. ProofsAdmissible(in.witness.operation, in.tx, Sigs(in), cell.data)
    BY <1>7 DEF ProofsSuffice
  <2> QED
    BY <2>1, <2>2 DEF ProofsAdmissible, Admissible
<1> QED
  BY <1>5, <1>8, <1>9, <1>10


LEMMA SpawnStep ==
  ASSUME RunInv, SpawnVerifier \/ SpawnFaults
  PROVE  RunInv' /\ AbstractStep
<1> DEFINE proof == in.witness.proofs[next]
           entry == EntryOf(proof.slot)
<1>1. /\ pc = "proofs" /\ next <= Len(in.witness.proofs) /\ ProofErrors(proof) = {}
      /\ UNCHANGED <<in, cell>>
  BY DEF SpawnVerifier, SpawnFaults
<1>2. pc \in AfterSighash
  BY <1>1 DEF AfterSighash
<1>3. /\ in \in Cases /\ StateFields(cell.data) /\ validate_state(cell.data)
      /\ verdict = "none"
      /\ Len(in.witness.proofs) \in Nat
      /\ DOMAIN in.witness.proofs = 1..Len(in.witness.proofs)
  BY <1>2, PastSighash
<1>4. CASE SpawnFaults
  <2>1. pc' = "exit" /\ verdict' = "VerifierFailure" /\ faulted'
    BY <1>4 DEF SpawnFaults, Exit
  <2>2. Promise!Decide
    BY <1>1, <1>3, <2>1 DEF Promise!Decide
  <2> QED
    BY <1>1, <2>1, <2>2, ExitKeepsInv DEF AbstractStep
<1>5. CASE SpawnVerifier
  <2>1. /\ UNCHANGED <<in, verdict, faulted, pc, cell>> /\ next' = next + 1
        /\ weight' = WeightAfter(entry, VerifierAccepts(entry, proof.sig, Digest, in.signed))
    BY <1>5 DEF SpawnVerifier
  <2>2. /\ next \in 1..(Len(in.witness.proofs) + 1) /\ in.witness.others_readable
        /\ \A n \in 1..(next - 1) :
             /\ in.witness.proofs[n].framed /\ in.witness.proofs[n].fits_request
             /\ ProofOrdered(n) /\ Admissible(n)
        /\ weight = WeightOf(cell.data.authenticators, VerifiedBefore(next))
    BY <1>2 DEF RunInv, ProofsRead
  <2>3. next \in DOMAIN in.witness.proofs /\ next + 1 \in 1..(Len(in.witness.proofs) + 1)
        /\ 1..((next + 1) - 1) = 1..next /\ 1..next = 1..(next - 1) \cup {next}
    BY <1>1, <1>3, <2>2
  <2>4. proof.framed /\ proof.fits_request /\ ProofOrdered(next) /\ Admissible(next)
    BY <1>1, <1>3, <2>3, ProofErrorsAre
  <2>5. \A n \in 1..next :
          /\ in.witness.proofs[n].framed /\ in.witness.proofs[n].fits_request
          /\ ProofOrdered(n) /\ Admissible(n)
    BY <2>2, <2>3, <2>4
  <2>6. WeightAfter(entry, VerifierAccepts(entry, proof.sig, Digest, in.signed))
          = WeightOf(cell.data.authenticators, VerifiedBefore(next + 1))
    <3>1. PICK e : e = entry
      OBVIOUS
    <3>2. WeightAfter(e, VerifierAccepts(e, in.witness.proofs[next].sig, Digest, in.signed))
            = WeightOf(cell.data.authenticators, VerifiedBefore(next + 1))
      BY <1>3, <2>2, <2>3, <2>4, <2>5, <3>1, WeightStep
    <3> QED
      BY <3>1, <3>2
  <2>7. weight' = WeightOf(cell'.data.authenticators, VerifiedBefore(next)')
    <3>1. Digest' = Digest
      BY <2>1 DEF Digest
    <3>2. VerifiedBefore(next)' = VerifiedBefore(next + 1)
      BY <2>1, <3>1 DEF VerifiedBefore
    <3> QED
      BY <2>1, <2>6, <3>2
  <2>8. ProofsRead'
    BY <1>1, <2>1, <2>2, <2>3, <2>5, <2>7, SameExecution DEF ProofsRead, AfterSighash
  <2> QED
    BY <1>1, <2>1, <2>8 DEF RunInv, Running, WitnessRead, StateFound, BeforeProofs,
      AbstractStep
<1> QED
  BY <1>4, <1>5

LEMMA EndStep ==
  ASSUME RunInv, EndProofs
  PROVE  RunInv' /\ AbstractStep
<1> DEFINE errors == FailIf(in.witness.trailing_bytes, "InvalidWitness")
<1>1. /\ pc = "proofs" /\ UNCHANGED <<in, faulted, next, weight, cell>>
      /\ next > Len(in.witness.proofs)
      /\ \/ errors # {} /\ verdict' \in errors /\ pc' = "exit"
         \/ errors = {} /\ verdict' = verdict /\ pc' = "threshold"
  BY CheckStep DEF EndProofs
<1>2. pc \in AfterSighash
  BY <1>1 DEF AfterSighash
<1>3. in \in Cases /\ pc \in AfterResolve /\ Len(in.witness.proofs) \in Nat
  BY <1>2, PastSighash
<1>4. (errors = {}) <=> ~in.witness.trailing_bytes
  BY DEF FailIf
<1>5. errors \subseteq Promise!Errors
  BY DEF FailIf, Promise!Errors
<1> HIDE DEF errors
<1>6. CASE errors # {}
  <2>1. ~Promise!Acceptable(in)
    BY <1>3, <1>4, <1>6, AcceptableCell DEF Promise!WitnessWellFormed
  <2> QED
    BY <1>1, <1>5, <1>6, <2>1, Rejects, ExitKeepsInv DEF AbstractStep
<1>7. CASE errors = {}
  <2>1. pc' = "threshold" /\ verdict' = verdict
    BY <1>1, <1>7
  <2>2. /\ next \in 1..(Len(in.witness.proofs) + 1) /\ in.witness.others_readable
        /\ \A n \in 1..(next - 1) :
             /\ in.witness.proofs[n].framed /\ in.witness.proofs[n].fits_request
             /\ ProofOrdered(n) /\ Admissible(n)
        /\ weight = WeightOf(cell.data.authenticators, VerifiedBefore(next))
    BY <1>2 DEF RunInv, ProofsRead
  <2>3. next = Len(in.witness.proofs) + 1
    BY <1>1, <1>3, <2>2
  <2>4. weight' = WeightOf(cell'.data.authenticators, VerifiedBefore(next)')
    <3>1. Digest' = Digest
      BY <1>1 DEF Digest
    <3>2. VerifiedBefore(next)' = VerifiedBefore(next)
      BY <1>1, <3>1 DEF VerifiedBefore
    <3> QED
      BY <1>1, <2>2, <3>2
  <2>5. ProofsRead'
    BY <1>1, <1>4, <1>7, <2>1, <2>2, <2>3, <2>4, SameExecution DEF ProofsRead
  <2> QED
    BY <1>1, <2>1, <2>5 DEF RunInv, Running, WitnessRead, StateFound, BeforeProofs,
      AfterArgs, AfterWitness, AfterResolve, AfterState, AfterSequence, AfterTransition,
      AfterSighash, AbstractStep
<1> QED
  BY <1>6, <1>7


\* Behind the last proof the witness is well formed, every proof admissible, and the
\* authenticators counted are the ones the promise counts.
LEMMA AllProofsRead ==
  ASSUME RunInv, pc = "threshold"
  PROVE  /\ Promise!WitnessWellFormed(in.witness)
         /\ ProofsAdmissible(in.witness.operation, in.tx, Sigs(in), cell.data)
         /\ VerifiedAuthenticators(in.witness.operation, in.tx, Sigs(in), cell.data, in.signed)
              = VerifiedBefore(next)
<1> DEFINE proofs == in.witness.proofs
           a == cell.data.authenticators
<1>1. pc \in AfterSighash /\ pc \in AfterWitness
  BY DEF AfterSighash, AfterTransition, AfterSequence, AfterState, AfterResolve, AfterWitness
<1>2. /\ in \in Cases /\ Len(proofs) \in Nat /\ DOMAIN proofs = 1..Len(proofs)
      /\ Listed(proofs) /\ \A n \in DOMAIN proofs : proofs[n].slot \in Nat
  BY <1>1, PastSighash, CasesTyped
<1>3. /\ next = Len(proofs) + 1 /\ ~in.witness.trailing_bytes /\ in.witness.others_readable
      /\ \A n \in 1..(next - 1) :
           proofs[n].framed /\ proofs[n].fits_request /\ ProofOrdered(n) /\ Admissible(n)
  BY <1>1 DEF RunInv, ProofsRead
<1>4. 1..(next - 1) = DOMAIN proofs
  BY <1>2, <1>3
<1>5. \A m, n \in DOMAIN proofs : m < n => proofs[m].slot < proofs[n].slot
  <2>1. ASSUME NEW n \in 2..Len(proofs) PROVE proofs[n - 1].slot < proofs[n].slot
    <3>1. n \in DOMAIN proofs /\ n - 1 \in DOMAIN proofs /\ n > 1
      BY <1>2
    <3>2. proofs[n].slot > proofs[n - 1].slot
      BY <1>3, <1>4, <3>1 DEF ProofOrdered
    <3> QED
      BY <1>2, <3>1, <3>2
  <2>2. Len(proofs) <= Len(proofs)
    BY <1>2
  <2> HIDE DEF proofs
  <2> QED
    BY <1>2, <2>1, <2>2, NeighboursIncrease
<1>6. Promise!WitnessWellFormed(in.witness)
  <2>1. /\ in.witness.lock_readable /\ in.witness.header_parses
        /\ Len(proofs) <= AUTHENTICATOR_MAX_COUNT
    BY <1>1 DEF RunInv, WitnessRead
  <2> QED
    BY <1>3, <1>4, <1>5, <2>1 DEF Promise!WitnessWellFormed
<1>7. /\ DOMAIN Sigs(in) = {proofs[n].slot : n \in DOMAIN proofs}
      /\ \A n \in DOMAIN proofs : Sigs(in)[proofs[n].slot] = proofs[n].sig
  <2>1. \A m, n \in DOMAIN proofs : proofs[m].slot = proofs[n].slot => m = n
    <3> SUFFICES ASSUME NEW m \in DOMAIN proofs, NEW n \in DOMAIN proofs,
                        proofs[m].slot = proofs[n].slot
                 PROVE  m = n
      OBVIOUS
    <3>1. ~(m < n) /\ ~(n < m)
      BY <1>2, <1>5
    <3> QED
      BY <1>2, <3>1
  <2>2. DOMAIN Sigs(in) = {proofs[n].slot : n \in DOMAIN proofs}
    BY DEF Sigs, Promise!ProofsBySlot
  <2>3. ASSUME NEW n \in DOMAIN proofs PROVE Sigs(in)[proofs[n].slot] = proofs[n].sig
    <3>1. PICK slot : slot = proofs[n].slot
      OBVIOUS
    <3>2. Sigs(in)[slot] = proofs[CHOOSE i \in DOMAIN proofs : proofs[i].slot = slot].sig
      BY <3>1 DEF Sigs, Promise!ProofsBySlot
    <3>3. (CHOOSE i \in DOMAIN proofs : proofs[i].slot = slot) = n
      BY <2>1, <3>1
    <3> QED
      BY <3>1, <3>2, <3>3
  <2> QED
    BY <2>2, <2>3
<1>8. ProofsAdmissible(in.witness.operation, in.tx, Sigs(in), cell.data)
  <2> SUFFICES ASSUME NEW slot \in DOMAIN Sigs(in)
               PROVE  \E i \in DOMAIN a :
                        /\ a[i].slot = slot
                        /\ capability_for_operation(in.witness.operation) \in a[i].capabilities
                        /\ resolve_verifier(a[i], in.tx) /\ encode_request(a[i])
    BY DEF ProofsAdmissible
  <2>1. PICK n \in DOMAIN proofs : slot = proofs[n].slot
    BY <1>7
  <2>2. Admissible(n)
    BY <1>3, <1>4
  <2> QED
    BY <2>1, <2>2 DEF Admissible
<1>9. VerifiedAuthenticators(in.witness.operation, in.tx, Sigs(in), cell.data, in.signed)
        = VerifiedBefore(next)
  <2> DEFINE Ok(i, sig) == VerifierAccepts(a[i], sig, Digest, in.signed)
  <2>1. VerifiedAuthenticators(in.witness.operation, in.tx, Sigs(in), cell.data, in.signed)
          = {i \in DOMAIN a : a[i].slot \in DOMAIN Sigs(in) /\ Ok(i, Sigs(in)[a[i].slot])}
    BY DEF VerifiedAuthenticators, Digest
  <2>2. VerifiedBefore(next)
          = {i \in DOMAIN a : \E n \in DOMAIN proofs : proofs[n].slot = a[i].slot /\ Ok(i, proofs[n].sig)}
    BY <1>4 DEF VerifiedBefore
  <2> HIDE DEF Ok, proofs, a
  <2>3. ASSUME NEW i
        PROVE  (a[i].slot \in DOMAIN Sigs(in) /\ Ok(i, Sigs(in)[a[i].slot]))
                 <=> \E n \in DOMAIN proofs : proofs[n].slot = a[i].slot /\ Ok(i, proofs[n].sig)
    BY <1>7
  <2> QED
    BY <2>1, <2>2, <2>3
<1> QED
  BY <1>6, <1>8, <1>9

LEMMA ThresholdStep ==
  ASSUME RunInv, CheckThreshold
  PROVE  RunInv' /\ AbstractStep
<1> DEFINE threshold == threshold_for_operation(in.witness.operation, cell.data)
<1>1. /\ pc = "threshold" /\ pc' = "exit" /\ UNCHANGED <<in, faulted>>
      /\ verdict' = IF weight < threshold THEN "ThresholdUnsatisfied" ELSE "Ok"
  BY DEF CheckThreshold, Exit
<1>2. pc \in AfterSighash /\ pc \in AfterTransition /\ pc \in AfterSequence
  BY <1>1 DEF AfterSighash, AfterTransition, AfterSequence
<1>3. /\ in \in Cases /\ StateFields(cell.data) /\ validate_state(cell.data)
      /\ pc \in AfterResolve /\ verdict = "none"
  BY <1>2, PastSighash
<1>4. weight = WeightOf(cell.data.authenticators, VerifiedBefore(next))
  BY <1>2 DEF RunInv, ProofsRead
<1>5. weight \in Nat
  <2>1. IsFiniteSet(VerifiedBefore(next))
        /\ \A i \in VerifiedBefore(next) : cell.data.authenticators[i].weight \in Nat
    BY <1>3, VerifiedFinite
  <2> QED
    BY <1>4, <2>1, WeightFacts
<1>6. threshold \in Nat
  <2>1. in.witness.operation \in Operations
    BY <1>3, CasesTyped
  <2> QED
    BY <1>3, <2>1 DEF threshold_for_operation, Operations, StateFields
<1>7. Promise!Acceptable(in) <=> weight >= threshold
  <2>1. /\ in.witness.state_sequence = cell.data.sequence
        /\ validate_transition(in.witness.operation, in.tx, cell.data)
    BY <1>2 DEF RunInv, StateFound
  <2>2. ThresholdReached(in.witness.operation, in.tx, Sigs(in), cell.data, in.signed)
          <=> weight >= threshold
    BY <1>1, <1>4, AllProofsRead DEF ThresholdReached
  <2> HIDE DEF threshold
  <2> QED
    BY <1>1, <1>3, <2>1, <2>2, AcceptableCell, AllProofsRead DEF ProofsSuffice
<1> HIDE DEF threshold
<1>8. (weight < threshold) <=> ~(weight >= threshold)
  BY <1>5, <1>6
<1>9. Promise!Decide
  <2>1. "ThresholdUnsatisfied" \in Promise!Errors
    BY DEF Promise!Errors
  <2> QED
    BY <1>1, <1>3, <1>7, <1>8, <2>1 DEF Promise!Decide
<1> QED
  BY <1>1, <1>9, ExitKeepsInv DEF AbstractStep

LEMMA NextRunInv ==
  ASSUME RunInv, [Next]_vars
  PROVE  RunInv' /\ AbstractStep
<1>1. CASE Next
  BY <1>1, ParseStep, ResolveStep, ValidateStep, SighashStep, ProofFailsStep, SpawnStep, EndStep,
     ThresholdStep DEF Next
<1>2. CASE UNCHANGED vars
  <2>1. /\ in' = in /\ verdict' = verdict /\ faulted' = faulted /\ pc' = pc /\ cell' = cell
        /\ next' = next /\ weight' = weight
    BY <1>2 DEF vars
  <2>2. Digest' = Digest
    BY <2>1 DEF Digest
  <2>3. VerifiedBefore(next)' = VerifiedBefore(next)
    BY <2>1, <2>2 DEF VerifiedBefore
  <2>4. ProofsRead'
    BY <2>1, <2>3, SameExecution DEF RunInv, ProofsRead
  <2>5. Running' /\ WitnessRead' /\ StateFound'
    BY <2>1 DEF RunInv, Running, WitnessRead, StateFound
  <2> QED
    BY <2>1, <2>4, <2>5 DEF RunInv, AbstractStep
<1> QED
  BY <1>1, <1>2
-----------------------------------------------------------------------------
\* What run() has established stays established until it exits.
THEOREM RunInvariant == Spec => []RunInv
<1>1. RunInv /\ [Next]_vars => RunInv'
  BY NextRunInv
<1> QED
  BY <1>1, InitRunInv, PTL DEF Spec

\* The weight run() has counted is always the weight of the set of authenticators with
\* a verified proof among those read: no proof counts twice, none that its verifier
\* rejects counts at all.
THEOREM WeightCounted == Spec => []WeightOfVerifiedSet
<1>1. RunInv => WeightOfVerifiedSet
  BY DEF RunInv, ProofsRead, WeightOfVerifiedSet, VerifiedBefore, AfterSighash
<1> QED
  BY <1>1, RunInvariant, PTL

\* The checks of run(), in the order and with the early returns it has, decide exactly
\* what the lock promises: it exits once, with Ok exactly for a transaction
\* AccountLock!Accepts describes, and otherwise with an error of ProtocolError; only a
\* failing syscall may make it refuse one it should accept.
THEOREM RunImplementsPromise ==
  Spec => Promise!AbstractInit /\ [][Promise!Decide]_(Promise!abstractVars)
<1>1. Init => Promise!AbstractInit
  BY DEF Init, Promise!AbstractInit
<1>2. RunInv /\ [Next]_vars => [Promise!Decide]_(Promise!abstractVars)
  BY NextRunInv DEF AbstractStep, Promise!abstractVars
<1> QED
  BY <1>1, <1>2, RunInvariant, PTL DEF Spec

-----------------------------------------------------------------------------
(***************************************************************************)
(* What the liveness part of KeepsPromise rests on: every step of run()    *)
(* uses up some of what is left of it, so it exits within that many steps. *)
(***************************************************************************)
\* The checks and proofs run() has before it: check is the one that comes next, n the
\* position of the next proof among len.
ChecksLeft(check, n, len) ==
  IF check = "args" THEN len + 10
  ELSE IF check = "witness" THEN len + 9
  ELSE IF check = "resolve" THEN len + 8
  ELSE IF check = "state" THEN len + 7
  ELSE IF check = "sequence" THEN len + 6
  ELSE IF check = "transition" THEN len + 5
  ELSE IF check = "sighash" THEN len + 4
  ELSE IF check = "proofs" THEN ((len + 1) - n) + 2
  ELSE IF check = "threshold" THEN 1
  ELSE 0

\* The check that comes after each of those before the proofs, when it passes.
Succession ==
  {<<"args", "witness">>, <<"witness", "resolve">>, <<"resolve", "state">>, <<"state", "sequence">>,
   <<"sequence", "transition">>, <<"transition", "sighash">>, <<"sighash", "proofs">>}

RunLeft == ChecksLeft(pc, next, Len(in.witness.proofs))

LEMMA ChecksLeftIs ==
  ASSUME NEW n, NEW len
  PROVE  /\ ChecksLeft("args", n, len) = len + 10
         /\ ChecksLeft("witness", n, len) = len + 9
         /\ ChecksLeft("resolve", n, len) = len + 8
         /\ ChecksLeft("state", n, len) = len + 7
         /\ ChecksLeft("sequence", n, len) = len + 6
         /\ ChecksLeft("transition", n, len) = len + 5
         /\ ChecksLeft("sighash", n, len) = len + 4
         /\ ChecksLeft("proofs", n, len) = ((len + 1) - n) + 2
         /\ ChecksLeft("threshold", n, len) = 1
         /\ ChecksLeft("exit", n, len) = 0
BY DEF ChecksLeft

\* The next proof is at most one past the last, and there is one while run() is at work.
LEMMA ProofPosition ==
  ASSUME RunInv
  PROVE  /\ Len(in.witness.proofs) \in Nat
         /\ pc \in BeforeProofs => next = 1
         /\ pc = "proofs" => next \in 1..(Len(in.witness.proofs) + 1)
<1>1. in \in Cases
  BY DEF RunInv, Running
<1>2. Len(in.witness.proofs) \in Nat
  BY <1>1, CasesTyped DEF Listed
<1> QED
  BY <1>2 DEF RunInv, Running, ProofsRead, AfterSighash

\* Before the exit something is left.
LEMMA RunLeftPositive ==
  ASSUME RunInv
  PROVE  RunLeft \in Nat /\ (pc # "exit" => RunLeft > 0)
<1>1. PICK len \in Nat : len = Len(in.witness.proofs)
  BY ProofPosition
<1>2. CASE pc \in BeforeProofs
  <2>1. RunLeft = ChecksLeft(pc, next, len)
    BY <1>1 DEF RunLeft
  <2>2. RunLeft \in {len + 4, len + 5, len + 6, len + 7, len + 8, len + 9, len + 10}
    BY <1>2, <2>1, ChecksLeftIs DEF BeforeProofs
  <2> QED
    BY <2>2
<1>3. CASE pc = "proofs"
  <2>1. next \in 1..(len + 1)
    BY <1>1, <1>3, ProofPosition
  <2>2. RunLeft = ((len + 1) - next) + 2
    BY <1>1, <1>3, ChecksLeftIs DEF RunLeft
  <2> QED
    BY <2>1, <2>2
<1>4. CASE pc \in {"threshold", "exit"}
  BY <1>4, ChecksLeftIs DEF RunLeft
<1> QED
  BY <1>2, <1>3, <1>4 DEF RunInv, Running, AfterSighash

\* Exiting uses up all that is left.
LEMMA ExitUsesUp ==
  ASSUME RunInv, pc # "exit", pc' = "exit"
  PROVE  RunLeft' < RunLeft
<1>1. RunLeft' = 0
  BY ChecksLeftIs DEF RunLeft
<1> QED
  BY <1>1, RunLeftPositive

\* Where a step leads: to the exit, to the next check, to the next proof.
LEMMA NextMoves ==
  ASSUME Next
  PROVE  /\ pc # "exit"
         /\ \/ pc' = "exit"
            \/ /\ <<pc, pc'>> \in Succession
               /\ UNCHANGED <<in, next>>
            \/ /\ pc = "proofs" /\ pc' = "proofs"
               /\ next <= Len(in.witness.proofs) /\ next' = next + 1 /\ in' = in
            \/ pc = "proofs" /\ pc' = "threshold"
<1>1. ASSUME NEW check, NEW then, <<check, then>> \in Succession, NEW errors,
             Check(check, errors, then)
      PROVE  pc # "exit" /\ (pc' = "exit" \/ (<<pc, pc'>> \in Succession /\ UNCHANGED <<in, next>>))
  <2>1. check # "exit"
    BY <1>1 DEF Succession
  <2> QED
    BY <1>1, <2>1, CheckStep
<1>s. /\ <<"args", "witness">> \in Succession /\ <<"witness", "resolve">> \in Succession
      /\ <<"resolve", "state">> \in Succession /\ <<"state", "sequence">> \in Succession
      /\ <<"sequence", "transition">> \in Succession /\ <<"transition", "sighash">> \in Succession
      /\ <<"sighash", "proofs">> \in Succession
  BY DEF Succession
<1>2. CASE ParseArgs \/ ParseWitness
  BY <1>1, <1>2, <1>s DEF ParseArgs, ParseWitness
<1>3. CASE ResolveState \/ ValidateState
  BY <1>1, <1>3, <1>s DEF ResolveState, ValidateState
<1>4. CASE CheckSequence \/ ValidateTransition \/ ComputeSighash
  BY <1>1, <1>4, <1>s DEF CheckSequence, ValidateTransition, ComputeSighash
<1>5. CASE ProofFails \/ SpawnFaults \/ CheckThreshold
  BY <1>5 DEF ProofFails, SpawnFaults, CheckThreshold, Exit
<1>6. CASE SpawnVerifier
  BY <1>6 DEF SpawnVerifier
<1>7. CASE EndProofs
  BY <1>7, CheckStep DEF EndProofs
<1> QED
  BY <1>2, <1>3, <1>4, <1>5, <1>6, <1>7 DEF Next

LEMMA NextUsesUp ==
  ASSUME RunInv, RunInv', Next
  PROVE  RunLeft' < RunLeft
<1>1. PICK len \in Nat : len = Len(in.witness.proofs)
  BY ProofPosition
<1>2. CASE <<pc, pc'>> \in Succession /\ UNCHANGED <<in, next>>
  <2>1. next = 1 /\ pc \in BeforeProofs
    BY <1>2, ProofPosition DEF Succession, BeforeProofs
  <2>2. RunLeft = ChecksLeft(pc, 1, len) /\ RunLeft' = ChecksLeft(pc', 1, len)
    BY <1>1, <1>2, <2>1 DEF RunLeft
  <2>3. ChecksLeft("proofs", 1, len) = len + 2
    BY ChecksLeftIs
  <2>4. ASSUME NEW step \in Succession
        PROVE  ChecksLeft(step[2], 1, len) < ChecksLeft(step[1], 1, len)
    BY <2>3, ChecksLeftIs DEF Succession
  <2> QED
    BY <1>2, <2>2, <2>4
<1>3. CASE pc = "proofs" /\ pc' # "exit"
  <2>1. next \in 1..(len + 1) /\ RunLeft = ((len + 1) - next) + 2
    BY <1>1, <1>3, ProofPosition, ChecksLeftIs DEF RunLeft
  <2>2. CASE pc' = "proofs" /\ next <= len /\ next' = next + 1 /\ in' = in
    <3>1. RunLeft' = ((len + 1) - (next + 1)) + 2
      BY <1>1, <2>2, ChecksLeftIs DEF RunLeft
    <3> QED
      BY <2>1, <2>2, <3>1
  <2>3. CASE pc' = "threshold"
    <3>1. RunLeft' = 1
      BY <2>3, ChecksLeftIs DEF RunLeft
    <3> QED
      BY <2>1, <3>1
  <2> QED
    BY <1>1, <1>3, <2>2, <2>3, NextMoves DEF Succession
<1>4. CASE pc' = "exit"
  BY <1>4, NextMoves, ExitUsesUp
<1> QED
  BY <1>2, <1>3, <1>4, NextMoves

\* run() has a number of steps it cannot exceed, whatever the witness, the state cells and
\* the verifiers are: every step uses up some of what is left, and while any of its checks
\* is still ahead something is left.  It never loops, on proofs or otherwise.
THEOREM RunRunsOut ==
  Spec => [](RunLeft \in Nat /\ (pc # "exit" => RunLeft > 0)) /\ [][RunLeft' < RunLeft]_vars
<1>1. RunInv => RunLeft \in Nat /\ (pc # "exit" => RunLeft > 0)
  BY RunLeftPositive
<1>2. RunInv /\ RunInv' /\ [Next]_vars => [RunLeft' < RunLeft]_vars
  BY NextUsesUp
<1> QED
  BY <1>1, <1>2, RunInvariant, PTL DEF Spec
=============================================================================
