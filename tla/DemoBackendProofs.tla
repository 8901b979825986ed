-------------------------- MODULE DemoBackendProofs --------------------------
(***************************************************************************)
(* Account creation in the demo backend, for any number of requests, keys, *)
(* transactions and crashes, with the bootstrap command or without it.     *)
(* The argument: a creation that waits waits for a transaction of its own  *)
(* process and key, a transaction's maker and key never change and what is *)
(* on chain stays there, and the requests that share a creation share its  *)
(* key.  At most one account each then follows because a process only      *)
(* sends after it has seen no manifest, while every account it still might *)
(* have is the one it waits for or came before the manifest.               *)
(***************************************************************************)
EXTENDS DemoBackend, SequenceTheorems, FiniteSetTheorems, TLAPS

Unsent  == [status : {"unsent"}]
Waiting == [status : {"waiting"}, key : PasskeyIds]
Answered == [status : Refusals \cup {"ok"}, key : PasskeyIds, tx : 0..MaxTxs]
Creation == [step : Steps, key : PasskeyIds, tx : 0..MaxTxs]
Tx == [by : Processes, key : PasskeyIds,
       status : {"pending", "committed", "dropped", "rotated"}]
OnChain == {"committed", "rotated"}

RequestsOK == requests \in [Requests -> Unsent \cup Waiting \cup Answered]
ActiveOK == active \in [Processes -> Creation \cup {None}]
TxsOK == txs \in Seq(Tx) /\ Len(txs) <= MaxTxs
RestOK ==
  /\ verified \in BOOLEAN
  /\ manifest \in [tx : 1..MaxTxs, key : PasskeyIds] \cup {NoManifest}
  /\ crashes \in 0..MaxCrashes
  /\ lost \in BOOLEAN

\* A creation that waits waits for a transaction of its own.
WaitsForOwn ==
  \A p \in Processes :
    At(p, "wait") => /\ active[p].tx \in DOMAIN txs
                     /\ txs[active[p].tx].by = p
                     /\ txs[active[p].tx].key = active[p].key

ManifestRecords ==
  manifest # NoManifest => /\ manifest.tx \in DOMAIN txs
                           /\ txs[manifest.tx].status \in OnChain
                           /\ txs[manifest.tx].key = manifest.key

\* The server compares with a manifest it has seen, and no manifest goes away.
ComparesManifest == At("server", "compare") => manifest # NoManifest

AnswersRecord ==
  \A r \in Requests :
    requests[r].status = "ok" => /\ requests[r].tx \in DOMAIN txs
                                 /\ txs[requests[r].tx].status \in OnChain
                                 /\ txs[requests[r].tx].key = requests[r].key

\* The requests that wait share the server's creation, which is for their key.
SharedKey ==
  \A r \in Requests :
    requests[r].status = "waiting" => active["server"] # None
                                      /\ active["server"].key = requests[r].key

\* Why a process has one account at most: it never has one when it sends, and one it
\* may have is what it waits for, unless there is a manifest.
OneEach ==
  \A p \in Processes :
    /\ \A i, j \in AccountsOf(p) : i = j
    /\ At(p, "send") => AccountsOf(p) = {}
    /\ manifest = NoManifest =>
         \A i \in AccountsOf(p) : At(p, "wait") /\ active[p].tx = i

\* The inductive invariant.
BackendInv ==
  /\ RequestsOK /\ ActiveOK /\ TxsOK /\ RestOK
  /\ WaitsForOwn /\ ManifestRecords /\ ComparesManifest /\ AnswersRecord /\ SharedKey
  /\ lost \/ OneEach

\* What happens to the transactions: they stay, with their maker and key, and so
\* does what is on chain, and what is dropped.
TxsStay ==
  \A i \in DOMAIN txs :
    /\ i \in DOMAIN txs'
    /\ txs'[i].by = txs[i].by /\ txs'[i].key = txs[i].key
    /\ txs[i].status \in OnChain => txs'[i].status \in OnChain
    /\ txs[i].status = "dropped" => txs'[i].status = "dropped"

\* What a creation under way and an answer hold.
LEMMA CreationFields ==
  ASSUME ActiveOK, NEW p \in Processes, active[p] # None
  PROVE  /\ active[p] \in Creation
         /\ active[p].step \in Steps /\ active[p].key \in PasskeyIds
         /\ active[p].tx \in 0..MaxTxs
BY DEF ActiveOK, Creation

LEMMA NoCreation ==
  ASSUME ActiveOK, NEW p \in Processes
  PROVE  active[p] = None <=> active[p].step = "none"
<1>1. ASSUME active[p] # None PROVE active[p].step # "none"
  BY <1>1, CreationFields DEF Steps
<1>2. active[p] = None => active[p].step = "none"
  BY DEF None
<1> QED
  BY <1>1, <1>2

LEMMA WaitingFields ==
  ASSUME RequestsOK, NEW r \in Requests, requests[r].status = "waiting"
  PROVE  requests[r].key \in PasskeyIds
<1>1. requests[r] \in Unsent \/ requests[r] \in Waiting \/ requests[r] \in Answered
  BY DEF RequestsOK
<1>2. requests[r] \notin Unsent
  BY DEF Unsent
<1>3. requests[r] \notin Answered
  BY DEF Answered, Refusals, RpcFailed
<1> QED
  BY <1>1, <1>2, <1>3 DEF Waiting

\* A node accepts a transaction: it comes last.
LEMMA AcceptedLast ==
  ASSUME TxsOK, NEW p \in Processes, active[p].key \in PasskeyIds, txs' = Accepted(p)
  PROVE  /\ txs' \in Seq(Tx) /\ Len(txs') = Len(txs) + 1
         /\ DOMAIN txs' = DOMAIN txs \cup {Len(txs) + 1}
         /\ Len(txs) + 1 \notin DOMAIN txs
         /\ \A i \in DOMAIN txs : txs'[i] = txs[i]
         /\ txs'[Len(txs) + 1] = [by |-> p, key |-> active[p].key, status |-> "pending"]
<1> DEFINE new == [by |-> p, key |-> active[p].key, status |-> "pending"]
<1>1. new \in Tx
  BY DEF Tx
<1>2. txs \in Seq(Tx) /\ txs' = Append(txs, new) /\ Len(txs) \in Nat
  BY DEF TxsOK, Accepted
<1> HIDE DEF new
<1>3. /\ txs' \in Seq(Tx) /\ Len(txs') = Len(txs) + 1
      /\ \A i \in 1..Len(txs) : txs'[i] = txs[i]
      /\ txs'[Len(txs) + 1] = new
  BY <1>1, <1>2, AppendProperties
<1>4. DOMAIN txs' = 1..(Len(txs) + 1) /\ DOMAIN txs = 1..Len(txs)
  BY <1>2, <1>3
<1> QED
  BY <1>2, <1>3, <1>4 DEF new

\* The chain's steps keep the order of what has happened to a transaction.
LEMMA ChainStepFacts ==
  ASSUME TxsOK, NEW i \in DOMAIN txs, ChainStep(i)
  PROVE  /\ TxsOK' /\ TxsStay
         /\ DOMAIN txs' = DOMAIN txs
<1>1. PICK next \in (CASE txs[i].status = "pending"   -> {"committed", "dropped"}
                       [] txs[i].status = "committed" -> {"rotated"}
                       [] OTHER                       -> {}) :
        txs' = [txs EXCEPT ![i].status = next]
  BY DEF ChainStep
<1>2. txs \in Seq(Tx) /\ Len(txs) \in Nat /\ DOMAIN txs = 1..Len(txs) /\ txs[i] \in Tx
  BY DEF TxsOK
<1>3. txs[i].status \in {"pending", "committed", "dropped", "rotated"}
  BY <1>2 DEF Tx
<1>4. \/ txs[i].status = "pending" /\ next \in {"committed", "dropped"}
      \/ txs[i].status = "committed" /\ next = "rotated"
  BY <1>1, <1>3
<1>5. [txs[i] EXCEPT !.status = next] \in Tx
  BY <1>2, <1>4 DEF Tx
<1>6. txs' = [txs EXCEPT ![i] = [txs[i] EXCEPT !.status = next]]
  BY <1>1
<1>7. txs' \in Seq(Tx) /\ Len(txs') = Len(txs) /\ DOMAIN txs' = DOMAIN txs
  BY <1>2, <1>5, <1>6, ExceptSeq
<1>8. txs'[i] = [txs[i] EXCEPT !.status = next] /\ \A j \in DOMAIN txs \ {i} : txs'[j] = txs[j]
  BY <1>2, <1>6
<1>9. /\ txs'[i].status = next
      /\ txs'[i].by = txs[i].by /\ txs'[i].key = txs[i].key
  BY <1>2, <1>8 DEF Tx
<1>10. TxsStay
  BY <1>4, <1>7, <1>8, <1>9 DEF TxsStay, OnChain
<1> QED
  BY <1>7, <1>10 DEF TxsOK

\* Everything but the last conjunct of the invariant.
Records ==
  /\ RequestsOK /\ ActiveOK /\ TxsOK /\ RestOK
  /\ WaitsForOwn /\ ManifestRecords /\ ComparesManifest /\ AnswersRecord /\ SharedKey

\* What is recorded of transactions stays true when they move on.
LEMMA RecordsStay ==
  ASSUME ManifestRecords, AnswersRecord, WaitsForOwn, TxsStay
  PROVE  /\ UNCHANGED manifest => ManifestRecords'
         /\ UNCHANGED requests => AnswersRecord'
         /\ UNCHANGED active => WaitsForOwn'
BY DEF ManifestRecords, AnswersRecord, WaitsForOwn, TxsStay, At

\* A creation ends, well or not: those who waited are answered with an account of
\* their key that is on chain, or with none.
LEMMA SettleKeepsRecords ==
  ASSUME Records, NEW p \in Processes, NEW status \in Refusals \cup {"ok"},
         NEW tx \in 0..MaxTxs, Settle(p, status, tx), TxsStay,
         manifest' = manifest \/ manifest' # NoManifest,
         status = "ok" => /\ tx \in DOMAIN txs /\ txs[tx].status \in OnChain
                          /\ txs[tx].key = active[p].key
  PROVE  RequestsOK' /\ ActiveOK' /\ WaitsForOwn' /\ ComparesManifest' /\ AnswersRecord' /\ SharedKey'
<1> USE DEF Records
<1>1. active' = [active EXCEPT ![p] = None]
  BY DEF Settle
<1>2. ActiveOK'
  BY <1>1 DEF ActiveOK
<1>3. active'[p] = None /\ \A q \in Processes \ {p} : active'[q] = active[q]
  BY <1>1 DEF ActiveOK
<1>4. WaitsForOwn'
  <2>1. active'[p].step # "wait"
    BY <1>3 DEF None
  <2> QED
    BY <1>3, <2>1 DEF WaitsForOwn, TxsStay, At
<1>7. ComparesManifest'
  <2>1. active'["server"].step = "compare" => active["server"].step = "compare"
    BY <1>3, BackendConstants DEF None
  <2> QED
    BY <2>1 DEF ComparesManifest, At
<1>5. CASE p # "server"
  <2>1. requests' = requests
    BY <1>5 DEF Settle
  <2>2. active'["server"] = active["server"]
    BY <1>3, <1>5, BackendConstants
  <2> QED
    BY <1>2, <1>4, <1>7, <2>1, <2>2, RecordsStay DEF RequestsOK, SharedKey
<1>6. CASE p = "server"
  <2>1. requests' = [r \in Requests |->
                       IF requests[r].status = "waiting"
                         THEN [status |-> status, key |-> requests[r].key, tx |-> tx]
                         ELSE requests[r]]
    BY <1>6 DEF Settle
  <2>2. ASSUME NEW r \in Requests, requests[r].status = "waiting"
        PROVE  /\ requests'[r] \in Answered
               /\ requests'[r].status = status /\ requests'[r].tx = tx
               /\ requests'[r].key = active[p].key
    <3>1. requests[r].key \in PasskeyIds
      BY <2>2, WaitingFields
    <3>2. requests'[r] = [status |-> status, key |-> requests[r].key, tx |-> tx]
      BY <2>1, <2>2
    <3>3. requests[r].key = active[p].key
      BY <1>6, <2>2 DEF SharedKey
    <3> QED
      BY <3>1, <3>2, <3>3 DEF Answered
  <2>3. ASSUME NEW r \in Requests, requests[r].status # "waiting"
        PROVE  requests'[r] = requests[r]
    BY <2>1, <2>3
  <2>4. RequestsOK'
    <3>1. \A r \in Requests : requests'[r] \in Unsent \cup Waiting \cup Answered
      BY <2>2, <2>3 DEF RequestsOK
    <3> QED
      BY <2>1, <3>1 DEF RequestsOK
  <2>5. SharedKey'
    <3>1. status # "waiting"
      BY DEF Refusals, RpcFailed
    <3> QED
      BY <2>2, <2>3, <3>1 DEF SharedKey
  <2>6. AnswersRecord'
    BY <2>2, <2>3 DEF AnswersRecord, TxsStay
  <2> QED
    BY <1>2, <1>4, <1>7, <2>4, <2>5, <2>6
<1> QED
  BY <1>5, <1>6

LEMMA FailKeepsRecords ==
  ASSUME Records, NEW p \in Processes, NEW status \in Refusals, Fail(p, status), TxsStay,
         UNCHANGED manifest
  PROVE  RequestsOK' /\ ActiveOK' /\ WaitsForOwn' /\ ComparesManifest' /\ AnswersRecord' /\ SharedKey'
<1>1. status # "ok"
  BY DEF Refusals, RpcFailed
<1>2. 0 \in 0..MaxTxs
  BY BackendConstants
<1> QED
  BY <1>1, <1>2, SettleKeepsRecords DEF Fail

\* A creation gets on to a step before the wait.
LEMMA GotoKeepsRecords ==
  ASSUME Records, NEW p \in Processes, NEW step \in Steps \ {"wait"}, active[p] # None,
         Goto(p, step), UNCHANGED <<requests, txs, manifest>>,
         p = "server" /\ step = "compare" => manifest # NoManifest
  PROVE  /\ RequestsOK' /\ ActiveOK' /\ WaitsForOwn' /\ ComparesManifest' /\ AnswersRecord' /\ SharedKey'
         /\ active'[p].step = step /\ active'[p] # None
         /\ \A q \in Processes \ {p} : active'[q] = active[q]
<1> USE DEF Records
<1>1. active[p] \in Creation
  BY CreationFields
<1>2. active' = [active EXCEPT ![p] = [active[p] EXCEPT !.step = step]]
  BY DEF Goto
<1>3. /\ [active[p] EXCEPT !.step = step] \in Creation
      /\ [active[p] EXCEPT !.step = step].key = active[p].key
      /\ [active[p] EXCEPT !.step = step].step = step
  BY <1>1 DEF Creation
<1>4. /\ active'[p].step = step /\ active'[p].key = active[p].key /\ active'[p] \in Creation
      /\ \A q \in Processes \ {p} : active'[q] = active[q]
  BY <1>2, <1>3 DEF ActiveOK
<1>5. ActiveOK'
  BY <1>2, <1>3 DEF ActiveOK
<1>6. active'[p] # None
  BY <1>4 DEF None, Steps
<1>7. WaitsForOwn'
  BY <1>4 DEF WaitsForOwn, At
<1>8. SharedKey'
  BY <1>4, <1>6, BackendConstants DEF SharedKey
<1>9. RequestsOK' /\ AnswersRecord'
  BY DEF RequestsOK, AnswersRecord
<1>10. ComparesManifest'
  BY <1>4, BackendConstants DEF ComparesManifest, At
<1> QED
  BY <1>4, <1>5, <1>6, <1>7, <1>8, <1>9, <1>10

LEMMA SameTxs == UNCHANGED txs => TxsStay
BY DEF TxsStay

\* The actions that leave the rest alone, once requests and active are dealt with.
LEMMA RestKept ==
  ASSUME Records, UNCHANGED <<manifest, txs, crashes>>, verified' \in BOOLEAN, lost' \in BOOLEAN
  PROVE  TxsOK' /\ RestOK' /\ ManifestRecords'
BY DEF Records, TxsOK, RestOK, ManifestRecords

\* Every status a creation can fail with is a refusal.
LEMMA RefusalStatuses ==
  /\ "ACCOUNT_MISMATCH" \in Refusals /\ "DEPLOYMENT_INVALID" \in Refusals
  /\ "BOOTSTRAP_FAILED" \in Refusals /\ "INSUFFICIENT_BALANCE" \in Refusals
  /\ "CONFIRMATION_TIMEOUT" \in Refusals /\ RpcFailed \in Refusals /\ "no answer" \in Refusals
BY DEF Refusals

\* A request joins the creation for its key, starts one, or is refused.
LEMMA BootstrapKeepsRecords ==
  ASSUME Records, NEW r \in Requests, NEW key \in PasskeyIds, Bootstrap(r, key)
  PROVE  Records'
<1> USE DEF Records
<1>1. /\ requests[r].status = "unsent"
      /\ UNCHANGED <<verified, manifest, txs, crashes, lost>>
  BY DEF Bootstrap
<1>2. TxsOK' /\ RestOK' /\ ManifestRecords'
  BY <1>1, RestKept DEF RestOK
<1>3. "server" \in Processes /\ 0 \in 0..MaxTxs
  BY BackendConstants
<1>4. CASE OtherKeyActive(key)
  <2>1. /\ requests' = [requests EXCEPT ![r] = [status |-> "ACCOUNT_MISMATCH", key |-> key, tx |-> 0]]
        /\ active' = active
    BY <1>4 DEF Bootstrap
  <2>2. [status |-> "ACCOUNT_MISMATCH", key |-> key, tx |-> 0] \in Answered
    BY <1>3, RefusalStatuses DEF Answered
  <2>3. RequestsOK'
    BY <2>1, <2>2 DEF RequestsOK
  <2>4. ActiveOK' /\ WaitsForOwn' /\ ComparesManifest'
    BY <1>1, <2>1, RecordsStay, SameTxs DEF ActiveOK, ComparesManifest, At
  <2>5. /\ requests'[r].status = "ACCOUNT_MISMATCH"
        /\ \A q \in Requests \ {r} : requests'[q] = requests[q]
    BY <2>1 DEF RequestsOK
  <2>6. AnswersRecord' /\ SharedKey'
    BY <1>1, <2>1, <2>5 DEF AnswersRecord, SharedKey
  <2> QED
    BY <1>2, <2>3, <2>4, <2>6
<1>5. CASE ~OtherKeyActive(key)
  <2> DEFINE fresh == [step |-> "verify", key |-> key, tx |-> 0]
  <2>1. /\ requests' = [requests EXCEPT ![r] = [status |-> "waiting", key |-> key]]
        /\ active' = IF active["server"] # None THEN active
                     ELSE [active EXCEPT !["server"] = fresh]
    BY <1>5 DEF Bootstrap
  <2>2. RequestsOK'
    <3>1. [status |-> "waiting", key |-> key] \in Waiting
      BY DEF Waiting
    <3> QED
      BY <2>1, <3>1 DEF RequestsOK
  <2>3. fresh \in Creation /\ fresh # None /\ fresh.step = "verify" /\ fresh.key = key
    BY <1>3 DEF Creation, Steps, None
  <2> HIDE DEF fresh
  <2>4. ActiveOK'
    BY <2>1, <2>3 DEF ActiveOK
  <2>5. /\ active'["server"] # None /\ active'["server"].key = key
        /\ active["server"] # None => active' = active
        /\ active["server"] = None => active'["server"].step = "verify"
        /\ \A q \in Processes \ {"server"} : active'[q] = active[q]
    BY <1>3, <1>5, <2>1, <2>3 DEF ActiveOK, OtherKeyActive
  <2>6. WaitsForOwn' /\ ComparesManifest'
    BY <1>1, <2>5 DEF WaitsForOwn, ComparesManifest, At
  <2>7. /\ requests'[r].status = "waiting" /\ requests'[r].key = key
        /\ \A q \in Requests \ {r} : requests'[q] = requests[q]
    BY <2>1 DEF RequestsOK
  <2>8. AnswersRecord' /\ SharedKey'
    BY <1>1, <2>5, <2>7 DEF AnswersRecord, SharedKey
  <2> QED
    BY <1>2, <2>2, <2>4, <2>6, <2>8
<1> QED
  BY <1>4, <1>5

\* The server's checks before it creates an account.
LEMMA ChecksKeepRecords ==
  ASSUME Records,
         VerifyDeployment \/ ExportState \/ LookUpAccount \/ CompareExisting \/ CheckBalance
  PROVE  Records' /\ lost' = lost /\ txs' = txs /\ manifest' = manifest
         /\ ~At("server", "wait")
         /\ active'["server"].step \notin {"send", "wait"}
         /\ \A q \in Processes \ {"server"} : active'[q] = active[q]
<1>1. /\ UNCHANGED <<manifest, txs, crashes, lost>>
      /\ verified' \in BOOLEAN
  BY DEF Records, RestOK, VerifyDeployment, ExportState, LookUpAccount, CompareExisting, CheckBalance
<1>2. TxsOK' /\ RestOK' /\ ManifestRecords' /\ TxsStay
  BY <1>1, RestKept, SameTxs DEF Records, RestOK
<1>3. "server" \in Processes
  BY BackendConstants
<1>4. active["server"].step \in {"verify", "export", "lookup", "compare", "balance"}
  BY DEF At, VerifyDeployment, ExportState, LookUpAccount, CompareExisting, CheckBalance
<1>5. active["server"] # None
  BY <1>4 DEF None
<1>6. \/ \E step \in {"export", "lookup", "balance", "check"} :
            Goto("server", step) /\ UNCHANGED requests
      \/ Goto("server", "compare") /\ UNCHANGED requests /\ manifest # NoManifest
      \/ \E status \in Refusals : Fail("server", status)
      \/ At("server", "compare") /\ ExistingMatches /\ Settle("server", "ok", manifest.tx)
  <2>1. CASE VerifyDeployment
    BY <2>1, RefusalStatuses DEF VerifyDeployment
  <2>2. CASE ExportState
    BY <2>2, RefusalStatuses DEF ExportState
  <2>3. CASE LookUpAccount
    BY <2>3, RefusalStatuses DEF LookUpAccount
  <2>4. CASE CompareExisting
    BY <2>4, RefusalStatuses DEF CompareExisting
  <2>5. CASE CheckBalance
    BY <2>5, RefusalStatuses DEF CheckBalance
  <2> QED
    BY <2>1, <2>2, <2>3, <2>4, <2>5
<1> DEFINE parts == /\ RequestsOK' /\ ActiveOK' /\ WaitsForOwn' /\ ComparesManifest'
                    /\ AnswersRecord' /\ SharedKey'
                    /\ active'["server"].step \notin {"send", "wait"}
                    /\ \A q \in Processes \ {"server"} : active'[q] = active[q]
<1>7. ASSUME NEW step \in {"export", "lookup", "balance", "check", "compare"},
             Goto("server", step), UNCHANGED requests,
             step = "compare" => manifest # NoManifest
      PROVE  parts
  <2>1. step \in Steps \ {"wait"} /\ step \notin {"send", "wait"}
    BY DEF Steps
  <2> QED
    BY <1>1, <1>3, <1>5, <1>7, <2>1, GotoKeepsRecords
<1>8. ASSUME NEW status, NEW tx, Settle("server", status, tx)
      PROVE  /\ active'["server"].step \notin {"send", "wait"}
             /\ \A q \in Processes \ {"server"} : active'[q] = active[q]
  BY <1>3, <1>8 DEF Settle, Records, ActiveOK, None
<1>9. ASSUME NEW status \in Refusals, Fail("server", status)
      PROVE  parts
  BY <1>1, <1>2, <1>3, <1>8, <1>9, FailKeepsRecords DEF Fail
<1>10. ASSUME At("server", "compare"), ExistingMatches, Settle("server", "ok", manifest.tx)
       PROVE  parts
  <2>1. manifest # NoManifest
    BY <1>10 DEF Records, ComparesManifest
  <2>2. manifest.tx \in 0..MaxTxs
    BY <2>1 DEF Records, RestOK
  <2>3. /\ manifest.tx \in DOMAIN txs /\ txs[manifest.tx].status \in OnChain
        /\ txs[manifest.tx].key = active["server"].key
    BY <1>10, <2>1 DEF Records, ManifestRecords, ExistingMatches
  <2> QED
    BY <1>1, <1>2, <1>3, <1>8, <1>10, <2>2, <2>3, SettleKeepsRecords
<1>11. parts
  BY <1>6, <1>7, <1>9, <1>10
<1> QED
  BY <1>1, <1>2, <1>4, <1>11 DEF Records, At

LEMMA SettleFrees ==
  ASSUME ActiveOK, NEW p \in Processes, NEW status, NEW tx, Settle(p, status, tx)
  PROVE  /\ active'[p] = None /\ active'[p].step = "none"
         /\ \A q \in Processes \ {p} : active'[q] = active[q]
BY DEF Settle, ActiveOK, None

\* A creation fails or its process dies, after which nothing is sent any more: what
\* it leaves behind is a dropped transaction, or something was lost.
LEMMA FailKeepsInv ==
  ASSUME BackendInv, NEW p \in Processes, NEW status \in Refusals, Fail(p, status),
         UNCHANGED <<txs, manifest>>, crashes' \in 0..MaxCrashes, verified' \in BOOLEAN,
         lost' \in BOOLEAN, lost => lost',
         At(p, "wait") => lost' \/ txs[active[p].tx].status = "dropped"
  PROVE  BackendInv'
<1>1. Records
  BY DEF BackendInv, Records
<1>2. TxsStay
  BY SameTxs
<1>3. RequestsOK' /\ ActiveOK' /\ WaitsForOwn' /\ ComparesManifest' /\ AnswersRecord' /\ SharedKey'
  BY <1>1, <1>2, FailKeepsRecords
<1>4. TxsOK' /\ RestOK' /\ ManifestRecords'
  BY <1>1 DEF Records, TxsOK, RestOK, ManifestRecords
<1>5. ASSUME ~lost' PROVE OneEach'
  <2>1. OneEach
    BY <1>5 DEF BackendInv
  <2>2. /\ active'[p].step = "none" /\ \A q \in Processes \ {p} : active'[q] = active[q]
    BY <1>1, SettleFrees DEF Fail, Records
  <2>3. \A q \in Processes : AccountsOf(q)' = AccountsOf(q)
    BY DEF AccountsOf
  <2>4. ASSUME NEW i \in AccountsOf(p), manifest = NoManifest PROVE FALSE
    <3>1. At(p, "wait") /\ active[p].tx = i
      BY <2>1, <2>4 DEF OneEach
    <3>2. txs[i].status # "dropped"
      BY DEF AccountsOf
    <3> QED
      BY <1>5, <3>1, <3>2
  <2> QED
    BY <2>1, <2>2, <2>3, <2>4 DEF OneEach, At
<1> QED
  BY <1>3, <1>4, <1>5 DEF BackendInv

\* A creation gets on: only a process without an account may come to send.
LEMMA MoveKeepsOne ==
  ASSUME OneEach, NEW p \in Processes, ~At(p, "wait"),
         active'[p].step = "send" => AccountsOf(p) = {},
         \A q \in Processes \ {p} : active'[q] = active[q],
         UNCHANGED <<txs, manifest>>
  PROVE  OneEach'
<1>1. \A q \in Processes : AccountsOf(q)' = AccountsOf(q)
  BY DEF AccountsOf
<1> QED
  BY <1>1 DEF OneEach, At

\* An existing manifest is refused; without one, what this process might still have
\* on chain would be what it waits for, and it waits for nothing.
LEMMA RefuseExistingKeepsInv ==
  ASSUME BackendInv, NEW p \in Processes, RefuseExisting(p)
  PROVE  BackendInv'
<1>1. /\ At(p, "check") /\ ~At(p, "wait")
      /\ UNCHANGED <<verified, manifest, txs, crashes, lost>>
  BY DEF RefuseExisting, At
<1>2. Records
  BY DEF BackendInv, Records
<1>3. CASE Fail(p, "BOOTSTRAP_FAILED")
  BY <1>1, <1>3, RefusalStatuses, FailKeepsInv DEF BackendInv, RestOK
<1>4. CASE manifest = NoManifest /\ Goto(p, "send") /\ UNCHANGED requests
  <2>1. active[p] # None
    BY <1>1 DEF At, None
  <2>2. "send" \in Steps \ {"wait"}
    BY DEF Steps
  <2>3. /\ RequestsOK' /\ ActiveOK' /\ WaitsForOwn' /\ ComparesManifest'
        /\ AnswersRecord' /\ SharedKey'
        /\ active'[p].step = "send"
        /\ \A q \in Processes \ {p} : active'[q] = active[q]
    BY <1>1, <1>2, <1>4, <2>1, <2>2, GotoKeepsRecords
  <2>4. TxsOK' /\ RestOK' /\ ManifestRecords'
    BY <1>1, <1>2, RestKept DEF Records, RestOK
  <2>5. ASSUME ~lost PROVE OneEach'
    <3>1. OneEach
      BY <2>5 DEF BackendInv
    <3>2. AccountsOf(p) = {}
      BY <1>1, <1>4, <3>1 DEF OneEach
    <3> QED
      BY <1>1, <2>3, <3>1, <3>2, MoveKeepsOne
  <2> QED
    BY <1>1, <2>3, <2>4, <2>5 DEF BackendInv
<1> QED
  BY <1>3, <1>4 DEF RefuseExisting

\* sendTransaction: the account this process might have is the one it now waits for.
LEMMA SendKeepsInv ==
  ASSUME BackendInv, NEW p \in Processes, Send(p)
  PROVE  BackendInv'
<1>1. /\ At(p, "send") /\ Len(txs) < MaxTxs /\ txs' = Accepted(p)
      /\ UNCHANGED <<requests, verified, manifest, crashes, lost>>
  BY DEF Send
<1>2. Records
  BY DEF BackendInv, Records
<1> DEFINE new == Len(txs) + 1
<1>3. active[p] # None
  BY <1>1 DEF At, None
<1>4. active[p] \in Creation /\ active[p].key \in PasskeyIds
  BY <1>2, <1>3, CreationFields DEF Records
<1>5. /\ txs' \in Seq(Tx) /\ Len(txs') = new
      /\ DOMAIN txs' = DOMAIN txs \cup {new} /\ new \notin DOMAIN txs
      /\ \A i \in DOMAIN txs : txs'[i] = txs[i]
      /\ txs'[new] = [by |-> p, key |-> active[p].key, status |-> "pending"]
  BY <1>1, <1>2, <1>4, AcceptedLast DEF Records
<1>6. new \in 1..MaxTxs /\ TxsOK'
  BY <1>1, <1>2, <1>5, BackendConstants DEF Records, TxsOK
<1> HIDE DEF new
<1>7. TxsStay
  BY <1>5 DEF TxsStay
<1>8. active' = [active EXCEPT ![p] = [active[p] EXCEPT !.step = "wait", !.tx = new]]
  BY DEF Send, new
<1>9. /\ [active[p] EXCEPT !.step = "wait", !.tx = new] \in Creation
      /\ [active[p] EXCEPT !.step = "wait", !.tx = new].key = active[p].key
      /\ [active[p] EXCEPT !.step = "wait", !.tx = new].step = "wait"
      /\ [active[p] EXCEPT !.step = "wait", !.tx = new].tx = new
  <2>1. new \in 0..MaxTxs
    BY <1>6, BackendConstants
  <2>2. [active[p] EXCEPT !.step = "wait", !.tx = new]
          = [step |-> "wait", key |-> active[p].key, tx |-> new]
    <3>1. [active[p] EXCEPT !.step = "wait"]
            = [step |-> "wait", key |-> active[p].key, tx |-> active[p].tx]
      BY <1>4 DEF Creation
    <3>2. [[step |-> "wait", key |-> active[p].key, tx |-> active[p].tx] EXCEPT !.tx = new]
            = [step |-> "wait", key |-> active[p].key, tx |-> new]
      OBVIOUS
    <3> QED
      BY <3>1, <3>2
  <2> QED
    BY <1>4, <2>1, <2>2 DEF Creation, Steps
<1>10. ActiveOK'
  BY <1>2, <1>8, <1>9 DEF Records, ActiveOK
<1>11. /\ active'[p].step = "wait" /\ active'[p].tx = new /\ active'[p].key = active[p].key
       /\ active'[p] # None
       /\ \A q \in Processes \ {p} : active'[q] = active[q]
  BY <1>2, <1>8, <1>9 DEF Records, ActiveOK, None
<1>12. WaitsForOwn'
  BY <1>2, <1>5, <1>7, <1>11 DEF Records, WaitsForOwn, TxsStay, At
<1>13. ComparesManifest' /\ SharedKey'
  BY <1>1, <1>2, <1>11, BackendConstants DEF Records, ComparesManifest, SharedKey, At
<1>14. RequestsOK' /\ RestOK' /\ ManifestRecords' /\ AnswersRecord'
  BY <1>1, <1>2, <1>7, RecordsStay DEF Records, RequestsOK, RestOK
<1>15. ASSUME ~lost PROVE OneEach'
  <2>1. OneEach
    BY <1>15 DEF BackendInv
  <2>2. AccountsOf(p) = {}
    BY <1>1, <2>1 DEF OneEach
  <2>3. AccountsOf(p)' \subseteq {new}
    BY <1>5, <2>2 DEF AccountsOf
  <2>4. ASSUME NEW q \in Processes \ {p} PROVE AccountsOf(q)' = AccountsOf(q)
    BY <1>5, <2>4 DEF AccountsOf
  <2> QED
    BY <1>1, <1>11, <2>1, <2>3, <2>4 DEF OneEach, At
<1> QED
  BY <1>1, <1>6, <1>10, <1>12, <1>13, <1>14, <1>15 DEF BackendInv

\* The answer to an accepted transaction is lost.
LEMMA AnswerLostKeepsInv ==
  ASSUME BackendInv, NEW p \in Processes, SendAnswerLost(p)
  PROVE  BackendInv'
<1>1. /\ At(p, "send") /\ Len(txs) < MaxTxs /\ txs' = Accepted(p)
      /\ lost' = TRUE /\ Fail(p, "BOOTSTRAP_FAILED")
      /\ UNCHANGED <<verified, manifest, crashes>>
  BY DEF SendAnswerLost
<1>2. Records
  BY DEF BackendInv, Records
<1>3. active[p] # None
  BY <1>1 DEF At, None
<1>4. active[p].key \in PasskeyIds
  BY <1>2, <1>3, CreationFields DEF Records
<1>5. /\ txs' \in Seq(Tx) /\ Len(txs') = Len(txs) + 1
      /\ DOMAIN txs' = DOMAIN txs \cup {Len(txs) + 1}
      /\ \A i \in DOMAIN txs : txs'[i] = txs[i]
  BY <1>1, <1>2, <1>4, AcceptedLast DEF Records
<1>6. TxsOK'
  BY <1>1, <1>2, <1>5, BackendConstants DEF Records, TxsOK
<1>7. TxsStay
  BY <1>5 DEF TxsStay
<1>8. RequestsOK' /\ ActiveOK' /\ WaitsForOwn' /\ ComparesManifest' /\ AnswersRecord' /\ SharedKey'
  BY <1>1, <1>2, <1>7, RefusalStatuses, FailKeepsRecords
<1>9. RestOK' /\ ManifestRecords'
  BY <1>1, <1>2, <1>7, RecordsStay DEF Records, RestOK
<1> QED
  BY <1>1, <1>6, <1>8, <1>9 DEF BackendInv

\* Only a committed transaction of this creation is recorded, or answered with.
LEMMA RecordKeepsInv ==
  ASSUME BackendInv, NEW p \in Processes, RecordManifest(p)
  PROVE  BackendInv'
<1>1. /\ At(p, "wait") /\ txs[active[p].tx].status = "committed"
      /\ manifest' = [tx |-> active[p].tx, key |-> active[p].key]
      /\ Settle(p, "ok", active[p].tx) \/ Settle(p, "ACCOUNT_MISMATCH", 0)
      /\ UNCHANGED <<verified, txs, crashes, lost>>
  BY DEF RecordManifest, ReadyToRecord, Fail
<1>2. Records
  BY DEF BackendInv, Records
<1>3. active[p] # None
  BY <1>1 DEF At, None
<1>4. active[p].tx \in 0..MaxTxs /\ active[p].key \in PasskeyIds
  BY <1>2, <1>3, CreationFields DEF Records
<1>5. active[p].tx \in DOMAIN txs /\ txs[active[p].tx].key = active[p].key
  BY <1>1, <1>2 DEF Records, WaitsForOwn
<1>6. active[p].tx \in 1..MaxTxs
  <2>1. active[p].tx \in 1..Len(txs) /\ Len(txs) \in Nat /\ Len(txs) <= MaxTxs
    BY <1>2, <1>5 DEF Records, TxsOK
  <2> QED
    BY <2>1, BackendConstants
<1>7. manifest' # NoManifest /\ manifest'.tx = active[p].tx /\ manifest'.key = active[p].key
  <2>1. active[p].tx # 0
    BY <1>6
  <2> QED
    BY <1>1, <2>1 DEF NoManifest
<1>8. manifest' \in [tx : 1..MaxTxs, key : PasskeyIds]
  BY <1>1, <1>4, <1>6
<1>9. TxsStay
  BY <1>1, SameTxs
<1>10. RequestsOK' /\ ActiveOK' /\ WaitsForOwn' /\ ComparesManifest' /\ AnswersRecord' /\ SharedKey'
  <2>1. CASE Settle(p, "ok", active[p].tx)
    BY <1>1, <1>2, <1>4, <1>5, <1>7, <1>9, <2>1, SettleKeepsRecords DEF OnChain
  <2>2. CASE Settle(p, "ACCOUNT_MISMATCH", 0)
    <3>1. 0 \in 0..MaxTxs
      BY BackendConstants
    <3> QED
      BY <1>2, <1>7, <1>9, <2>2, <3>1, RefusalStatuses, SettleKeepsRecords
  <2> QED
    BY <1>1, <2>1, <2>2
<1>11. TxsOK' /\ RestOK' /\ ManifestRecords'
  BY <1>1, <1>2, <1>5, <1>7, <1>8 DEF Records, TxsOK, RestOK, ManifestRecords, OnChain
<1>12. ASSUME ~lost PROVE OneEach'
  <2>1. OneEach
    BY <1>12 DEF BackendInv
  <2>2. /\ active'[p].step = "none" /\ \A q \in Processes \ {p} : active'[q] = active[q]
    BY <1>1, <1>2, SettleFrees DEF Records
  <2>3. \A q \in Processes : AccountsOf(q)' = AccountsOf(q)
    BY <1>1 DEF AccountsOf
  <2> QED
    BY <1>7, <2>1, <2>2, <2>3 DEF OneEach, At
<1> QED
  BY <1>1, <1>10, <1>11, <1>12 DEF BackendInv

\* bootstrapAccount, in either process.
LEMMA BootstrapAccountKeepsInv ==
  ASSUME BackendInv, NEW p \in Processes, BootstrapAccount(p)
  PROVE  BackendInv'
<1> USE DEF BackendInv, RestOK
<1>1. CASE SendRefused(p)
  BY <1>1, RefusalStatuses, FailKeepsInv DEF SendRefused, At
<1>2. CASE WaitTimesOut(p)
  BY <1>2, RefusalStatuses, FailKeepsInv DEF WaitTimesOut
<1>3. CASE WaitRejected(p)
  BY <1>3, RefusalStatuses, FailKeepsInv DEF WaitRejected
<1>4. CASE RecordFails(p)
  BY <1>4, RefusalStatuses, FailKeepsInv DEF RecordFails
<1> QED
  BY <1>1, <1>2, <1>3, <1>4, RefuseExistingKeepsInv, SendKeepsInv, AnswerLostKeepsInv,
     RecordKeepsInv DEF BootstrapAccount

\* A crash: a creation that waits is lost with its process.
LEMMA CrashKeepsInv ==
  ASSUME BackendInv, NEW p \in Processes, Crash(p)
  PROVE  BackendInv'
<1>1. /\ crashes < MaxCrashes /\ crashes' = crashes + 1
      /\ verified' = (verified /\ p # "server")
      /\ lost' = (lost \/ At(p, "wait"))
      /\ Fail(p, "no answer")
      /\ UNCHANGED <<manifest, txs>>
  BY DEF Crash, Fail
<1>2. crashes' \in 0..MaxCrashes
  <2>1. crashes \in 0..MaxCrashes /\ crashes < MaxCrashes /\ crashes' = crashes + 1
    BY DEF BackendInv, RestOK, Crash
  <2>2. MaxCrashes \in Nat
    BY BackendConstants
  <2> QED
    BY <2>1, <2>2
<1>3. verified' \in BOOLEAN /\ lost' \in BOOLEAN /\ (lost => lost') /\ (At(p, "wait") => lost')
  BY <1>1, Zenon DEF BackendInv, RestOK
<1> QED
  BY <1>1, <1>2, <1>3, RefusalStatuses, FailKeepsInv

\* The bootstrap command starts.
LEMMA CommandKeepsInv ==
  ASSUME BackendInv, NEW key \in PasskeyIds, RunBootstrapCommand(key)
  PROVE  BackendInv'
<1> DEFINE fresh == [step |-> "check", key |-> key, tx |-> 0]
<1>1. /\ "cli" \in Processes /\ active["cli"] = None
      /\ active' = [active EXCEPT !["cli"] = fresh]
      /\ UNCHANGED <<requests, verified, manifest, txs, crashes, lost>>
  BY DEF RunBootstrapCommand
<1>2. Records
  BY DEF BackendInv, Records
<1>3. fresh \in Creation /\ fresh.step = "check"
  BY BackendConstants DEF Creation, Steps
<1> HIDE DEF fresh
<1>4. ActiveOK' /\ active'["cli"].step = "check"
      /\ \A q \in Processes \ {"cli"} : active'[q] = active[q]
  BY <1>1, <1>2, <1>3 DEF Records, ActiveOK
<1>5. active'["server"] = active["server"]
  BY <1>4, BackendConstants
<1>6. WaitsForOwn' /\ ComparesManifest' /\ SharedKey'
  BY <1>1, <1>2, <1>4, <1>5 DEF Records, WaitsForOwn, ComparesManifest, SharedKey, At
<1>7. RequestsOK' /\ AnswersRecord' /\ TxsOK' /\ RestOK' /\ ManifestRecords'
  BY <1>1, <1>2 DEF Records, RequestsOK, AnswersRecord, TxsOK, RestOK, ManifestRecords
<1>8. OneEach => OneEach'
  <2>1. ~At("cli", "wait")
    BY <1>1 DEF At, None
  <2> QED
    BY <1>1, <1>4, <2>1, MoveKeepsOne
<1> QED
  BY <1>1, <1>4, <1>6, <1>7, <1>8 DEF BackendInv

\* A request comes in.
LEMMA BootstrapKeepsInv ==
  ASSUME BackendInv, NEW r \in Requests, NEW key \in PasskeyIds, Bootstrap(r, key)
  PROVE  BackendInv'
<1>1. Records /\ Records'
  BY BootstrapKeepsRecords DEF BackendInv, Records
<1>2. UNCHANGED <<manifest, txs, lost>>
  BY DEF Bootstrap
<1>3. "server" \in Processes
  BY BackendConstants
<1>4. \/ active' = active
      \/ /\ active["server"] = None
         /\ active' = [active EXCEPT !["server"] = [step |-> "verify", key |-> key, tx |-> 0]]
  BY DEF Bootstrap
<1>5. ASSUME OneEach PROVE OneEach'
  <2>1. CASE active' = active
    BY <1>2, <1>5, <2>1 DEF OneEach, AccountsOf, At
  <2>2. CASE active' # active
    <3>1. /\ active["server"] = None /\ active'["server"].step = "verify"
          /\ \A q \in Processes \ {"server"} : active'[q] = active[q]
      BY <1>1, <1>3, <1>4, <2>2 DEF Records, ActiveOK
    <3>2. ~At("server", "wait")
      BY <3>1 DEF At, None
    <3> QED
      BY <1>2, <1>3, <1>5, <3>1, <3>2, MoveKeepsOne
  <2> QED
    BY <2>1, <2>2
<1> QED
  BY <1>1, <1>2, <1>5 DEF BackendInv, Records

\* The chain decides about a transaction.
LEMMA ChainKeepsInv ==
  ASSUME BackendInv, NEW i \in DOMAIN txs, ChainStep(i)
  PROVE  BackendInv'
<1>1. UNCHANGED <<requests, active, verified, manifest, crashes, lost>>
  BY DEF ChainStep
<1>2. Records
  BY DEF BackendInv, Records
<1>3. TxsOK' /\ TxsStay /\ DOMAIN txs' = DOMAIN txs
  BY <1>2, ChainStepFacts DEF Records
<1>4. ManifestRecords' /\ AnswersRecord' /\ WaitsForOwn'
  BY <1>1, <1>2, <1>3, RecordsStay DEF Records
<1>5. RequestsOK' /\ ActiveOK' /\ RestOK' /\ ComparesManifest' /\ SharedKey'
  BY <1>1, <1>2 DEF Records, RequestsOK, ActiveOK, RestOK, ComparesManifest, SharedKey, At
<1>6. ASSUME OneEach PROVE OneEach'
  <2>1. \A p \in Processes : AccountsOf(p)' \subseteq AccountsOf(p)
    BY <1>3 DEF AccountsOf, TxsStay
  <2> QED
    BY <1>1, <1>6, <2>1 DEF OneEach, At
<1> QED
  BY <1>1, <1>3, <1>4, <1>5, <1>6 DEF BackendInv

LEMMA InitBackendInv == Init => BackendInv
<1> SUFFICES ASSUME Init PROVE BackendInv
  OBVIOUS
<1> USE BackendConstants DEF Init
<1>1. RequestsOK
  <2>1. [status |-> "unsent"] \in Unsent
    BY DEF Unsent
  <2> QED
    BY <2>1 DEF RequestsOK
<1>2. ActiveOK /\ \A p \in Processes : active[p].step = "none"
  BY DEF ActiveOK, None
<1>3. TxsOK /\ DOMAIN txs = {}
  BY DEF TxsOK
<1>4. RestOK
  <2>1. crashes \in 0..MaxCrashes
    OBVIOUS
  <2>2. verified \in BOOLEAN /\ lost \in BOOLEAN /\ manifest = NoManifest
    OBVIOUS
  <2> QED
    BY <2>1, <2>2 DEF RestOK
<1>5. WaitsForOwn /\ ComparesManifest
  BY <1>2 DEF WaitsForOwn, ComparesManifest, At
<1>6. ManifestRecords
  BY DEF ManifestRecords
<1>7. AnswersRecord /\ SharedKey
  <2>1. \A r \in Requests : requests[r].status = "unsent"
    BY DEF RequestsOK
  <2> QED
    BY <2>1 DEF AnswersRecord, SharedKey
<1>8. OneEach
  BY <1>2, <1>3 DEF OneEach, AccountsOf, At
<1> QED
  BY <1>1, <1>2, <1>3, <1>4, <1>5, <1>6, <1>7, <1>8 DEF BackendInv

\* Every step of a process, of the chain and every crash keeps the invariant.
LEMMA NextBackendInv ==
  ASSUME BackendInv, [Next]_vars
  PROVE  BackendInv'
<1>1. CASE VerifyDeployment \/ ExportState \/ LookUpAccount \/ CompareExisting \/ CheckBalance
  <2>1. Records
    BY DEF BackendInv, Records
  <2>2. /\ Records' /\ lost' = lost /\ txs' = txs /\ manifest' = manifest
        /\ ~At("server", "wait") /\ active'["server"].step \notin {"send", "wait"}
        /\ \A q \in Processes \ {"server"} : active'[q] = active[q]
    BY <1>1, <2>1, ChecksKeepRecords
  <2>3. "server" \in Processes
    BY BackendConstants
  <2>4. OneEach => OneEach'
    BY <2>2, <2>3, MoveKeepsOne
  <2> QED
    BY <2>2, <2>4 DEF BackendInv, Records
<1>2. CASE BootstrapAccount("server") \/ CliFlow
  BY <1>2, BootstrapAccountKeepsInv, BackendConstants DEF CliFlow
<1>3. CASE UNCHANGED vars
  <2>1. UNCHANGED <<requests, active, verified, manifest, txs, crashes, lost>>
    BY <1>3 DEF vars
  <2>2. RequestsOK' /\ ActiveOK' /\ TxsOK' /\ RestOK'
    BY <2>1 DEF BackendInv, RequestsOK, ActiveOK, TxsOK, RestOK
  <2>3. WaitsForOwn' /\ ManifestRecords' /\ ComparesManifest'
    BY <2>1 DEF BackendInv, WaitsForOwn, ManifestRecords, ComparesManifest, At
  <2>4. AnswersRecord' /\ SharedKey'
    BY <2>1 DEF BackendInv, AnswersRecord, SharedKey
  <2>5. OneEach => OneEach'
    BY <2>1 DEF OneEach, AccountsOf, At
  <2> QED
    BY <2>1, <2>2, <2>3, <2>4, <2>5 DEF BackendInv
<1> QED
  BY <1>1, <1>2, <1>3, BootstrapKeepsInv, CommandKeepsInv, CrashKeepsInv, ChainKeepsInv
  DEF Next, ServerFlow

\* The invariant holds throughout every behaviour of the backend.
THEOREM BackendInvariant == Spec => []BackendInv
<1>1. Init => BackendInv
  BY InitBackendInv
<1>2. BackendInv /\ [Next]_vars => BackendInv'
  BY NextBackendInv
<1> QED
  BY <1>1, <1>2, PTL DEF Spec

\* Requests, creations, transactions and the manifest keep their types, and a
\* creation that waits knows its transaction.
THEOREM BackendTypeSafety == Spec => []TypeOK
<1>1. BackendInv => TypeOK
  BY DEF BackendInv, TypeOK, RequestsOK, ActiveOK, TxsOK, RestOK, WaitsForOwn, Unsent, Waiting,
         Answered, Creation, Tx
<1> QED
  BY <1>1, BackendInvariant, PTL

\* deploy/testnet-account.json records an account that is on chain, made for the key
\* it names, after any crash, timeout or late commitment.
THEOREM ManifestIsOnChain == Spec => []ManifestOnChain
<1>1. BackendInv => ManifestOnChain
  BY DEF BackendInv, ManifestRecords, ManifestOnChain, OnChain
<1> QED
  BY <1>1, BackendInvariant, PTL

\* Every account a request is answered with is on chain and was made for its key.
THEOREM AnswersAreOnChain == Spec => []AnswersOnChain
<1>1. BackendInv => AnswersOnChain
  BY DEF BackendInv, AnswersRecord, AnswersOnChain, OnChain
<1> QED
  BY <1>1, BackendInvariant, PTL

\* Unless a creation was given up after a node had accepted it, the server creates
\* one account at most, and so does the bootstrap command.
THEOREM OneAccountEach == Spec => []OneAccountUnlessLost
<1>1. ASSUME BackendInv, ~lost, NEW p \in Processes
      PROVE  Cardinality(AccountsOf(p)) <= 1
  <2>1. \A i, j \in AccountsOf(p) : i = j
    BY <1>1 DEF BackendInv, OneEach
  <2>2. CASE AccountsOf(p) = {}
    BY <2>2, FS_EmptySet
  <2>3. CASE AccountsOf(p) # {}
    <3>1. PICK i \in AccountsOf(p) : TRUE
      BY <2>3
    <3>2. AccountsOf(p) = {i}
      BY <2>1, <3>1
    <3> QED
      BY <3>2, FS_Singleton
  <2> QED
    BY <2>2, <2>3
<1>2. BackendInv => OneAccountUnlessLost
  BY <1>1 DEF OneAccountUnlessLost
<1> QED
  BY <1>2, BackendInvariant, PTL

-----------------------------------------------------------------------------
(***************************************************************************)
(* What RequestsAnswered rests on: who waits shares a creation that is     *)
(* under way, and every step of a creation ends it or brings it closer to  *)
(* its last await.  Requests that join it, the other process, the chain    *)
(* and the manifest never set it back.                                     *)
(***************************************************************************)
AwaitsLeft(step) ==
  IF step = "verify" THEN 8
  ELSE IF step = "export" THEN 7
  ELSE IF step = "lookup" THEN 6
  ELSE IF step = "compare" THEN 5
  ELSE IF step = "balance" THEN 4
  ELSE IF step = "check" THEN 3
  ELSE IF step = "send" THEN 2
  ELSE 1

\* What a step may do to the creation of a process.
CreationAdvances(p) ==
  LET closer == \/ active'[p] = None
                \/ AwaitsLeft(active'[p].step) < AwaitsLeft(active[p].step)
  IN /\ p = "server" /\ ServerFlow => closer
     /\ p = "cli" /\ CliFlow => closer
     /\ active[p] # None => active'[p] = active[p] \/ closer

LEMMA GotoIs ==
  ASSUME ActiveOK, NEW p \in Processes, active[p] # None, NEW step, Goto(p, step)
  PROVE  active'[p].step = step /\ \A q \in Processes \ {p} : active'[q] = active[q]
<1>1. active[p] \in Creation
  BY CreationFields
<1>2. /\ active'[p] = [active[p] EXCEPT !.step = step]
      /\ \A q \in Processes \ {p} : active'[q] = active[q]
  BY DEF Goto, ActiveOK
<1> QED
  BY <1>1, <1>2 DEF Creation

LEMMA SendIs ==
  ASSUME ActiveOK, NEW p \in Processes, active[p] # None, Send(p)
  PROVE  active'[p].step = "wait" /\ \A q \in Processes \ {p} : active'[q] = active[q]
<1>1. active[p] \in Creation
  BY CreationFields
<1>2. /\ active'[p] = [[active[p] EXCEPT !.step = "wait"] EXCEPT !.tx = Len(txs) + 1]
      /\ \A q \in Processes \ {p} : active'[q] = active[q]
  BY DEF Send, ActiveOK
<1> QED
  BY <1>1, <1>2 DEF Creation

\* A process that is at some step has a creation.
LEMMA AtWorks ==
  ASSUME ActiveOK, NEW p \in Processes, NEW step \in Steps, At(p, step)
  PROVE  active[p] # None
BY DEF At, None, Steps

\* A step of bootstrapAccount, in either process.
LEMMA BootstrapAccountAdvances ==
  ASSUME ActiveOK, NEW p \in Processes, BootstrapAccount(p)
  PROVE  /\ \/ active'[p] = None
            \/ AwaitsLeft(active'[p].step) < AwaitsLeft(active[p].step)
         /\ \A q \in Processes \ {p} : active'[q] = active[q]
<1>1. CASE RefuseExisting(p) /\ Goto(p, "send")
  <2>1. active[p].step = "check" /\ active[p] # None
    BY <1>1, AtWorks DEF RefuseExisting, At, Steps
  <2>2. active'[p].step = "send" /\ \A q \in Processes \ {p} : active'[q] = active[q]
    BY <1>1, <2>1, GotoIs
  <2> QED
    BY <2>1, <2>2 DEF AwaitsLeft
<1>2. CASE Send(p)
  <2>1. active[p].step = "send" /\ active[p] # None
    BY <1>2, AtWorks DEF Send, At, Steps
  <2>2. active'[p].step = "wait" /\ \A q \in Processes \ {p} : active'[q] = active[q]
    BY <1>2, <2>1, SendIs
  <2> QED
    BY <2>1, <2>2 DEF AwaitsLeft
<1>3. CASE \E status, tx : Settle(p, status, tx)
  BY <1>3, SettleFrees
<1> QED
  BY <1>1, <1>2, <1>3 DEF BootstrapAccount, RefuseExisting, SendRefused, SendAnswerLost,
     WaitTimesOut, WaitRejected, RecordManifest, RecordFails, Fail

\* A step of the server's part of a creation.
LEMMA ChecksAdvance ==
  ASSUME ActiveOK, VerifyDeployment \/ ExportState \/ LookUpAccount \/ CompareExisting \/ CheckBalance
  PROVE  /\ \/ active'["server"] = None
            \/ AwaitsLeft(active'["server"].step) < AwaitsLeft(active["server"].step)
         /\ \A q \in Processes \ {"server"} : active'[q] = active[q]
<1>1. "server" \in Processes
  BY BackendConstants
<1>2. CASE \E status, tx : Settle("server", status, tx)
  BY <1>1, <1>2, SettleFrees
<1>3. CASE \/ At("server", "verify") /\ Goto("server", "export")
           \/ At("server", "export") /\ Goto("server", "lookup")
           \/ At("server", "lookup") /\ Goto("server", "compare")
           \/ At("server", "lookup") /\ Goto("server", "balance")
           \/ At("server", "balance") /\ Goto("server", "check")
  <2>1. active["server"] # None
    BY <1>1, <1>3, AtWorks DEF Steps
  <2>2. /\ \/ active["server"].step = "verify" /\ active'["server"].step = "export"
           \/ active["server"].step = "export" /\ active'["server"].step = "lookup"
           \/ active["server"].step = "lookup" /\ active'["server"].step = "compare"
           \/ active["server"].step = "lookup" /\ active'["server"].step = "balance"
           \/ active["server"].step = "balance" /\ active'["server"].step = "check"
        /\ \A q \in Processes \ {"server"} : active'[q] = active[q]
    BY <1>1, <1>3, <2>1, GotoIs DEF At
  <2> QED
    BY <2>2 DEF AwaitsLeft
<1> QED
  BY <1>2, <1>3 DEF VerifyDeployment, ExportState, LookUpAccount, CompareExisting, CheckBalance, Fail

LEMMA FlowsAdvance ==
  ASSUME ActiveOK
  PROVE  /\ ServerFlow =>
              /\ \/ active'["server"] = None
                 \/ AwaitsLeft(active'["server"].step) < AwaitsLeft(active["server"].step)
              /\ \A q \in Processes \ {"server"} : active'[q] = active[q]
         /\ CliFlow =>
              /\ \/ active'["cli"] = None
                 \/ AwaitsLeft(active'["cli"].step) < AwaitsLeft(active["cli"].step)
              /\ \A q \in Processes \ {"cli"} : active'[q] = active[q]
BY ChecksAdvance, BootstrapAccountAdvances, BackendConstants DEF ServerFlow, CliFlow

LEMMA NextAdvances ==
  ASSUME ActiveOK, Next, NEW p \in Processes
  PROVE  CreationAdvances(p)
<1>1. ASSUME active[p] # None
      PROVE  \/ active'[p] \in {active[p], None}
             \/ AwaitsLeft(active'[p].step) < AwaitsLeft(active[p].step)
  <2>1. CASE ServerFlow \/ CliFlow
    BY <2>1, FlowsAdvance
  <2>2. CASE \E r \in Requests, key \in PasskeyIds : Bootstrap(r, key)
    BY <1>1, <2>2 DEF Bootstrap, ActiveOK
  <2>3. CASE \E key \in PasskeyIds : RunBootstrapCommand(key)
    BY <1>1, <2>3 DEF RunBootstrapCommand, ActiveOK
  <2>4. CASE \E q \in Processes : Crash(q)
    BY <2>4, SettleFrees DEF Crash
  <2>5. CASE \E i \in DOMAIN txs : ChainStep(i)
    BY <2>5 DEF ChainStep
  <2> QED
    BY <2>1, <2>2, <2>3, <2>4, <2>5 DEF Next
<1> QED
  BY <1>1, FlowsAdvance DEF CreationAdvances

\* A request that waits has a creation behind it with a bounded number of awaits left:
\* every step of the server's flow ends it, and with it the waiting, or is one fewer, and
\* nothing that comes in between gives it more; the same for the bootstrap command.
THEOREM CreationsRunOut ==
  Spec => /\ [](\A r \in Requests : requests[r].status = "waiting" => active["server"] # None)
          /\ [][\A p \in Processes : CreationAdvances(p)]_vars
<1>1. BackendInv => \A r \in Requests : requests[r].status = "waiting" => active["server"] # None
  BY DEF BackendInv, SharedKey
<1>2. BackendInv /\ [Next]_vars => [\A p \in Processes : CreationAdvances(p)]_vars
  BY NextAdvances DEF BackendInv
<1> QED
  BY <1>1, <1>2, BackendInvariant, PTL DEF Spec
=============================================================================
