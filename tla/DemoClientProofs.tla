-------------------------- MODULE DemoClientProofs --------------------------
(***************************************************************************)
(* Proofs about DemoClient, for any number of tabs, passkeys and reloads.  *)
(*                                                                         *)
(* The properties speak of what a page shows and of what is on chain; what *)
(* carries them from one to the other is what every tab knows: which read  *)
(* of the server it waits for (Reads), that a page ready to spend is about *)
(* the recorded account (Ready), that a spend is prepared only with the    *)
(* passkey of that account (Prepared), that sendTransaction is behind      *)
(* every step from which it could be called again (Sent), that a receipt   *)
(* and a watcher claim a commitment after the chain made it (Confirmed),   *)
(* and that a passkey is in use only after it was saved (SavedFirst).      *)
(***************************************************************************)
EXTENDS DemoClient, TLAPS

Pages == [stage : Stages, account : Accounts, passkey : Accounts]
Steps == Awaiting \cup {"ready", "cancelled", "blocked", "success", "retry",
                        "nothing submitted", "submitted"}
Fetches == [for : {"load", "created", "commit"}, passkey : Accounts,
            status : Accounts \cup {Unread, Unverified},
            account : Accounts \cup {Unread}]
Receipts == {None, "submitted", "confirmation_timeout", "committed"}

TabTypes ==
  /\ page \in [Tabs -> Pages]
  /\ step \in [Tabs -> Steps]
  /\ fetch \in [Tabs -> Fetches \cup {Idle}]
  /\ receipt \in [Tabs -> Receipts]
  /\ watch \in [Tabs -> [Watchers -> {"idle", "waiting", "verifying"}]]
  /\ refreshed \in [Tabs -> BOOLEAN]
  /\ sends \in [Tabs -> Nat]

WorldTypes ==
  /\ stored \in Accounts /\ credentials \subseteq Keys
  /\ manifest \in Accounts /\ creating \in Accounts /\ funded \subseteq Keys
  /\ spend \in {"none", "pool", "committed"} /\ signer \in Accounts
  /\ adrift \subseteq Keys /\ reloads \in 0..MaxReloads

\* A page ready to spend is about the account on record, with a passkey.
Ready ==
  \A t \in Tabs :
    IF page[t].stage = "ready-to-spend"
      THEN page[t].account = manifest /\ manifest # None /\ page[t].passkey # None
      ELSE page[t].account = None

\* A read of the server is under way only on the page that started it, and what it
\* has read of the account is on record still, unless there was none.
Reads ==
  \A t \in Tabs : fetch[t] # Idle =>
    /\ fetch[t].account \in {Unread, None, manifest}
    /\ fetch[t].for = "load" => page[t].stage = "loading"
    /\ fetch[t].for = "created" => page[t].stage = "needs-account"
    /\ fetch[t].for = "commit" =>
         /\ page[t].stage = "ready-to-spend"
         /\ fetch[t].passkey = page[t].passkey
         /\ fetch[t].account \in {Unread, manifest}

\* A spend that was prepared is one the page's passkey can authorize.
Prepared ==
  \A t \in Tabs :
    page[t].stage = "ready-to-spend" /\ step[t] \notin {"preparing", "blocked"}
      => page[t].passkey = page[t].account

\* A page that has called sendTransaction is past it for good.
Sent ==
  \A t \in Tabs :
    \/ sends[t] = 0
    \/ /\ sends[t] = 1 /\ page[t].stage = "ready-to-spend"
       /\ step[t] \in {"submitting", "sent", "blocked", "submitted"}

\* A commitment is claimed, or being verified, only once the chain has made it.
Confirmed ==
  \A t \in Tabs :
    /\ receipt[t] = "committed" => spend = "committed"
    /\ \A w \in Watchers : watch[t][w] = "verifying" => spend = "committed"

\* What was sent, and what is on its way from a page that was left, was authorized
\* with the passkey of the account on record.
Signed ==
  /\ spend # "none" => signer = manifest /\ manifest # None
  /\ \A k \in adrift : k = manifest /\ manifest # None

\* Every passkey in use is one the authenticator made.
Registered ==
  /\ stored \in credentials \cup {None} /\ creating \in credentials \cup {None}
  /\ funded \subseteq credentials
  /\ \A t \in Tabs : page[t].passkey \in credentials \cup {None}
  /\ \A t \in Tabs : fetch[t] # Idle => fetch[t].passkey \in credentials \cup {None}

\* Before the first passkey is saved none is in use.
SavedFirst ==
  stored = None =>
    /\ creating = None /\ funded = {}
    /\ \A t \in Tabs : page[t].passkey = None
    /\ \A t \in Tabs : fetch[t] # Idle => fetch[t].passkey = None

ClientInv ==
  /\ TabTypes /\ WorldTypes
  /\ Ready /\ Reads /\ Prepared /\ Sent
  /\ Confirmed /\ Signed /\ Registered /\ SavedFirst

-----------------------------------------------------------------------------
(***************************************************************************)
(* What is on screen tells the state of the page.                          *)
(***************************************************************************)
\* A step component is on screen only at its own stage and before any receipt.
LEMMA StepShown ==
  ASSUME NEW t \in Tabs, NEW stage \in {"needs-passkey", "needs-account", "ready-to-spend"},
         NEW steps, At(t, stage, steps)
  PROVE  page[t].stage = stage /\ receipt[t] = None /\ step[t] \in steps
BY DEF At, Displayed, None

\* "committed" is on screen when the receipt says so on a page ready to spend.
LEMMA CommittedShown ==
  ASSUME NEW t \in Tabs, page[t].stage \in Stages
  PROVE  /\ Displayed(t) = "committed" =>
              receipt[t] = "committed" /\ page[t].stage = "ready-to-spend"
         /\ receipt[t] = "committed" /\ page[t].stage = "ready-to-spend" =>
              Displayed(t) = "committed"
BY DEF Displayed, None, Stages

(***************************************************************************)
(* What reconcile decides.                                                 *)
(***************************************************************************)
LEMMA ReconcileDecides ==
  ASSUME NEW status, NEW account \in Accounts, NEW passkey \in Accounts
  PROVE  LET next == reconcile(status, account, passkey) IN
         /\ next \in Pages
         /\ IF next.stage = "ready-to-spend"
              THEN next.account = account /\ account # None /\ next.passkey # None
              ELSE next.account = None
         /\ next.passkey \in {passkey, None}
         /\ account # None /\ next.stage # "blocked" =>
              next = Page("ready-to-spend", account, passkey)
BY ClientConstants DEF reconcile, Page, Blocked, Pages, Stages, Accounts

(***************************************************************************)
(* Moving a step component on, and what that leaves alone.                 *)
(***************************************************************************)
LEMMA StepMoves ==
  ASSUME ClientInv, NEW t \in Tabs, NEW n \in Steps, Goto(t, n), UNCHANGED page,
         \/ page[t].stage # "ready-to-spend" \/ n \in {"preparing", "blocked"}
         \/ page[t].passkey = page[t].account
  PROVE  Prepared' /\ step' \in [Tabs -> Steps]
BY DEF ClientInv, TabTypes, Prepared, Goto

LEMMA StepMovesSent ==
  ASSUME ClientInv, NEW t \in Tabs, NEW n \in Steps, Goto(t, n), UNCHANGED <<page, sends>>,
         sends[t] = 0 \/ n \in {"submitting", "sent", "blocked", "submitted"}
  PROVE  Sent'
BY DEF ClientInv, TabTypes, Sent, Goto

\* An action that only moves the step of one tab on.
LEMMA OnlyStepMoves ==
  ASSUME ClientInv, NEW t \in Tabs, NEW n \in Steps, Goto(t, n),
         UNCHANGED <<page, fetch, receipt, watch, refreshed, sends, stored, credentials,
                     serverVars, chainVars, reloads>>,
         \/ page[t].stage # "ready-to-spend" \/ n \in {"preparing", "blocked"}
         \/ page[t].passkey = page[t].account,
         sends[t] = 0 \/ n \in {"submitting", "sent", "blocked", "submitted"}
  PROVE  ClientInv'
<1>1. Prepared' /\ step' \in [Tabs -> Steps]
  BY StepMoves
<1>2. Sent'
  BY StepMovesSent
<1>3. TabTypes'
  BY <1>1 DEF ClientInv, TabTypes
<1>4. WorldTypes' /\ Signed'
  BY DEF ClientInv, WorldTypes, Signed, serverVars, chainVars
<1>5. Ready' /\ Reads'
  BY DEF ClientInv, Ready, Reads, serverVars
<1>6. Confirmed'
  BY DEF ClientInv, Confirmed, chainVars
<1>7. Registered' /\ SavedFirst'
  BY DEF ClientInv, Registered, SavedFirst, serverVars
<1> QED
  BY <1>1, <1>2, <1>3, <1>4, <1>5, <1>6, <1>7 DEF ClientInv

\* PasskeyStep's and BootstrapStep's own moves, and those of SpendStep.
LEMMA StepsKeepInv ==
  ASSUME ClientInv, NEW t \in Tabs,
         \/ CreatePasskey(t) \/ PasskeyRefused(t) \/ ConnectionLost(t) \/ Prepare(t)
         \/ Authorize(t) \/ NotAsserted(t) \/ SendFails(t)
  PROVE  ClientInv'
<1>1. ASSUME page[t].stage # "ready-to-spend" PROVE sends[t] = 0
  BY <1>1 DEF ClientInv, Sent
<1>2. ASSUME page[t].stage = "ready-to-spend",
             step[t] \in {"ready", "authorizing", "preparing", "nothing submitted"}
      PROVE  sends[t] = 0
  BY <1>2 DEF ClientInv, Sent
<1>3. ASSUME page[t].stage = "ready-to-spend", step[t] \notin {"preparing", "blocked"}
      PROVE  page[t].passkey = page[t].account
  BY <1>3 DEF ClientInv, Prepared
<1>4. CASE CreatePasskey(t)
  <2>1. page[t].stage = "needs-passkey"
    BY <1>4, StepShown DEF CreatePasskey
  <2> QED
    BY <1>1, <1>4, <2>1, OnlyStepMoves DEF CreatePasskey, Steps, Awaiting
<1>5. CASE PasskeyRefused(t)
  <2>1. page[t].stage = "needs-passkey"
    BY <1>5, StepShown DEF PasskeyRefused
  <2> QED
    BY <1>1, <1>5, <2>1, OnlyStepMoves DEF PasskeyRefused, Steps, Awaiting
<1>6. CASE ConnectionLost(t)
  BY <1>6, OnlyStepMoves DEF ConnectionLost, Steps, Awaiting
<1>7. CASE Prepare(t)
  <2>1. page[t].stage = "ready-to-spend" /\ step[t] = "preparing"
    BY <1>7, StepShown DEF Prepare
  <2> QED
    BY <1>2, <1>7, <2>1, OnlyStepMoves DEF Prepare, Spendable, Steps, Awaiting
<1>8. CASE Authorize(t)
  <2>1. page[t].stage = "ready-to-spend" /\ step[t] = "ready"
    BY <1>8, StepShown DEF Authorize, MayAuthorize
  <2> QED
    BY <1>2, <1>3, <1>8, <2>1, OnlyStepMoves DEF Authorize, Steps, Awaiting
<1>9. CASE NotAsserted(t)
  <2>0. At(t, "ready-to-spend", {"authorizing"})
    BY <1>9 DEF NotAsserted
  <2>1. page[t].stage = "ready-to-spend" /\ step[t] = "authorizing"
    BY <2>0, StepShown
  <2> QED
    BY <1>2, <1>3, <1>9, <2>1, OnlyStepMoves DEF NotAsserted, Steps, Awaiting
<1>10. CASE SendFails(t)
  BY <1>10, OnlyStepMoves DEF SendFails, FailedSend, Steps, Awaiting
<1> QED
  BY <1>4, <1>5, <1>6, <1>7, <1>8, <1>9, <1>10

\* A request to create an account is for the passkey of its page.
LEMMA CreateAccountKeepsInv ==
  ASSUME ClientInv, NEW t \in Tabs, CreateAccount(t)
  PROVE  ClientInv'
<1>1. UNCHANGED <<page, fetch, receipt, watch, refreshed, sends, stored, credentials,
                  manifest, funded, spend, signer, adrift, reloads>>
  BY DEF CreateAccount, chainVars
<1>2. page[t].stage = "needs-account"
  BY StepShown DEF CreateAccount
<1>3. sends[t] = 0
  BY <1>2 DEF ClientInv, Sent
<1>4. PICK n \in {"pending", "blocked"} : Goto(t, n) /\ creating' \in {creating, page[t].passkey}
  BY DEF CreateAccount
<1>5. n \in Steps
  BY DEF Steps, Awaiting
<1>6. Prepared' /\ step' \in [Tabs -> Steps]
  BY <1>1, <1>2, <1>4, <1>5, StepMoves
<1>7. Sent'
  BY <1>1, <1>3, <1>4, <1>5, StepMovesSent
<1>8. TabTypes' /\ Ready' /\ Reads' /\ Signed'
  BY <1>1, <1>6 DEF ClientInv, TabTypes, Ready, Reads, Signed
<1>9. page[t].passkey \in Accounts
  BY DEF ClientInv, TabTypes, Pages
<1>10. WorldTypes'
  BY <1>1, <1>4, <1>9 DEF ClientInv, WorldTypes
<1>11. Confirmed'
  BY <1>1 DEF ClientInv, Confirmed
<1>12. Registered' /\ SavedFirst'
  BY <1>1, <1>4 DEF ClientInv, Registered, SavedFirst
<1> QED
  BY <1>6, <1>7, <1>8, <1>10, <1>11, <1>12 DEF ClientInv

\* sendTransaction is called from a page that has not called it.
LEMMA AssertedKeepsInv ==
  ASSUME ClientInv, NEW t \in Tabs, Asserted(t)
  PROVE  ClientInv'
<1>1. UNCHANGED <<page, fetch, receipt, watch, refreshed, stored, credentials,
                  manifest, creating, funded, spend, signer, adrift, reloads>>
  BY DEF Asserted, serverVars, chainVars
<1>2. Goto(t, "submitting") /\ sends' = [sends EXCEPT ![t] = sends[t] + 1]
  BY DEF Asserted
<1>3. page[t].stage = "ready-to-spend" /\ step[t] = "authorizing"
  <2>1. At(t, "ready-to-spend", {"authorizing"})
    BY DEF Asserted
  <2> QED
    BY <2>1, StepShown
<1>4. page[t].passkey = page[t].account
  BY <1>3 DEF ClientInv, Prepared
<1>5. "submitting" \in Steps
  BY DEF Steps, Awaiting
<1>6. Prepared' /\ step' \in [Tabs -> Steps]
  BY <1>1, <1>2, <1>4, <1>5, StepMoves
<1>7. sends[t] = 0
  BY <1>3 DEF ClientInv, Sent
<1>8. sends' = [sends EXCEPT ![t] = 1]
  BY <1>2, <1>7
<1>9. Sent'
  BY <1>1, <1>2, <1>3, <1>8 DEF ClientInv, TabTypes, Sent, Goto
<1>10. TabTypes'
  BY <1>1, <1>6, <1>8 DEF ClientInv, TabTypes
<1>11. Ready' /\ Reads' /\ Signed' /\ WorldTypes'
  BY <1>1 DEF ClientInv, Ready, Reads, Signed, WorldTypes
<1>12. Confirmed' /\ Registered' /\ SavedFirst'
  BY <1>1 DEF ClientInv, Confirmed, Registered, SavedFirst
<1> QED
  BY <1>6, <1>9, <1>10, <1>11, <1>12 DEF ClientInv

\* The node is sent what the passkey of the recorded account authorized.
LEMMA NodeAcceptsKeepsInv ==
  ASSUME ClientInv, NEW t \in Tabs, NodeAccepts(t)
  PROVE  ClientInv'
<1>1. UNCHANGED <<page, fetch, receipt, watch, refreshed, sends, stored, credentials,
                  manifest, creating, funded, adrift, reloads>>
  BY DEF NodeAccepts, serverVars
<1>2. Goto(t, "sent") /\ spend # "committed" /\ spend' = "pool" /\ signer' = page[t].passkey
  BY DEF NodeAccepts
<1>3. page[t].stage = "ready-to-spend" /\ step[t] = "submitting"
  <2>1. At(t, "ready-to-spend", {"submitting"})
    BY DEF NodeAccepts
  <2> QED
    BY <2>1, StepShown
<1>4. page[t].passkey = page[t].account
  BY <1>3 DEF ClientInv, Prepared
<1>5. "sent" \in Steps
  BY DEF Steps, Awaiting
<1>6. Prepared' /\ step' \in [Tabs -> Steps]
  BY <1>1, <1>2, <1>4, <1>5, StepMoves
<1>7. Sent'
  BY <1>1, <1>2, <1>5, StepMovesSent
<1>8. signer' = manifest /\ manifest # None
  BY <1>2, <1>3, <1>4 DEF ClientInv, Ready
<1>9. Signed' /\ WorldTypes'
  BY <1>1, <1>2, <1>8 DEF ClientInv, Signed, WorldTypes
<1>10. Confirmed'
  BY <1>1, <1>2 DEF ClientInv, Confirmed
<1>11. TabTypes' /\ Ready' /\ Reads'
  BY <1>1, <1>6 DEF ClientInv, TabTypes, Ready, Reads
<1>12. Registered' /\ SavedFirst'
  BY <1>1 DEF ClientInv, Registered, SavedFirst
<1> QED
  BY <1>6, <1>7, <1>9, <1>10, <1>11, <1>12 DEF ClientInv

(***************************************************************************)
(* Receipts and the two watchers.                                          *)
(***************************************************************************)
\* A receipt may start one more read of the server, on a page ready to spend.
LEMMA ReceiptKeeps ==
  ASSUME ClientInv, NEW t \in Tabs,
         NEW status \in {"submitted", "confirmation_timeout", "committed"},
         HandleReceipt(t, status),
         UNCHANGED <<page, stored, credentials, serverVars>>
  PROVE  /\ receipt' = [receipt EXCEPT ![t] = status]
         /\ receipt' \in [Tabs -> Receipts] /\ refreshed' \in [Tabs -> BOOLEAN]
         /\ fetch' \in [Tabs -> Fetches \cup {Idle}]
         /\ Ready' /\ Reads' /\ Registered' /\ SavedFirst'
<1>1. receipt' = [receipt EXCEPT ![t] = status] /\ receipt' \in [Tabs -> Receipts]
  BY DEF HandleReceipt, ClientInv, TabTypes, Receipts
<1>2. Ready'
  BY DEF ClientInv, Ready, serverVars
<1>3. CASE UNCHANGED <<refreshed, fetch>>
  BY <1>1, <1>2, <1>3 DEF ClientInv, TabTypes, Reads, Registered, SavedFirst, serverVars
<1>4. CASE ~UNCHANGED <<refreshed, fetch>>
  <2>1. /\ refreshed' = [refreshed EXCEPT ![t] = TRUE]
        /\ page[t].stage = "ready-to-spend"
        /\ fetch' = [fetch EXCEPT ![t] = Fetching("commit", page[t].passkey)]
    BY <1>4 DEF HandleReceipt
  <2>2. refreshed' \in [Tabs -> BOOLEAN]
    BY <2>1 DEF ClientInv, TabTypes
  <2>3. page[t].passkey \in Accounts
    BY DEF ClientInv, TabTypes, Pages
  <2>4. Fetching("commit", page[t].passkey) \in Fetches
    BY <2>3 DEF Fetching, Fetches
  <2>5. fetch' \in [Tabs -> Fetches \cup {Idle}]
    BY <2>1, <2>4 DEF ClientInv, TabTypes
  <2>6. Reads'
    BY <2>1 DEF ClientInv, TabTypes, Reads, Fetching, serverVars
  <2>7. Registered' /\ SavedFirst'
    BY <2>1 DEF ClientInv, TabTypes, Registered, SavedFirst, Fetching, serverVars
  <2> QED
    BY <1>1, <1>2, <2>2, <2>5, <2>6, <2>7
<1> QED
  BY <1>3, <1>4

LEMMA WatchTyped ==
  ASSUME ClientInv, NEW t \in Tabs, NEW w \in Watchers,
         NEW s \in {"idle", "waiting", "verifying"}, watch' = [watch EXCEPT ![t][w] = s]
  PROVE  /\ watch' \in [Tabs -> [Watchers -> {"idle", "waiting", "verifying"}]]
         /\ \A u \in Tabs, v \in Watchers :
              watch'[u][v] = "verifying" => watch[u][v] = "verifying" \/ s = "verifying"
BY DEF ClientInv, TabTypes

LEMMA SubmittedKeepsInv ==
  ASSUME ClientInv, NEW t \in Tabs, Submitted(t)
  PROVE  ClientInv'
<1>1. UNCHANGED <<page, sends, stored, credentials, serverVars, chainVars, reloads>>
  BY DEF Submitted
<1>2. /\ HandleReceipt(t, "submitted") /\ Goto(t, "submitted")
      /\ watch' = [watch EXCEPT ![t]["authorize"] = "waiting"]
  BY DEF Submitted
<1>3. page[t].stage = "ready-to-spend" /\ step[t] = "sent"
  <2>1. At(t, "ready-to-spend", {"sent"})
    BY DEF Submitted
  <2> QED
    BY <2>1, StepShown
<1>4. page[t].passkey = page[t].account
  BY <1>3 DEF ClientInv, Prepared
<1>5. "submitted" \in Steps /\ "authorize" \in Watchers
  BY DEF Steps, Watchers
<1>6. Prepared' /\ step' \in [Tabs -> Steps]
  BY <1>1, <1>2, <1>4, <1>5, StepMoves
<1>7. Sent'
  BY <1>1, <1>2, <1>5, StepMovesSent
<1>8. /\ receipt' = [receipt EXCEPT ![t] = "submitted"]
      /\ receipt' \in [Tabs -> Receipts] /\ refreshed' \in [Tabs -> BOOLEAN]
      /\ fetch' \in [Tabs -> Fetches \cup {Idle}]
      /\ Ready' /\ Reads' /\ Registered' /\ SavedFirst'
  BY <1>1, <1>2, ReceiptKeeps
<1>9. /\ watch' \in [Tabs -> [Watchers -> {"idle", "waiting", "verifying"}]]
      /\ \A u \in Tabs, v \in Watchers : watch'[u][v] = "verifying" => watch[u][v] = "verifying"
  BY <1>2, <1>5, WatchTyped
<1>10. Confirmed'
  BY <1>1, <1>8, <1>9 DEF ClientInv, TabTypes, Confirmed, chainVars
<1>11. TabTypes'
  BY <1>1, <1>6, <1>8, <1>9 DEF ClientInv, TabTypes
<1>12. WorldTypes' /\ Signed'
  BY <1>1 DEF ClientInv, WorldTypes, Signed, serverVars, chainVars
<1> QED
  BY <1>6, <1>7, <1>8, <1>10, <1>11, <1>12 DEF ClientInv

\* A watcher that moves on without a word to the page.
LEMMA WatchMoves ==
  ASSUME ClientInv, NEW t \in Tabs, NEW w \in Watchers, NEW s \in {"idle", "waiting", "verifying"},
         watch' = [watch EXCEPT ![t][w] = s], s = "verifying" => spend = "committed",
         UNCHANGED <<page, step, fetch, receipt, refreshed, sends, stored, credentials,
                     serverVars, chainVars, reloads>>
  PROVE  ClientInv'
<1>1. /\ watch' \in [Tabs -> [Watchers -> {"idle", "waiting", "verifying"}]]
      /\ \A u \in Tabs, v \in Watchers :
           watch'[u][v] = "verifying" => watch[u][v] = "verifying" \/ s = "verifying"
  BY WatchTyped
<1>2. Confirmed'
  BY <1>1 DEF ClientInv, Confirmed, chainVars
<1>3. TabTypes'
  BY <1>1 DEF ClientInv, TabTypes
<1>4. WorldTypes' /\ Signed' /\ Ready' /\ Reads'
  BY DEF ClientInv, WorldTypes, Signed, Ready, Reads, serverVars, chainVars
<1>5. Prepared' /\ Sent' /\ Registered' /\ SavedFirst'
  BY DEF ClientInv, Prepared, Sent, Registered, SavedFirst, serverVars
<1> QED
  BY <1>2, <1>3, <1>4, <1>5 DEF ClientInv

\* A watcher that ends with a report: of a commitment only once there is one.
LEMMA WatchReports ==
  ASSUME ClientInv, NEW t \in Tabs, NEW w \in Watchers,
         NEW status \in {"submitted", "confirmation_timeout", "committed"},
         HandleReceipt(t, status), status = "committed" => spend = "committed",
         watch' = [watch EXCEPT ![t][w] = "idle"],
         UNCHANGED <<page, step, sends, stored, credentials, serverVars, chainVars, reloads>>
  PROVE  ClientInv'
<1>1. /\ receipt' = [receipt EXCEPT ![t] = status]
      /\ receipt' \in [Tabs -> Receipts] /\ refreshed' \in [Tabs -> BOOLEAN]
      /\ fetch' \in [Tabs -> Fetches \cup {Idle}]
      /\ Ready' /\ Reads' /\ Registered' /\ SavedFirst'
  BY ReceiptKeeps
<1>2. /\ watch' \in [Tabs -> [Watchers -> {"idle", "waiting", "verifying"}]]
      /\ \A u \in Tabs, v \in Watchers : watch'[u][v] = "verifying" => watch[u][v] = "verifying"
  BY WatchTyped
<1>3. Confirmed'
  BY <1>1, <1>2 DEF ClientInv, TabTypes, Confirmed, chainVars
<1>4. TabTypes'
  BY <1>1, <1>2 DEF ClientInv, TabTypes
<1>5. WorldTypes' /\ Signed'
  BY DEF ClientInv, WorldTypes, Signed, serverVars, chainVars
<1>6. Prepared' /\ Sent'
  BY DEF ClientInv, Prepared, Sent
<1> QED
  BY <1>1, <1>3, <1>4, <1>5, <1>6 DEF ClientInv

LEMMA WatchersKeepInv ==
  ASSUME ClientInv, NEW t \in Tabs,
         CheckAgain(t) \/ \E w \in Watchers : Confirm(t, w) \/ ConfirmFails(t, w)
  PROVE  ClientInv'
<1>1. CASE CheckAgain(t)
  BY <1>1, WatchMoves DEF CheckAgain, Watchers
<1>2. ASSUME NEW w \in Watchers, WaitEnds(t, w) PROVE ClientInv'
  BY <1>2, WatchMoves DEF WaitEnds, SeenCommitted
<1>3. ASSUME NEW w \in Watchers, ConfirmFails(t, w) PROVE ClientInv'
  BY <1>3, WatchMoves DEF ConfirmFails
<1>4. ASSUME NEW w \in Watchers, WaitTimesOut(t, w) PROVE ClientInv'
  BY <1>4, WatchReports DEF WaitTimesOut
<1>5. ASSUME NEW w \in Watchers, ChangeVerified(t, w) PROVE ClientInv'
  <2>1. spend = "committed"
    BY <1>5 DEF ChangeVerified, ClientInv, Confirmed
  <2> QED
    BY <1>5, <2>1, WatchReports DEF ChangeVerified
<1> QED
  BY <1>1, <1>2, <1>3, <1>4, <1>5 DEF Confirm

(***************************************************************************)
(* The reads of the server.                                                *)
(***************************************************************************)
\* An answer arrives: what it says of the account is what is on record now.
LEMMA AnswersKeepInv ==
  ASSUME ClientInv, NEW t \in Tabs, ReadStatus(t) \/ ReadAccount(t)
  PROVE  ClientInv'
<1>1. UNCHANGED <<page, step, receipt, watch, refreshed, sends, stored, credentials,
                  manifest, creating, funded, spend, signer, adrift, reloads>>
  BY DEF ReadStatus, ReadAccount, serverVars, chainVars
<1>2. fetch[t] # Idle /\ fetch[t] \in Fetches
  BY DEF ReadStatus, ReadAccount, ClientInv, TabTypes
<1>3. manifest \in Accounts
  BY DEF ClientInv, WorldTypes
<1>4. PICK f \in Fetches :
        /\ fetch' = [fetch EXCEPT ![t] = f]
        /\ f.for = fetch[t].for /\ f.passkey = fetch[t].passkey
        /\ f.account \in {fetch[t].account, manifest}
  <2>1. CASE ReadStatus(t)
    <3>1. PICK status \in {manifest, Unverified} : fetch' = [fetch EXCEPT ![t].status = status]
      BY <2>1 DEF ReadStatus
    <3>2. [fetch[t] EXCEPT !.status = status] \in Fetches
      BY <1>2, <1>3 DEF Fetches
    <3> QED
      BY <1>2, <3>1, <3>2 DEF Fetches
  <2>2. CASE ReadAccount(t)
    <3>1. fetch' = [fetch EXCEPT ![t].account = manifest]
      BY <2>2 DEF ReadAccount
    <3>2. [fetch[t] EXCEPT !.account = manifest] \in Fetches
      BY <1>2, <1>3 DEF Fetches
    <3> QED
      BY <1>2, <3>1, <3>2 DEF Fetches
  <2> QED
    BY <2>1, <2>2
<1>5. TabTypes'
  BY <1>1, <1>4 DEF ClientInv, TabTypes
<1>6. Reads'
  BY <1>1, <1>2, <1>4 DEF ClientInv, TabTypes, Reads
<1>7. Registered' /\ SavedFirst'
  BY <1>1, <1>2, <1>4 DEF ClientInv, TabTypes, Registered, SavedFirst
<1>8. WorldTypes' /\ Signed' /\ Ready'
  BY <1>1 DEF ClientInv, WorldTypes, Signed, Ready
<1>9. Prepared' /\ Sent' /\ Confirmed'
  BY <1>1 DEF ClientInv, Prepared, Sent, Confirmed
<1> QED
  BY <1>5, <1>6, <1>7, <1>8, <1>9 DEF ClientInv

\* A page that has nothing sent goes to another stage.
LEMMA StateSet ==
  ASSUME ClientInv, NEW t \in Tabs, NEW next \in Pages, SetState(t, next),
         page[t].stage # "ready-to-spend",
         fetch' = [fetch EXCEPT ![t] = Idle],
         IF next.stage = "ready-to-spend"
           THEN next.account = manifest /\ manifest # None /\ next.passkey # None
           ELSE next.account = None,
         next.passkey \in credentials' \cup {None}, stored' = None => next.passkey = None,
         credentials \subseteq credentials', credentials' \subseteq Keys,
         stored' \in {stored} \cup credentials', stored' \in Accounts,
         stored' = None => stored = None,
         UNCHANGED <<receipt, watch, refreshed, sends, serverVars, chainVars, reloads>>
  PROVE  ClientInv'
<1>1. UNCHANGED <<manifest, creating, funded, spend, signer, adrift>>
  BY DEF serverVars, chainVars
<1>2. /\ page' = [page EXCEPT ![t] = next]
      /\ step' = [step EXCEPT ![t] = IF next.stage = "ready-to-spend" THEN "preparing"
                                                                      ELSE "ready"]
  BY DEF SetState
<1>3. sends[t] = 0
  BY DEF ClientInv, Sent
<1>4. TabTypes'
  <2>1. step' \in [Tabs -> Steps]
    BY <1>2 DEF ClientInv, TabTypes, Steps, Awaiting
  <2> QED
    BY <1>2, <2>1 DEF ClientInv, TabTypes
<1>5. WorldTypes' /\ Signed'
  BY <1>1 DEF ClientInv, WorldTypes, Signed
<1>6. Ready'
  BY <1>1, <1>2 DEF ClientInv, TabTypes, Ready
<1>7. Reads'
  BY <1>1, <1>2 DEF ClientInv, TabTypes, Reads
<1>8. Prepared'
  BY <1>2 DEF ClientInv, TabTypes, Prepared
<1>9. Sent'
  BY <1>2, <1>3 DEF ClientInv, TabTypes, Sent
<1>10. Confirmed'
  BY <1>1 DEF ClientInv, Confirmed
<1>11. Registered'
  BY <1>1, <1>2 DEF ClientInv, TabTypes, Registered
<1>12. SavedFirst'
  BY <1>1, <1>2 DEF ClientInv, TabTypes, SavedFirst
<1> QED
  BY <1>4, <1>5, <1>6, <1>7, <1>8, <1>9, <1>10, <1>11, <1>12 DEF ClientInv

\* A read that ends without a change to the page.
LEMMA ReadDropped ==
  ASSUME ClientInv, NEW t \in Tabs, fetch' = [fetch EXCEPT ![t] = Idle],
         UNCHANGED <<page, step, receipt, watch, refreshed, sends, stored, credentials,
                     serverVars, chainVars, reloads>>
  PROVE  ClientInv'
<1>1. TabTypes'
  BY DEF ClientInv, TabTypes
<1>2. Reads' /\ Registered' /\ SavedFirst'
  BY DEF ClientInv, TabTypes, Reads, Registered, SavedFirst, serverVars
<1>3. WorldTypes' /\ Signed' /\ Ready'
  BY DEF ClientInv, WorldTypes, Signed, Ready, serverVars, chainVars
<1>4. Prepared' /\ Sent' /\ Confirmed'
  BY DEF ClientInv, Prepared, Sent, Confirmed, chainVars
<1> QED
  BY <1>1, <1>2, <1>3, <1>4 DEF ClientInv

\* What the reads after a commitment say leaves the page as it is, whatever they bring.
LEMMA CommitReadKeepsPage ==
  ASSUME ClientInv, NEW t \in Tabs, Reconciled(t), fetch[t].for = "commit"
  PROVE  UNCHANGED <<page, step>>
<1> DEFINE next == reconcile(fetch[t].status, fetch[t].account, fetch[t].passkey)
<1>1. /\ fetch[t] # Idle /\ fetch[t].account # Unread
      /\ page' = IF next.stage = "blocked" THEN page ELSE [page EXCEPT ![t] = next]
      /\ UNCHANGED step
  BY DEF Reconciled
<1>2. /\ page[t].stage = "ready-to-spend" /\ fetch[t].passkey = page[t].passkey
      /\ fetch[t].account = manifest
  BY <1>1 DEF ClientInv, Reads
<1>3. manifest # None /\ page[t].account = manifest /\ page[t] \in Pages /\ manifest \in Accounts
  BY <1>2 DEF ClientInv, Ready, TabTypes, WorldTypes
<1>4. page[t] = Page("ready-to-spend", manifest, page[t].passkey)
  BY <1>2, <1>3 DEF Page, Pages
<1>5. next.stage # "blocked" => next = page[t]
  BY <1>2, <1>3, <1>4, ReconcileDecides DEF Pages
<1> QED
  BY <1>1, <1>5 DEF ClientInv, TabTypes

LEMMA ReconciledKeepsInv ==
  ASSUME ClientInv, NEW t \in Tabs, Reconciled(t)
  PROVE  ClientInv'
<1>1. /\ fetch[t] # Idle /\ fetch[t].account # Unread /\ fetch' = [fetch EXCEPT ![t] = Idle]
      /\ UNCHANGED <<receipt, watch, refreshed, sends, stored, credentials, serverVars,
                     chainVars, reloads>>
  BY DEF Reconciled
<1>2. CASE fetch[t].for = "commit"
  <2>1. UNCHANGED <<page, step>>
    BY <1>2, CommitReadKeepsPage
  <2> QED
    BY <1>1, <2>1, ReadDropped
<1>3. CASE fetch[t].for # "commit"
  <2> DEFINE next == reconcile(fetch[t].status, fetch[t].account, fetch[t].passkey)
  <2>1. SetState(t, next)
    BY <1>3 DEF Reconciled
  <2>2. fetch[t] \in Fetches
    BY <1>1 DEF ClientInv, TabTypes
  <2>3. page[t].stage # "ready-to-spend"
    BY <1>1, <1>3, <2>2 DEF ClientInv, Reads, Fetches
  <2>4. fetch[t].account \in Accounts /\ fetch[t].passkey \in Accounts
    BY <1>1, <2>2 DEF Fetches
  <2>5. /\ next \in Pages
        /\ IF next.stage = "ready-to-spend"
             THEN next.account = fetch[t].account /\ fetch[t].account # None /\ next.passkey # None
             ELSE next.account = None
        /\ next.passkey \in {fetch[t].passkey, None}
    BY <2>4, ReconcileDecides
  <2>6. fetch[t].account \in {None, manifest}
    BY <1>1 DEF ClientInv, Reads
  <2>7. next.passkey \in credentials \cup {None} /\ (stored = None => next.passkey = None)
    BY <1>1, <2>5 DEF ClientInv, Registered, SavedFirst
  <2>8. credentials \subseteq Keys /\ stored \in Accounts
    BY DEF ClientInv, WorldTypes
  <2> HIDE DEF next
  <2> QED
    BY <1>1, <2>1, <2>3, <2>5, <2>6, <2>7, <2>8, StateSet
<1> QED
  BY <1>2, <1>3

LEMMA FetchFailsKeepsInv ==
  ASSUME ClientInv, NEW t \in Tabs, FetchFails(t)
  PROVE  ClientInv'
<1>1. /\ fetch[t] # Idle /\ fetch' = [fetch EXCEPT ![t] = Idle]
      /\ UNCHANGED <<receipt, watch, refreshed, sends, stored, credentials, serverVars,
                     chainVars, reloads>>
  BY DEF FetchFails
<1>2. CASE fetch[t].for = "commit"
  BY <1>1, <1>2, ReadDropped DEF FetchFails
<1>3. CASE fetch[t].for # "commit"
  <2>1. SetState(t, Blocked)
    BY <1>3 DEF FetchFails
  <2>2. fetch[t] \in Fetches
    BY <1>1 DEF ClientInv, TabTypes
  <2>3. page[t].stage # "ready-to-spend"
    BY <1>1, <1>3, <2>2 DEF ClientInv, Reads, Fetches
  <2>4. /\ Blocked \in Pages /\ Blocked.stage = "blocked"
        /\ Blocked.account = None /\ Blocked.passkey = None
    BY DEF Blocked, Page, Pages, Stages, Accounts
  <2>5. credentials \subseteq Keys /\ stored \in Accounts
    BY DEF ClientInv, WorldTypes
  <2> QED
    BY <1>1, <2>1, <2>3, <2>4, <2>5, StateSet
<1> QED
  BY <1>2, <1>3

(***************************************************************************)
(* Passkeys, the service, the chain, and leaving the page.                 *)
(***************************************************************************)
LEMMA RegisteredKeepsInv ==
  ASSUME ClientInv, NEW t \in Tabs, PasskeyRegistered(t)
  PROVE  ClientInv'
<1>1. UNCHANGED <<fetch, receipt, watch, refreshed, sends, serverVars, chainVars, reloads>>
  BY DEF PasskeyRegistered
<1>2. PICK k \in Keys \ credentials :
        /\ credentials' = credentials \cup {k}
        /\ \/ stored' = k /\ SetState(t, Page("needs-account", None, k))
           \/ Goto(t, "blocked") /\ UNCHANGED <<page, stored>>
  BY DEF PasskeyRegistered
<1>3. page[t].stage = "needs-passkey"
  BY StepShown DEF PasskeyRegistered
<1>4. fetch[t] = Idle
  BY <1>3 DEF ClientInv, TabTypes, Reads, Fetches
<1>5. credentials' \subseteq Keys /\ credentials \subseteq credentials'
  BY <1>2 DEF ClientInv, WorldTypes
<1>6. CASE stored' = k /\ SetState(t, Page("needs-account", None, k))
  <2> DEFINE next == Page("needs-account", None, k)
  <2>1. /\ next \in Pages /\ next.stage = "needs-account"
        /\ next.account = None /\ next.passkey = k
    BY DEF Page, Pages, Stages, Accounts
  <2>2. fetch' = [fetch EXCEPT ![t] = Idle]
    BY <1>1, <1>4 DEF ClientInv, TabTypes
  <2>3. k # None /\ k \in Accounts /\ k \in credentials'
    BY <1>2, ClientConstants DEF Accounts
  <2>4. SetState(t, next) /\ stored' = k
    BY <1>6
  <2> HIDE DEF next
  <2> QED
    BY <1>1, <1>3, <1>5, <2>1, <2>2, <2>3, <2>4, StateSet
<1>7. CASE Goto(t, "blocked") /\ UNCHANGED <<page, stored>>
  <2>1. "blocked" \in Steps
    BY DEF Steps
  <2>2. Prepared' /\ step' \in [Tabs -> Steps]
    BY <1>7, <2>1, StepMoves
  <2>3. Sent'
    BY <1>1, <1>7, <2>1, StepMovesSent
  <2>4. TabTypes' /\ Ready' /\ Reads'
    BY <1>1, <1>7, <2>2 DEF ClientInv, TabTypes, Ready, Reads, serverVars
  <2>5. WorldTypes' /\ Signed'
    BY <1>1, <1>5, <1>7 DEF ClientInv, WorldTypes, Signed, serverVars, chainVars
  <2>6. Confirmed'
    BY <1>1 DEF ClientInv, Confirmed, chainVars
  <2>7. Registered' /\ SavedFirst'
    BY <1>1, <1>5, <1>7 DEF ClientInv, Registered, SavedFirst, serverVars
  <2> QED
    BY <2>2, <2>3, <2>4, <2>5, <2>6, <2>7 DEF ClientInv
<1> QED
  BY <1>2, <1>6, <1>7

\* The account on record is recorded once, for a passkey that was saved.
LEMMA CreationEndsKeepsInv ==
  ASSUME ClientInv, CreationEnds
  PROVE  ClientInv'
<1>1. /\ creating # None
      /\ UNCHANGED <<page, receipt, watch, refreshed, sends, stored, credentials, spend,
                     signer, adrift, reloads>>
  BY DEF CreationEnds, chainVars
<1>2. manifest' = manifest \/ (manifest = None /\ manifest' = creating)
  BY DEF CreationEnds
<1>3. funded' \in {funded, funded \cup {creating}}
  BY DEF CreationEnds
<1>4. PICK outcome \in {"success", "retry", "blocked"} : Answer(outcome)
  BY DEF CreationEnds
<1>5. creating \in credentials /\ stored # None /\ creating \in Keys
  BY <1>1 DEF ClientInv, Registered, SavedFirst, WorldTypes
<1>6. \A t \in Waiting : t \in Tabs /\ page[t].stage = "needs-account"
  <2>1. \A t \in Waiting : t \in Tabs /\ At(t, "needs-account", {"pending"})
    BY DEF Waiting
  <2> QED
    BY <2>1, StepShown
<1>7. /\ step' = [t \in Tabs |-> IF t \in Waiting THEN outcome ELSE step[t]]
      /\ \A t \in Tabs : step'[t] = step[t] \/ (t \in Waiting /\ step'[t] = outcome)
  BY <1>4 DEF Answer
<1>8. /\ fetch' = [t \in Tabs |-> IF t \in Waiting /\ outcome = "success"
                                    THEN Fetching("created", page[t].passkey) ELSE fetch[t]]
      /\ \A t \in Tabs :
           \/ fetch'[t] = fetch[t]
           \/ t \in Waiting /\ fetch'[t] = Fetching("created", page[t].passkey)
  BY <1>4 DEF Answer
<1>9. creating' = None
  BY <1>4 DEF Answer
<1>10. \A t \in Tabs : page[t].passkey \in Accounts
  BY DEF ClientInv, TabTypes, Pages
<1>11. \A t \in Tabs : Fetching("created", page[t].passkey) \in Fetches
  BY <1>10 DEF Fetching, Fetches
<1>12. TabTypes'
  <2>1. step' \in [Tabs -> Steps]
    BY <1>7 DEF ClientInv, TabTypes, Steps
  <2>2. fetch' \in [Tabs -> Fetches \cup {Idle}]
    BY <1>8, <1>11 DEF ClientInv, TabTypes
  <2> QED
    BY <1>1, <2>1, <2>2 DEF ClientInv, TabTypes
<1>13. WorldTypes'
  BY <1>1, <1>2, <1>3, <1>5, <1>9 DEF ClientInv, WorldTypes, Accounts
<1>14. Ready' /\ Signed'
  BY <1>1, <1>2 DEF ClientInv, Ready, Signed
<1>15. \A t \in Tabs : fetch'[t] # fetch[t] =>
         /\ page[t].stage = "needs-account"
         /\ fetch'[t].account = Unread /\ fetch'[t].for = "created"
         /\ fetch'[t].passkey = page[t].passkey
  BY <1>6, <1>8 DEF Fetching
<1>16. Reads'
  <2>1. SUFFICES ASSUME NEW t \in Tabs, fetch'[t] # Idle
                 PROVE  /\ fetch'[t].account \in {Unread, None, manifest'}
                        /\ fetch'[t].for = "load" => page[t].stage = "loading"
                        /\ fetch'[t].for = "created" => page[t].stage = "needs-account"
                        /\ fetch'[t].for = "commit" =>
                             /\ page[t].stage = "ready-to-spend"
                             /\ fetch'[t].passkey = page[t].passkey
                             /\ fetch'[t].account \in {Unread, manifest'}
    BY <1>1 DEF Reads
  <2>2. CASE fetch'[t] = fetch[t]
    BY <1>2, <2>1, <2>2 DEF ClientInv, Reads, Ready
  <2>3. CASE fetch'[t] # fetch[t]
    BY <1>15, <2>3
  <2> QED
    BY <2>2, <2>3
<1>17. Prepared'
  BY <1>1, <1>6, <1>7 DEF ClientInv, Prepared
<1>18. Sent'
  BY <1>1, <1>6, <1>7 DEF ClientInv, Sent
<1>19. Confirmed'
  BY <1>1 DEF ClientInv, Confirmed
<1>20. Registered'
  BY <1>1, <1>3, <1>5, <1>9, <1>15 DEF ClientInv, Registered
<1>21. SavedFirst'
  BY <1>1, <1>5 DEF SavedFirst
<1> QED
  BY <1>12, <1>13, <1>14, <1>16, <1>17, <1>18, <1>19, <1>20, <1>21 DEF ClientInv

LEMMA SpendDecidedKeepsInv ==
  ASSUME ClientInv, SpendDecided
  PROVE  ClientInv'
<1>1. /\ spend = "pool" /\ spend' \in {"committed", "none"}
      /\ signer' \in {None, signer} /\ (spend' # "none" => signer' = signer)
      /\ UNCHANGED <<tabVars, stored, credentials, serverVars, adrift, reloads>>
  BY DEF SpendDecided
<1>2. WorldTypes' /\ Signed'
  BY <1>1 DEF ClientInv, WorldTypes, Signed, serverVars, Accounts
<1>3. Confirmed'
  BY <1>1 DEF ClientInv, Confirmed, tabVars
<1>4. TabTypes' /\ Ready' /\ Reads'
  BY <1>1 DEF ClientInv, TabTypes, Ready, Reads, tabVars, serverVars
<1>5. Prepared' /\ Sent' /\ Registered' /\ SavedFirst'
  BY <1>1 DEF ClientInv, Prepared, Sent, Registered, SavedFirst, tabVars, serverVars
<1> QED
  BY <1>2, <1>3, <1>4, <1>5 DEF ClientInv

LEMMA NodeAcceptsLateKeepsInv ==
  ASSUME ClientInv, NEW k \in adrift, NodeAcceptsLate(k)
  PROVE  ClientInv'
<1>1. /\ spend # "committed" /\ spend' = "pool" /\ signer' = k /\ adrift' = adrift \ {k}
      /\ UNCHANGED <<tabVars, stored, credentials, serverVars, reloads>>
  BY DEF NodeAcceptsLate
<1>2. WorldTypes' /\ Signed'
  BY <1>1 DEF ClientInv, WorldTypes, Signed, serverVars, Accounts
<1>3. Confirmed'
  BY <1>1 DEF ClientInv, Confirmed, tabVars
<1>4. TabTypes' /\ Ready' /\ Reads'
  BY <1>1 DEF ClientInv, TabTypes, Ready, Reads, tabVars, serverVars
<1>5. Prepared' /\ Sent' /\ Registered' /\ SavedFirst'
  BY <1>1 DEF ClientInv, Prepared, Sent, Registered, SavedFirst, tabVars, serverVars
<1> QED
  BY <1>2, <1>3, <1>4, <1>5 DEF ClientInv

\* A fresh page knows what localStorage holds and has sent nothing; what the page
\* before it was sending is for the account on record.
LEMMA ReloadKeepsInv ==
  ASSUME ClientInv, NEW t \in Tabs, Reload(t)
  PROVE  ClientInv'
<1>1. UNCHANGED <<stored, credentials, manifest, creating, funded, spend, signer>>
  BY DEF Reload, serverVars
<1>2. /\ page' = [page EXCEPT ![t] = Loading] /\ step' = [step EXCEPT ![t] = "ready"]
      /\ fetch' = [fetch EXCEPT ![t] = Fetching("load", stored)]
      /\ receipt' = [receipt EXCEPT ![t] = None]
      /\ watch' = [watch EXCEPT ![t] = [w \in Watchers |-> "idle"]]
      /\ refreshed' = [refreshed EXCEPT ![t] = FALSE] /\ sends' = [sends EXCEPT ![t] = 0]
  BY DEF Reload
<1>3. /\ Loading \in Pages /\ Loading.stage = "loading"
      /\ Loading.account = None /\ Loading.passkey = None
  BY DEF Loading, Page, Pages, Stages, Accounts
<1>4. /\ Fetching("load", stored) \in Fetches /\ Fetching("load", stored).for = "load"
      /\ Fetching("load", stored).account = Unread /\ Fetching("load", stored).passkey = stored
  BY DEF ClientInv, WorldTypes, Fetching, Fetches
<1>5. TabTypes'
  <2>1. page' \in [Tabs -> Pages] /\ fetch' \in [Tabs -> Fetches \cup {Idle}]
    BY <1>2, <1>3, <1>4 DEF ClientInv, TabTypes
  <2>2. step' \in [Tabs -> Steps] /\ receipt' \in [Tabs -> Receipts]
    BY <1>2 DEF ClientInv, TabTypes, Steps, Receipts
  <2>3. watch' \in [Tabs -> [Watchers -> {"idle", "waiting", "verifying"}]]
    BY <1>2 DEF ClientInv, TabTypes
  <2>4. refreshed' \in [Tabs -> BOOLEAN] /\ sends' \in [Tabs -> Nat]
    BY <1>2 DEF ClientInv, TabTypes
  <2> QED
    BY <2>1, <2>2, <2>3, <2>4 DEF TabTypes
<1>5a. \A k \in adrift' : k \in adrift \/ (k = manifest /\ manifest \in Keys)
  <2>1. CASE At(t, "ready-to-spend", {"submitting"})
    <3>1. page[t].stage = "ready-to-spend" /\ step[t] = "submitting"
      BY <2>1, StepShown
    <3>2. page[t].passkey = manifest /\ manifest # None
      BY <3>1 DEF ClientInv, Prepared, Ready
    <3>3. manifest \in Keys
      BY <3>2 DEF ClientInv, WorldTypes, Accounts
    <3> QED
      BY <2>1, <3>2, <3>3 DEF Reload
  <2>2. CASE ~At(t, "ready-to-spend", {"submitting"})
    BY <2>2 DEF Reload
  <2> QED
    BY <2>1, <2>2
<1>6. WorldTypes'
  <2>1. reloads' \in 0..MaxReloads
    BY ClientConstants DEF Reload, ClientInv, WorldTypes
  <2>2. adrift' \subseteq Keys
    BY <1>5a DEF ClientInv, WorldTypes
  <2> QED
    BY <1>1, <2>1, <2>2 DEF ClientInv, WorldTypes
<1>7. Ready' /\ Signed'
  <2>1. Ready'
    BY <1>1, <1>2, <1>3 DEF ClientInv, TabTypes, Ready
  <2>2. Signed'
    BY <1>1, <1>5a, ClientConstants DEF ClientInv, Signed
  <2> QED
    BY <2>1, <2>2
<1>8. Reads'
  BY <1>1, <1>2, <1>3, <1>4 DEF ClientInv, TabTypes, Reads
<1>9. Prepared' /\ Sent'
  BY <1>2, <1>3 DEF ClientInv, TabTypes, Prepared, Sent
<1>10. Confirmed'
  BY <1>1, <1>2 DEF ClientInv, TabTypes, Confirmed, None
<1>11. Registered'
  BY <1>1, <1>2, <1>3, <1>4 DEF ClientInv, TabTypes, Registered
<1>12. SavedFirst'
  BY <1>1, <1>2, <1>3, <1>4 DEF ClientInv, TabTypes, SavedFirst
<1> QED
  BY <1>5, <1>6, <1>7, <1>8, <1>9, <1>10, <1>11, <1>12 DEF ClientInv

-----------------------------------------------------------------------------
LEMMA InitClientInv == Init => ClientInv
<1> SUFFICES ASSUME Init PROVE ClientInv
  OBVIOUS
<1>1. Loading \in Pages /\ Loading = [stage |-> "loading", account |-> None, passkey |-> None]
  BY DEF Loading, Page, Pages, Stages, Accounts
<1>2. /\ Fetching("load", None) \in Fetches /\ Fetching("load", None).for = "load"
      /\ Fetching("load", None).account = Unread /\ Fetching("load", None).passkey = None
  BY DEF Fetching, Fetches, Accounts
<1>3. TabTypes
  BY <1>1, <1>2 DEF Init, TabTypes, Steps, Receipts
<1>4. WorldTypes
  BY ClientConstants DEF Init, WorldTypes, Accounts
<1>5. Ready /\ Prepared /\ Sent
  BY <1>1 DEF Init, Ready, Prepared, Sent
<1>6. Reads /\ Registered /\ SavedFirst
  BY <1>1, <1>2 DEF Init, Reads, Registered, SavedFirst
<1>7. Confirmed /\ Signed
  BY DEF Init, Confirmed, Signed, None
<1> QED
  BY <1>3, <1>4, <1>5, <1>6, <1>7 DEF ClientInv

LEMMA NextClientInv == ClientInv /\ [Next]_vars => ClientInv'
<1> SUFFICES ASSUME ClientInv, [Next]_vars PROVE ClientInv'
  OBVIOUS
<1>1. ASSUME NEW t \in Tabs, User(t) PROVE ClientInv'
  BY <1>1, StepsKeepInv, CreateAccountKeepsInv, WatchersKeepInv, ReloadKeepsInv DEF User
<1>2. ASSUME NEW t \in Tabs, ServerAnswers(t) PROVE ClientInv'
  BY <1>2, AnswersKeepInv, ReconciledKeepsInv DEF ServerAnswers
<1>3. ASSUME NEW t \in Tabs, StepEnds(t) PROVE ClientInv'
  BY <1>3, RegisteredKeepsInv, StepsKeepInv, AssertedKeepsInv, NodeAcceptsKeepsInv,
     SubmittedKeepsInv DEF StepEnds
<1>4. ASSUME NEW t \in Tabs, FetchFails(t) \/ ConnectionLost(t) PROVE ClientInv'
  BY <1>4, FetchFailsKeepsInv, StepsKeepInv
<1>5. ASSUME NEW t \in Tabs, \E w \in Watchers : Confirm(t, w) \/ ConfirmFails(t, w)
      PROVE  ClientInv'
  BY <1>5, WatchersKeepInv
<1>6. CASE CreationEnds
  BY <1>6, CreationEndsKeepsInv
<1>7. CASE SpendDecided
  BY <1>7, SpendDecidedKeepsInv
<1>7a. ASSUME NEW k \in adrift, NodeAcceptsLate(k) PROVE ClientInv'
  BY <1>7a, NodeAcceptsLateKeepsInv
<1>8. CASE UNCHANGED vars
  <2>1. TabTypes' /\ WorldTypes' /\ Signed' /\ Confirmed'
    BY <1>8 DEF ClientInv, TabTypes, WorldTypes, Signed, Confirmed,
                vars, tabVars, serverVars, chainVars
  <2>2. Ready' /\ Reads' /\ Prepared' /\ Sent' /\ Registered' /\ SavedFirst'
    BY <1>8 DEF ClientInv, Ready, Reads, Prepared, Sent, Registered, SavedFirst,
                vars, tabVars, serverVars
  <2> QED
    BY <2>1, <2>2 DEF ClientInv
<1> QED
  BY <1>1, <1>2, <1>3, <1>4, <1>5, <1>6, <1>7, <1>7a, <1>8 DEF Next

\* However many tabs, reads, clicks and reloads interleave, every tab is in step with
\* the record, the chain and localStorage in the sense of ClientInv.
THEOREM ClientInvariant == Spec => []ClientInv
<1> QED
  BY InitClientInv, NextClientInv, PTL DEF Spec

\* The client's state keeps its types, and only a page ready to spend has an account
\* (App.tsx, reconcile).
THEOREM ClientTypeSafety == Spec => []TypeOK
<1>1. ClientInv => TypeOK
  <2> SUFFICES ASSUME ClientInv PROVE TypeOK
    OBVIOUS
  <2>1. ASSUME NEW t \in Tabs
        PROVE  (page[t].account # None) = (page[t].stage = "ready-to-spend")
    <3>1. page[t].account # None <=> page[t].stage = "ready-to-spend"
      BY DEF ClientInv, Ready
    <3> QED
      BY <3>1, Zenon
  <2>2. \A t \in Tabs : fetch[t] \in Fetches \cup {Idle}
    BY DEF ClientInv, TabTypes
  <2>3. page \in [Tabs -> Pages] /\ step \in [Tabs -> Steps] /\ receipt \in [Tabs -> Receipts]
    BY DEF ClientInv, TabTypes
  <2>4. /\ watch \in [Tabs -> [Watchers -> {"idle", "waiting", "verifying"}]]
        /\ refreshed \in [Tabs -> BOOLEAN] /\ sends \in [Tabs -> Nat]
    BY DEF ClientInv, TabTypes
  <2>5. WorldTypes
    BY DEF ClientInv
  <2> QED
    BY <2>1, <2>2, <2>3, <2>4, <2>5, Zenon
    DEF TypeOK, Pages, Steps, Fetches, Receipts, WorldTypes
<1> QED
  BY <1>1, ClientInvariant, PTL

\* A page calls sendTransaction at most once, however often the user clicks and
\* cancels (SpendStep.tsx, authorize).
THEOREM PageSubmitsOnce == Spec => []SubmitsOnce
<1>1. ClientInv => SubmitsOnce
  <2> SUFFICES ASSUME ClientInv, NEW t \in Tabs PROVE sends[t] <= 1
    BY DEF SubmitsOnce
  <2>1. sends[t] \in {0, 1}
    BY DEF ClientInv, Sent
  <2> QED
    BY <2>1
<1> QED
  BY <1>1, ClientInvariant, PTL

\* "Nothing was submitted" is on screen only when nothing was (SpendStep.tsx).
THEOREM NothingWasSubmitted == Spec => []NothingSubmittedIsTrue
<1>1. ClientInv => NothingSubmittedIsTrue
  <2> SUFFICES ASSUME ClientInv, NEW t \in Tabs, At(t, "ready-to-spend", {"nothing submitted"})
               PROVE  sends[t] = 0
    BY DEF NothingSubmittedIsTrue
  <2>1. step[t] \in {"nothing submitted"}
    BY DEF At
  <2> QED
    BY <2>1 DEF ClientInv, Sent
<1> QED
  BY <1>1, ClientInvariant, PTL

\* A commitment on screen is one on chain, in whichever order authorize and Check
\* again report (Receipt.tsx, confirmSpend).
THEOREM CommitmentsAreTrue == Spec => []CommitmentIsTrue
<1>1. ClientInv => CommitmentIsTrue
  <2> SUFFICES ASSUME ClientInv, NEW t \in Tabs, Displayed(t) = "committed"
               PROVE  spend = "committed"
    BY DEF CommitmentIsTrue
  <2>1. page[t].stage \in Stages
    BY DEF ClientInv, TabTypes, Pages
  <2>2. receipt[t] = "committed"
    BY <2>1, CommittedShown
  <2> QED
    BY <2>2 DEF ClientInv, Confirmed
<1> QED
  BY <1>1, ClientInvariant, PTL

\* The node is sent only what the passkey of the recorded account authorized, also
\* when another tab has replaced the passkey record.
THEOREM CredentialIsRight == Spec => []RightCredential
<1>1. ClientInv => RightCredential
  BY DEF ClientInv, Signed, RightCredential
<1> QED
  BY <1>1, ClientInvariant, PTL

\* Capacity on chain for a passkey can be spent with the record in localStorage
\* unless a second passkey was registered (PasskeyStep.tsx saves before it goes on).
THEOREM CapacitySpendable == Spec => []SpendableUnlessReplaced
<1>1. ClientInv => SpendableUnlessReplaced
  <2> SUFFICES ASSUME ClientInv, NEW k \in Keys, credentials \subseteq {k}
               PROVE  funded \subseteq {stored}
    BY DEF SpendableUnlessReplaced
  <2>1. stored \in credentials \cup {None} /\ funded \subseteq credentials
    BY DEF ClientInv, Registered
  <2>2. stored = None => funded = {}
    BY DEF ClientInv, SavedFirst
  <2> QED
    BY <2>1, <2>2
<1> QED
  BY <1>1, ClientInvariant, PTL

\* Only leaving the page, or the other watcher running out of time later, takes a
\* commitment off the screen: neither a read that fails nor one that finds the
\* deployment unverified does (App.tsx, handleSpendReceipt).
THEOREM CommitmentsStay == Spec => CommitmentStays
<1> DEFINE Stays == \A t \in Tabs :
                      Displayed(t) = "committed" =>
                        \/ Displayed(t)' = "committed"
                        \/ receipt'[t] = "confirmation_timeout" \/ page'[t] = Loading
<1>1. ClientInv /\ ClientInv' /\ [Next]_vars => [Stays]_vars
  <2> SUFFICES ASSUME ClientInv, ClientInv', Next, NEW u \in Tabs, Displayed(u) = "committed",
                      receipt'[u] # "confirmation_timeout", page'[u] # Loading
               PROVE  Displayed(u)' = "committed"
    OBVIOUS
  <2>1. receipt[u] = "committed" /\ page[u].stage = "ready-to-spend"
    <3>1. page[u].stage \in Stages
      BY DEF ClientInv, TabTypes, Pages
    <3> QED
      BY <3>1, CommittedShown
  <2>2. SUFFICES receipt'[u] = "committed" /\ page'[u].stage = "ready-to-spend"
    <3>1. receipt'[u] # None
      BY <2>2 DEF None
    <3> QED
      BY <2>2, <3>1 DEF Displayed
  <2>3. \A stage \in {"needs-passkey", "needs-account", "ready-to-spend"} : \A steps :
          ~At(u, stage, steps)
    BY <2>1, StepShown DEF None
  <2> DEFINE Kept == receipt'[u] = receipt[u] /\ page'[u] = page[u]
  <2>4. ASSUME NEW t \in Tabs, User(t) PROVE Kept
    <3>1. CASE CreatePasskey(t) \/ CreateAccount(t) \/ Authorize(t) \/ CheckAgain(t)
      BY <3>1 DEF CreatePasskey, CreateAccount, Authorize, CheckAgain
    <3>2. CASE Reload(t)
      <4>1. t # u
        BY <3>2 DEF Reload, ClientInv, TabTypes
      <4> QED
        BY <3>2, <4>1 DEF Reload, ClientInv, TabTypes
    <3> QED
      BY <2>4, <3>1, <3>2 DEF User
  <2>5. ASSUME NEW t \in Tabs, ServerAnswers(t) PROVE Kept
    <3>1. CASE ReadStatus(t) \/ ReadAccount(t)
      BY <3>1 DEF ReadStatus, ReadAccount
    <3>2. CASE Reconciled(t)
      <4>1. CASE fetch[t].for = "commit"
        BY <3>2, <4>1, CommitReadKeepsPage DEF Reconciled
      <4>2. CASE fetch[t].for # "commit"
        <5>1. fetch[t] # Idle /\ fetch[t] \in Fetches
          BY <3>2 DEF Reconciled, ClientInv, TabTypes
        <5>2. page[t].stage # "ready-to-spend"
          BY <4>2, <5>1 DEF ClientInv, Reads, Fetches
        <5> QED
          BY <2>1, <3>2, <4>2, <5>2 DEF Reconciled, SetState, ClientInv, TabTypes
      <4> QED
        BY <4>1, <4>2
    <3> QED
      BY <2>5, <3>1, <3>2 DEF ServerAnswers
  <2>6. ASSUME NEW t \in Tabs, FetchFails(t) PROVE Kept
    <3>1. CASE fetch[t].for = "commit"
      BY <2>6, <3>1 DEF FetchFails
    <3>2. CASE fetch[t].for # "commit"
      <4>1. fetch[t] # Idle /\ fetch[t] \in Fetches
        BY <2>6 DEF FetchFails, ClientInv, TabTypes
      <4>2. page[t].stage # "ready-to-spend"
        BY <3>2, <4>1 DEF ClientInv, Reads, Fetches
      <4> QED
        BY <2>1, <2>6, <3>2, <4>2 DEF FetchFails, SetState, ClientInv, TabTypes
    <3> QED
      BY <3>1, <3>2
  <2>7. ASSUME NEW t \in Tabs, StepEnds(t) PROVE Kept
    <3>1. CASE \/ PasskeyRefused(t) \/ Prepare(t) \/ Asserted(t) \/ NotAsserted(t)
               \/ NodeAccepts(t) \/ SendFails(t)
      BY <3>1 DEF PasskeyRefused, Prepare, Asserted, NotAsserted, NodeAccepts, SendFails
    <3>2. CASE PasskeyRegistered(t)
      <4>1. t # u
        BY <2>3, <3>2 DEF PasskeyRegistered
      <4> QED
        BY <3>2, <4>1 DEF PasskeyRegistered, SetState, ClientInv, TabTypes
    <3>3. CASE Submitted(t)
      <4>1. t # u
        BY <2>3, <3>3 DEF Submitted
      <4> QED
        BY <3>3, <4>1 DEF Submitted, HandleReceipt, ClientInv, TabTypes
    <3> QED
      BY <2>7, <3>1, <3>2, <3>3 DEF StepEnds
  <2>8. ASSUME NEW t \in Tabs, NEW w \in Watchers, WaitEnds(t, w) \/ ConfirmFails(t, w)
        PROVE  Kept
    BY <2>8 DEF WaitEnds, ConfirmFails
  <2>9. ASSUME NEW t \in Tabs, NEW w \in Watchers, WaitTimesOut(t, w) \/ ChangeVerified(t, w)
        PROVE  receipt'[u] = "committed" /\ page'[u] = page[u]
    BY <2>1, <2>9 DEF WaitTimesOut, ChangeVerified, HandleReceipt, ClientInv, TabTypes
  <2>10. ASSUME NEW t \in Tabs, ConnectionLost(t) PROVE Kept
    BY <2>10 DEF ConnectionLost
  <2>11. CASE CreationEnds
    BY <2>1, <2>11 DEF CreationEnds
  <2>12. CASE SpendDecided
    BY <2>1, <2>12 DEF SpendDecided, tabVars
  <2>13. ASSUME NEW k \in adrift, NodeAcceptsLate(k) PROVE Kept
    BY <2>13 DEF NodeAcceptsLate, tabVars
  <2> QED
    BY <2>1, <2>4, <2>5, <2>6, <2>7, <2>8, <2>9, <2>10, <2>11, <2>12,
       <2>13 DEF Next, Confirm
<1> QED
  BY <1>1, ClientInvariant, PTL DEF Spec, CommitmentStays
=============================================================================
