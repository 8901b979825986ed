----------------------------- MODULE ApiServer -----------------------------
(***************************************************************************)
(* The demo's HTTP API and the state export behind it: requests whose      *)
(* bodies arrive chunk by chunk, the single-flight bootstrap they end in,  *)
(* and the temporary directory of exportAccountState, with every await of  *)
(* both.  A request is a record:                                           *)
(*   local     it names the API's host and comes from the demo's origin    *)
(*   route, method, json (its content type), declared (content-length)     *)
(*   chunks    the sizes in which its body arrives                         *)
(*   key       the public key in its body; NoKey if it does not parse      *)
(* What bootstrap does after the export is one step here; DemoBackend has  *)
(* it in detail.  Browser, file system and cargo are external.             *)
(***************************************************************************)
EXTENDS Naturals, Sequences, FiniteSets, SequencesExt

CONSTANTS
  Connections,  \* connections of browsers, one request each
  Shapes,       \* the requests they may carry
  NoKey,
  BODY_LIMIT,   \* 16384 in the code
  MaxDirs,      \* bound: temporary directories
  MaxCrashes    \* bound: crashes of the server

ASSUME ApiConstants ==
  /\ BODY_LIMIT \in Nat /\ MaxDirs \in Nat /\ MaxCrashes \in Nat
  /\ \A shape \in Shapes : shape.chunks \in Seq(Nat)

VARIABLES
  conns,    \* connection -> [step, shape, chunks to come, buffered bytes, status]
  active,   \* the account creation under way, or Idle
  dirs,     \* temporary directories that exist
  made,     \* how many were made
  filled,   \* those of them in which an export has written
  leaked,   \* history: directories whose removal failed, or whose export a crash cut short
  crashes

vars == <<conns, active, dirs, filled, made, leaked, crashes>>

Idle == [step |-> "idle"]
Unsent == [step |-> "unsent"]

Init ==
  /\ conns = [c \in Connections |-> Unsent]
  /\ active = Idle
  /\ dirs = {} /\ filled = {} /\ made = 0 /\ leaked = {}
  /\ crashes = 0

At(c, step) == conns[c].step = step
sendJson(c, status) ==
  conns' = [conns EXCEPT ![c].step = "answered", ![c].status = status]

(***************************************************************************)
(* handleRequest, up to its first await.                                   *)
(***************************************************************************)
Allowed == [status |-> "GET", account |-> "GET", bootstrap |-> "POST"]

\* Mutant: requests of any origin.
EarlyStatus_any_origin(shape) ==
  IF shape.route \notin DOMAIN Allowed        THEN 404
  ELSE IF shape.method # Allowed[shape.route] THEN 405
  ELSE IF shape.route # "bootstrap"           THEN 0
  ELSE IF ~shape.json                         THEN 415
  ELSE IF shape.declared > BODY_LIMIT         THEN 413
  ELSE 0

\* The answer without reading the body; 0 if there is none yet.
EarlyStatus(shape) ==
  IF ~shape.local                             THEN 403
  ELSE IF shape.route \notin DOMAIN Allowed   THEN 404
  ELSE IF shape.method # Allowed[shape.route] THEN 405
  ELSE IF shape.route # "bootstrap"           THEN 0
  ELSE IF ~shape.json                         THEN 415
  ELSE IF shape.declared > BODY_LIMIT         THEN 413
  ELSE 0

handleRequest(c, shape) ==
  /\ conns[c] = Unsent
  /\ conns' = [conns EXCEPT ![c] =
                 [shape    |-> shape,
                  step     |-> IF EarlyStatus(shape) # 0         THEN "answered"
                               ELSE IF shape.route = "bootstrap" THEN "body"
                               ELSE "service",
                  status   |-> EarlyStatus(shape),
                  chunks   |-> shape.chunks,
                  buffered |-> 0]]
  /\ UNCHANGED <<active, dirs, filled, made, leaked, crashes>>

\* service.status and service.account: an answer or an error.
AnswerGet(c) ==
  /\ At(c, "service")
  /\ \E status \in {200, 409, 500} : sendJson(c, status)
  /\ UNCHANGED <<active, dirs, filled, made, leaked, crashes>>

(***************************************************************************)
(* readBody, one event at a time.                                          *)
(***************************************************************************)
\* Mutant: the limit is checked before the chunk is added.
TooLarge_late(c) == conns[c].buffered > BODY_LIMIT

TooLarge(c) == conns[c].buffered + Head(conns[c].chunks) > BODY_LIMIT

\* Mutant: over the limit reading stops and nobody is told.
ReadChunk_silent(c) ==
  /\ At(c, "body") /\ conns[c].chunks # <<>>
  /\ conns' = IF TooLarge(c) THEN [conns EXCEPT ![c].step = "stopped"]
              ELSE [conns EXCEPT ![c].chunks = Tail(@),
                                 ![c].buffered = @ + Head(conns[c].chunks)]
  /\ UNCHANGED <<active, dirs, filled, made, leaked, crashes>>

\* Over the limit nothing more is kept, and the rejection is answered.
ReadChunk(c) ==
  /\ At(c, "body") /\ conns[c].chunks # <<>>
  /\ IF TooLarge(c) THEN sendJson(c, 413)
     ELSE conns' = [conns EXCEPT ![c].chunks = Tail(@),
                                 ![c].buffered = @ + Head(conns[c].chunks)]
  /\ UNCHANGED <<active, dirs, filled, made, leaked, crashes>>

\* The whole body is there: JSON and schema, then service.bootstrap, which refuses
\* another key's request while a creation runs, joins it, or starts one.
EndBody(c) ==
  /\ At(c, "body") /\ conns[c].chunks = <<>>
  /\ LET key == conns[c].shape.key
         otherKey == active # Idle /\ active.key # key
     IN \/ key = NoKey /\ sendJson(c, 400) /\ UNCHANGED active
        \/ key # NoKey /\ otherKey /\ sendJson(c, 409) /\ UNCHANGED active
        \/ /\ key # NoKey /\ ~otherKey
           /\ conns' = [conns EXCEPT ![c].step = "waiting"]
           /\ active' = IF active # Idle THEN active
                        ELSE [step |-> "mkdtemp", key |-> key, dir |-> 0, ok |-> FALSE]
  /\ UNCHANGED <<dirs, filled, made, leaked, crashes>>

\* The browser goes away: a body still being read fails, a creation goes on.
Disconnect(c) ==
  /\ At(c, "body")
  /\ sendJson(c, 400)
  /\ UNCHANGED <<active, dirs, filled, made, leaked, crashes>>

(***************************************************************************)
(* exportAccountState and makeTempDir.                                     *)
(***************************************************************************)
Exporting(step) == active.step = step
Goto(step) == active' = [active EXCEPT !.step = step]

\* The shared promise is settled: everyone who waits is answered.
Settle(status) ==
  /\ active' = Idle
  /\ conns' = [c \in Connections |->
                 IF At(c, "waiting")
                   THEN [conns[c] EXCEPT !.step = "answered", !.status = status]
                   ELSE conns[c]]

MakeTempDir ==
  /\ Exporting("mkdtemp")
  /\ \/ /\ made < MaxDirs
        /\ made' = made + 1 /\ dirs' = dirs \cup {made + 1}
        /\ active' = [active EXCEPT !.step = "chmod", !.dir = made + 1]
        /\ UNCHANGED conns
     \/ Settle(500) /\ UNCHANGED <<made, dirs>>
  /\ UNCHANGED <<filled, leaked, crashes>>

\* When chmod fails, exportAccountState never learns of the directory, and its
\* finally removes nothing: an empty directory stays behind.
Chmod ==
  /\ Exporting("chmod")
  /\ \/ Goto("config") /\ UNCHANGED conns
     \/ Settle(500)
  /\ UNCHANGED <<dirs, filled, made, leaked, crashes>>

\* Mutant: the directory is removed on success only.
Failing_in_place == Settle(500)

\* Any failure in the try block ends in its finally.
Failing == Goto("remove") /\ UNCHANGED conns

\* A write that fails may have written a part.
WriteConfig ==
  /\ Exporting("config")
  /\ \/ Goto("child") /\ UNCHANGED conns
     \/ Failing
  /\ filled' = filled \cup {active.dir}
  /\ UNCHANGED <<dirs, made, leaked, crashes>>

\* cargo ends with 0, or with another code, or cannot be started.
ChildCloses ==
  /\ Exporting("child")
  /\ \/ Goto("read") /\ UNCHANGED conns
     \/ Failing
  /\ UNCHANGED <<dirs, filled, made, leaked, crashes>>

\* The output is there and not empty.
ReadOutput ==
  /\ Exporting("read")
  /\ \/ active' = [active EXCEPT !.step = "remove", !.ok = TRUE] /\ UNCHANGED conns
     \/ Failing
  /\ UNCHANGED <<dirs, filled, made, leaked, crashes>>

\* finally: if the removal itself fails, so does the export.
RemoveDir ==
  /\ Exporting("remove")
  /\ \/ /\ dirs' = dirs \ {active.dir} /\ filled' = filled \ {active.dir}
        /\ IF active.ok THEN Goto("create") /\ UNCHANGED conns ELSE Settle(500)
        /\ UNCHANGED leaked
     \/ Settle(500) /\ leaked' = leaked \cup {active.dir} /\ UNCHANGED <<dirs, filled>>
  /\ UNCHANGED <<made, crashes>>

\* The rest of bootstrapOnce.
Create ==
  /\ Exporting("create")
  /\ \E status \in {200, 409, 500, 504} : Settle(status)
  /\ UNCHANGED <<dirs, filled, made, leaked, crashes>>

exportAccountState ==
  \/ MakeTempDir \/ Chmod \/ WriteConfig \/ ChildCloses \/ ReadOutput \/ RemoveDir

\* The server dies and is started again; connections are cut.
Crash ==
  /\ crashes < MaxCrashes
  /\ crashes' = crashes + 1
  /\ active' = Idle
  /\ leaked' = leaked \cup (IF active = Idle THEN {} ELSE dirs \cap {active.dir})
  /\ conns' = [c \in Connections |->
                 IF At(c, "unsent") \/ At(c, "answered") THEN conns[c]
                 ELSE [conns[c] EXCEPT !.step = "cut"]]
  /\ UNCHANGED <<dirs, filled, made>>

Arrives(c) == ReadChunk(c) \/ EndBody(c) \/ Disconnect(c)
Next ==
  \/ \E c \in Connections :
        (\E shape \in Shapes : handleRequest(c, shape)) \/ AnswerGet(c) \/ Arrives(c)
  \/ exportAccountState \/ Create \/ Crash

\* A body arrives or its connection ends (Node's request timeout), every call of
\* the server returns, and cargo, which nothing stops, is taken to end.
Spec ==
  /\ Init /\ [][Next]_vars
  /\ \A c \in Connections : WF_vars(AnswerGet(c)) /\ WF_vars(Arrives(c))
  /\ WF_vars(exportAccountState) /\ WF_vars(Create)
-----------------------------------------------------------------------------
(***************************************************************************)
(* Properties.                                                             *)
(***************************************************************************)
BodySize(shape) == FoldLeft(LAMBDA sum, n : sum + n, 0, shape.chunks)

\* However a body is cut into chunks, and whatever length was declared, no more
\* than BODY_LIMIT bytes of it are kept.
BufferBounded == \A c \in Connections : ~At(c, "unsent") => conns[c].buffered <= BODY_LIMIT

\* A creation under way was asked for by a request of the local demo with a body
\* within the limit and with that key (unless the one who asked is gone).
CreationAskedFor ==
  active # Idle =>
    \E c \in Connections :
      /\ At(c, "waiting")
      /\ conns[c].shape.local /\ conns[c].shape.key = active.key
      /\ BodySize(conns[c].shape) <= BODY_LIMIT

\* What an export has written is in the directory of the export under way, or in one
\* whose removal failed or was prevented by a crash: once writing has begun, every
\* failure goes through finally.  (Of an empty directory this says nothing: a failed
\* chmod leaves one behind.)
TempDirsAccounted == filled \subseteq leaked \cup (IF active = Idle THEN {} ELSE {active.dir})

\* Every request is answered, or its server dies.
RequestsAnswered == \A c \in Connections : (~At(c, "unsent")) ~> (At(c, "answered") \/ At(c, "cut"))
=============================================================================
