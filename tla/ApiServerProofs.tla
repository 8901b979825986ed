-------------------------- MODULE ApiServerProofs --------------------------
(***************************************************************************)
(* The demo's HTTP API and the state export, for any number of connections *)
(* and any requests, whatever the sizes in which their bodies arrive.  The *)
(* argument: the limit is checked on the sum before a chunk is kept; those *)
(* who wait for a creation leave only together and when it ends; and every *)
(* step of the export that may have written leads to its finally.  What    *)
(* has been read of a body is a prefix sum of its chunks, so a body that   *)
(* was read to its end has the size the limit was compared with.           *)
(***************************************************************************)
EXTENDS ApiServer, SequenceTheorems, FiniteSetTheorems, WellFoundedInduction, TLAPS

ConnSteps == {"body", "service", "waiting", "answered", "cut"}
Conn == [shape : Shapes, step : ConnSteps, status : Nat, chunks : Seq(Nat), buffered : 0..BODY_LIMIT]
Keys == {shape.key : shape \in Shapes}
ExportSteps == {"mkdtemp", "chmod", "config", "child", "read", "remove", "create"}
Creation == [step : ExportSteps, key : Keys, dir : Nat, ok : BOOLEAN]

ConnsOK == conns \in [Connections -> Conn \cup {Unsent}]
ActiveOK == active \in Creation \cup {Idle}

\* Only a local request gets as far as its body, and none waits before its end.
Admitted ==
  \A c \in Connections :
    /\ conns[c].step \in {"body", "waiting"} => conns[c].shape.local
    /\ conns[c].step = "waiting" => conns[c].chunks = <<>>

\* A creation is for the key of one who waits.
AskedByWhoWaits ==
  active # Idle =>
    \E c \in Connections : conns[c].step = "waiting" /\ conns[c].shape.key = active.key

\* The directory is there from mkdtemp until its removal, and nothing is written in
\* it before chmod has succeeded.
DirsAccounted ==
  /\ filled \subseteq dirs
  /\ active.step \in {"chmod", "config", "child", "read", "remove"} => active.dir \in dirs
  /\ filled \subseteq leaked \cup (IF active.step \in {"config", "child", "read", "remove"}
                                    THEN {active.dir} ELSE {})

\* The inductive invariant.
ApiInv == ConnsOK /\ ActiveOK /\ made \in Nat /\ Admitted /\ AskedByWhoWaits /\ DirsAccounted

LEMMA ConnFields ==
  ASSUME ConnsOK, NEW c \in Connections, conns[c].step # "unsent"
  PROVE  /\ conns[c] \in Conn /\ conns[c].shape \in Shapes /\ conns[c].step \in ConnSteps
         /\ conns[c].chunks \in Seq(Nat) /\ conns[c].buffered \in 0..BODY_LIMIT
<1>1. conns[c] # Unsent
  BY DEF Unsent
<1>2. conns[c] \in Conn
  BY <1>1 DEF ConnsOK
<1> QED
  BY <1>2 DEF Conn

\* An answer or a cut changes nothing else of a connection.
LEMMA AnsweredConn ==
  ASSUME NEW conn \in Conn, NEW status \in Nat
  PROVE  [conn EXCEPT !.step = "answered", !.status = status]
           = [shape |-> conn.shape, step |-> "answered", status |-> status,
              chunks |-> conn.chunks, buffered |-> conn.buffered]
<1>1. conn = [shape |-> conn.shape, step |-> conn.step, status |-> conn.status,
              chunks |-> conn.chunks, buffered |-> conn.buffered]
  BY DEF Conn
<1>2. [conn EXCEPT !.step = "answered"]
        = [shape |-> conn.shape, step |-> "answered", status |-> conn.status,
           chunks |-> conn.chunks, buffered |-> conn.buffered]
  BY <1>1
<1>3. [[shape |-> conn.shape, step |-> "answered", status |-> conn.status,
        chunks |-> conn.chunks, buffered |-> conn.buffered] EXCEPT !.status = status]
        = [shape |-> conn.shape, step |-> "answered", status |-> status,
           chunks |-> conn.chunks, buffered |-> conn.buffered]
  OBVIOUS
<1> QED
  BY <1>2, <1>3

\* A request is answered while nobody who waits is touched.
LEMMA SendJsonKeeps ==
  ASSUME ApiInv, NEW c \in Connections, conns[c].step \in {"body", "service"},
         NEW status \in Nat, sendJson(c, status), UNCHANGED active
  PROVE  ConnsOK' /\ ActiveOK' /\ Admitted' /\ AskedByWhoWaits'
<1> DEFINE next == [conns[c] EXCEPT !.step = "answered", !.status = status]
<1>1. conns[c] \in Conn
  BY ConnFields DEF ApiInv
<1>2. conns' = [conns EXCEPT ![c] = next]
  BY DEF sendJson
<1>3. next = [shape |-> conns[c].shape, step |-> "answered", status |-> status,
              chunks |-> conns[c].chunks, buffered |-> conns[c].buffered]
  BY <1>1, AnsweredConn
<1> HIDE DEF next
<1>4. next \in Conn /\ next.step = "answered"
  BY <1>1, <1>3 DEF Conn, ConnSteps
<1>5. ConnsOK' /\ conns'[c] = next /\ \A d \in Connections \ {c} : conns'[d] = conns[d]
  BY <1>2, <1>4 DEF ApiInv, ConnsOK
<1> QED
  BY <1>4, <1>5 DEF ApiInv, ActiveOK, Admitted, AskedByWhoWaits

\* The shared promise is settled.
LEMMA SettleKeeps ==
  ASSUME ApiInv, NEW status \in Nat, Settle(status)
  PROVE  ConnsOK' /\ ActiveOK' /\ Admitted' /\ AskedByWhoWaits' /\ active' = Idle
<1>1. /\ active' = Idle
      /\ conns' = [c \in Connections |->
                     IF conns[c].step = "waiting"
                       THEN [conns[c] EXCEPT !.step = "answered", !.status = status]
                       ELSE conns[c]]
  BY DEF Settle, At
<1>2. ASSUME NEW c \in Connections, conns[c].step = "waiting"
      PROVE  conns'[c] \in Conn /\ conns'[c].step = "answered"
  <2>1. conns[c] \in Conn
    BY <1>2, ConnFields DEF ApiInv
  <2>2. conns'[c] = [conns[c] EXCEPT !.step = "answered", !.status = status]
    BY <1>1, <1>2
  <2>3. conns'[c] = [shape |-> conns[c].shape, step |-> "answered", status |-> status,
                     chunks |-> conns[c].chunks, buffered |-> conns[c].buffered]
    BY <2>1, <2>2, AnsweredConn
  <2> QED
    BY <2>1, <2>3 DEF Conn, ConnSteps
<1>3. \A c \in Connections : conns[c].step # "waiting" => conns'[c] = conns[c]
  BY <1>1
<1>4. ConnsOK'
  <2>1. \A c \in Connections : conns'[c] \in Conn \cup {Unsent}
    BY <1>2, <1>3 DEF ApiInv, ConnsOK
  <2> QED
    BY <1>1, <2>1 DEF ConnsOK
<1>5. Admitted'
  BY <1>2, <1>3 DEF ApiInv, Admitted
<1> QED
  BY <1>1, <1>4, <1>5 DEF ActiveOK, AskedByWhoWaits

\* Admission: the origin is checked before anything else.
LEMMA HandleKeepsInv ==
  ASSUME ApiInv, NEW c \in Connections, NEW shape \in Shapes, handleRequest(c, shape)
  PROVE  ApiInv'
<1> DEFINE step == IF EarlyStatus(shape) # 0         THEN "answered"
                   ELSE IF shape.route = "bootstrap" THEN "body"
                   ELSE "service"
           next == [shape |-> shape, step |-> step, status |-> EarlyStatus(shape),
                    chunks |-> shape.chunks, buffered |-> 0]
<1>1. /\ conns[c] = Unsent /\ conns' = [conns EXCEPT ![c] = next]
      /\ UNCHANGED <<active, dirs, filled, made, leaked, crashes>>
  BY DEF handleRequest
<1>2. EarlyStatus(shape) \in Nat /\ (EarlyStatus(shape) = 0 => shape.local)
  BY DEF EarlyStatus
<1>3. /\ step \in ConnSteps /\ step # "waiting" /\ (step = "body" => shape.local)
  BY <1>2 DEF ConnSteps
<1> HIDE DEF step
<1>4. shape.chunks \in Seq(Nat) /\ 0 \in 0..BODY_LIMIT
  BY ApiConstants
<1>5. next \in Conn
  BY <1>2, <1>3, <1>4 DEF Conn
<1>6. next.step = step /\ next.shape = shape
  OBVIOUS
<1> HIDE DEF next
<1>7. ConnsOK' /\ conns'[c] = next /\ \A d \in Connections \ {c} : conns'[d] = conns[d]
  BY <1>1, <1>5 DEF ApiInv, ConnsOK
<1>8. Admitted'
  BY <1>3, <1>6, <1>7 DEF ApiInv, Admitted
<1>9. conns[c].step # "waiting"
  BY <1>1 DEF Unsent
<1>10. AskedByWhoWaits'
  BY <1>1, <1>7, <1>9 DEF ApiInv, AskedByWhoWaits
<1> QED
  BY <1>1, <1>7, <1>8, <1>10 DEF ApiInv, ActiveOK, DirsAccounted

LEMMA WithinLimit ==
  ASSUME NEW kept \in 0..BODY_LIMIT, NEW chunk \in Nat, ~(kept + chunk > BODY_LIMIT)
  PROVE  kept + chunk \in 0..BODY_LIMIT
BY ApiConstants

\* A chunk is kept only if what is kept stays within the limit.
LEMMA ReadChunkKeepsInv ==
  ASSUME ApiInv, NEW c \in Connections, ReadChunk(c)
  PROVE  ApiInv'
<1>1. /\ conns[c].step = "body" /\ conns[c].chunks # <<>>
      /\ UNCHANGED <<active, dirs, filled, made, leaked, crashes>>
  BY DEF ReadChunk, At
<1>2. conns[c] \in Conn /\ conns[c].chunks \in Seq(Nat) /\ conns[c].buffered \in 0..BODY_LIMIT
  BY <1>1, ConnFields DEF ApiInv
<1>3. CASE TooLarge(c)
  <2>1. sendJson(c, 413)
    BY <1>3 DEF ReadChunk
  <2> QED
    BY <1>1, <2>1, SendJsonKeeps DEF ApiInv, DirsAccounted
<1>4. CASE ~TooLarge(c)
  <2> DEFINE h == Head(conns[c].chunks)
             rest == Tail(conns[c].chunks)
             sum == conns[c].buffered + h
             next == [shape |-> conns[c].shape, step |-> conns[c].step,
                      status |-> conns[c].status, chunks |-> rest, buffered |-> sum]
  <2>1. h \in Nat /\ rest \in Seq(Nat)
    BY <1>1, <1>2, HeadTailProperties
  <2>2. sum \in 0..BODY_LIMIT
    <3>1. ~(conns[c].buffered + h > BODY_LIMIT)
      BY <1>4 DEF TooLarge
    <3> HIDE DEF h
    <3> QED
      BY ONLY <1>2, <2>1, <3>1, WithinLimit DEF sum
  <2>3. conns' = [conns EXCEPT ![c].chunks = rest, ![c].buffered = sum]
    BY <1>4 DEF ReadChunk
  <2> HIDE DEF sum, rest
  <2>4. conns' = [conns EXCEPT ![c] = next]
    <3>1. conns[c] = [shape |-> conns[c].shape, step |-> conns[c].step,
                      status |-> conns[c].status, chunks |-> conns[c].chunks,
                      buffered |-> conns[c].buffered]
      BY <1>2 DEF Conn
    <3>2. [conns[c] EXCEPT !.chunks = rest]
            = [shape |-> conns[c].shape, step |-> conns[c].step, status |-> conns[c].status,
               chunks |-> rest, buffered |-> conns[c].buffered]
      BY <3>1
    <3>3. [[shape |-> conns[c].shape, step |-> conns[c].step, status |-> conns[c].status,
            chunks |-> rest, buffered |-> conns[c].buffered] EXCEPT !.buffered = sum] = next
      OBVIOUS
    <3>4. conns' = [conns EXCEPT ![c] = [[conns[c] EXCEPT !.chunks = rest] EXCEPT !.buffered = sum]]
      BY <2>3 DEF ApiInv, ConnsOK
    <3> QED
      BY <3>2, <3>3, <3>4
  <2>5. next \in Conn /\ next.step = "body" /\ next.shape = conns[c].shape
    BY <1>1, <1>2, <2>1, <2>2 DEF Conn, ConnSteps, rest
  <2> HIDE DEF next
  <2>6. ConnsOK' /\ conns'[c] = next /\ \A d \in Connections \ {c} : conns'[d] = conns[d]
    BY <2>4, <2>5 DEF ApiInv, ConnsOK
  <2>7. Admitted' /\ AskedByWhoWaits'
    BY <1>1, <2>5, <2>6 DEF ApiInv, Admitted, AskedByWhoWaits
  <2> QED
    BY <1>1, <2>6, <2>7 DEF ApiInv, ActiveOK, DirsAccounted
<1> QED
  BY <1>3, <1>4

\* The whole body is there: the request is refused, joins, or starts a creation.
LEMMA EndBodyKeepsInv ==
  ASSUME ApiInv, NEW c \in Connections, EndBody(c)
  PROVE  ApiInv'
<1> DEFINE key == conns[c].shape.key
           otherKey == active # Idle /\ active.key # key
           fresh == [step |-> "mkdtemp", key |-> key, dir |-> 0, ok |-> FALSE]
<1>1. /\ conns[c].step = "body" /\ conns[c].chunks = <<>>
      /\ UNCHANGED <<dirs, filled, made, leaked, crashes>>
  BY DEF EndBody, At
<1>2. conns[c] \in Conn /\ conns[c].shape \in Shapes
  BY <1>1, ConnFields DEF ApiInv
<1>3. \/ sendJson(c, 400) /\ UNCHANGED active
      \/ sendJson(c, 409) /\ UNCHANGED active
      \/ /\ ~otherKey /\ conns' = [conns EXCEPT ![c].step = "waiting"]
         /\ active' = IF active # Idle THEN active ELSE fresh
  BY DEF EndBody
<1>4. CASE (sendJson(c, 400) \/ sendJson(c, 409)) /\ UNCHANGED active
  BY <1>1, <1>4, SendJsonKeeps DEF ApiInv, DirsAccounted
<1>5. CASE /\ ~otherKey /\ conns' = [conns EXCEPT ![c].step = "waiting"]
           /\ active' = IF active # Idle THEN active ELSE fresh
  <2> DEFINE next == [conns[c] EXCEPT !.step = "waiting"]
  <2>1. /\ next \in Conn /\ next.step = "waiting" /\ next.shape = conns[c].shape
        /\ next.chunks = conns[c].chunks
    BY <1>2 DEF Conn, ConnSteps
  <2>2. conns' = [conns EXCEPT ![c] = next]
    BY <1>5
  <2> HIDE DEF next
  <2>3. ConnsOK' /\ conns'[c] = next /\ \A d \in Connections \ {c} : conns'[d] = conns[d]
    BY <2>1, <2>2 DEF ApiInv, ConnsOK
  <2>4. Admitted'
    BY <1>1, <2>1, <2>3 DEF ApiInv, Admitted
  <2>5. fresh \in Creation /\ fresh.key = key /\ fresh.step = "mkdtemp"
    BY <1>2 DEF Creation, ExportSteps, Keys
  <2> HIDE DEF fresh
  <2>6. ActiveOK' /\ active'.key = key
    BY <1>5, <2>5 DEF ApiInv, ActiveOK
  <2>7. AskedByWhoWaits'
    BY <2>1, <2>3, <2>6 DEF AskedByWhoWaits
  <2>8. DirsAccounted'
    <3>1. CASE active # Idle
      BY <1>1, <1>5, <3>1 DEF ApiInv, DirsAccounted
    <3>2. CASE active = Idle
      <4>1. active'.step = "mkdtemp" /\ active.step = "idle"
        BY <1>5, <2>5, <3>2 DEF Idle
      <4> QED
        BY <1>1, <4>1 DEF ApiInv, DirsAccounted
    <3> QED
      BY <3>1, <3>2
  <2> QED
    BY <1>1, <2>3, <2>4, <2>6, <2>7, <2>8 DEF ApiInv
<1> QED
  BY <1>3, <1>4, <1>5

\* The export goes on for the same key.
LEMMA ExportGoesOn ==
  ASSUME ApiInv, active # Idle, UNCHANGED conns, active' \in Creation, active'.key = active.key
  PROVE  ConnsOK' /\ ActiveOK' /\ Admitted' /\ AskedByWhoWaits'
BY DEF ApiInv, ConnsOK, ActiveOK, Admitted, AskedByWhoWaits

LEMMA GotoIs ==
  ASSUME active \in Creation, NEW step \in ExportSteps, Goto(step)
  PROVE  /\ active' \in Creation /\ active'.key = active.key
         /\ active'.step = step /\ active'.dir = active.dir
BY DEF Goto, Creation

\* Setting the outcome of an export leaves the rest of it alone.
LEMMA OutcomeSet ==
  ASSUME NEW s, NEW k, NEW d, NEW old, NEW new
  PROVE  [[step |-> s, key |-> k, dir |-> d, ok |-> old] EXCEPT !.ok = new]
           = [step |-> s, key |-> k, dir |-> d, ok |-> new]
  OBVIOUS

\* The steps of the export, each with what it knows of its directory.
LEMMA ExportKeepsInv ==
  ASSUME ApiInv, exportAccountState
  PROVE  ApiInv'
<1>1. active.step \in {"mkdtemp", "chmod", "config", "child", "read", "remove"}
  BY DEF exportAccountState, MakeTempDir, Chmod, WriteConfig, ChildCloses, ReadOutput, RemoveDir,
         Exporting
<1>2. active # Idle
  BY <1>1 DEF Idle
<1>3. active \in Creation
  BY <1>2 DEF ApiInv, ActiveOK
<1>4. made' \in Nat
  BY DEF ApiInv, exportAccountState, MakeTempDir, Chmod, WriteConfig, ChildCloses, ReadOutput,
         RemoveDir
<1>5. ASSUME Settle(500), filled' \subseteq dirs', filled' \subseteq leaked'
      PROVE  ApiInv'
  <2>1. ConnsOK' /\ ActiveOK' /\ Admitted' /\ AskedByWhoWaits' /\ active' = Idle
    BY <1>5, SettleKeeps
  <2>2. DirsAccounted'
    BY <1>5, <2>1 DEF DirsAccounted, Idle
  <2> QED
    BY <1>4, <2>1, <2>2 DEF ApiInv
<1>6. ASSUME NEW step \in {"config", "child", "read", "remove"}, Goto(step),
             UNCHANGED <<conns, dirs, leaked>>, active.step # "mkdtemp",
             filled' \in {filled, filled \cup {active.dir}}
      PROVE  ApiInv'
  <2>1. step \in ExportSteps
    BY DEF ExportSteps
  <2>2. ConnsOK' /\ ActiveOK' /\ Admitted' /\ AskedByWhoWaits' /\ active'.step = step
        /\ active'.dir = active.dir
    BY <1>2, <1>3, <1>6, <2>1, GotoIs, ExportGoesOn
  <2>3. DirsAccounted'
    BY <1>1, <1>6, <2>2 DEF ApiInv, DirsAccounted
  <2> QED
    BY <1>4, <2>2, <2>3 DEF ApiInv
<1>7. CASE MakeTempDir
  <2>1. active.step = "mkdtemp" /\ UNCHANGED <<filled, leaked>>
    BY <1>7 DEF MakeTempDir, Exporting
  <2>2. filled \subseteq leaked /\ filled \subseteq dirs
    BY <2>1 DEF ApiInv, DirsAccounted
  <2>3. CASE Settle(500) /\ UNCHANGED <<made, dirs>>
    BY <1>5, <2>1, <2>2, <2>3
  <2>4. CASE ~(Settle(500) /\ UNCHANGED <<made, dirs>>)
    <3>1. /\ dirs' = dirs \cup {made + 1} /\ UNCHANGED conns
          /\ active' = [active EXCEPT !.step = "chmod", !.dir = made + 1]
      BY <1>7, <2>4 DEF MakeTempDir
    <3>2. active' = [step |-> "chmod", key |-> active.key, dir |-> made + 1, ok |-> active.ok]
      <4>1. active = [step |-> active.step, key |-> active.key, dir |-> active.dir, ok |-> active.ok]
        BY <1>3 DEF Creation
      <4>2. [active EXCEPT !.step = "chmod"]
              = [step |-> "chmod", key |-> active.key, dir |-> active.dir, ok |-> active.ok]
        BY <4>1
      <4>3. [[step |-> "chmod", key |-> active.key, dir |-> active.dir, ok |-> active.ok]
               EXCEPT !.dir = made + 1]
              = [step |-> "chmod", key |-> active.key, dir |-> made + 1, ok |-> active.ok]
        OBVIOUS
      <4> QED
        BY <3>1, <4>2, <4>3
    <3>3. made + 1 \in Nat /\ active.key \in Keys /\ active.ok \in BOOLEAN
      BY <1>3 DEF ApiInv, Creation
    <3>4. active' \in Creation
      BY <3>2, <3>3 DEF Creation, ExportSteps
    <3>5. active'.key = active.key /\ active'.step = "chmod" /\ active'.dir = made + 1
      BY <3>2
    <3>6. ConnsOK' /\ ActiveOK' /\ Admitted' /\ AskedByWhoWaits'
      BY <1>2, <3>1, <3>4, <3>5, ExportGoesOn
    <3>7. DirsAccounted'
      BY <2>1, <2>2, <3>1, <3>5 DEF DirsAccounted
    <3> QED
      BY <1>4, <3>6, <3>7 DEF ApiInv
  <2> QED
    BY <2>3, <2>4
<1>8. CASE Chmod
  <2>1. active.step = "chmod" /\ UNCHANGED <<dirs, filled, leaked>>
    BY <1>8 DEF Chmod, Exporting
  <2>2. filled \subseteq leaked /\ filled \subseteq dirs
    BY <2>1 DEF ApiInv, DirsAccounted
  <2> QED
    BY <1>5, <1>6, <1>8, <2>1, <2>2 DEF Chmod
<1>9. CASE WriteConfig
  BY <1>6, <1>9 DEF WriteConfig, Failing, Exporting
<1>10. CASE ChildCloses
  BY <1>6, <1>10 DEF ChildCloses, Failing, Exporting
<1>11. CASE ReadOutput
  <2>1. active.step = "read" /\ UNCHANGED <<dirs, filled, leaked>>
    BY <1>11 DEF ReadOutput, Exporting
  <2>2. CASE Failing
    BY <1>6, <2>1, <2>2 DEF Failing
  <2>3. CASE ~Failing
    <3>0. active' = [active EXCEPT !.step = "remove", !.ok = TRUE] /\ UNCHANGED conns
      BY <1>11, <2>3 DEF ReadOutput
    <3>1. PICK done \in BOOLEAN :
            active' = [active EXCEPT !.step = "remove", !.ok = done] /\ UNCHANGED conns
      BY <3>0, Zenon
    <3>2. active' = [step |-> "remove", key |-> active.key, dir |-> active.dir, ok |-> done]
      <4>1. active = [step |-> active.step, key |-> active.key, dir |-> active.dir, ok |-> active.ok]
        BY <1>3 DEF Creation
      <4>2. [active EXCEPT !.step = "remove"]
              = [step |-> "remove", key |-> active.key, dir |-> active.dir, ok |-> active.ok]
        BY <4>1
      <4>3. [[step |-> "remove", key |-> active.key, dir |-> active.dir, ok |-> active.ok]
               EXCEPT !.ok = done]
              = [step |-> "remove", key |-> active.key, dir |-> active.dir, ok |-> done]
        BY OutcomeSet
      <4> QED
        BY <3>1, <4>2, <4>3
    <3>3. active.dir \in Nat /\ active.key \in Keys
      BY <1>3 DEF Creation
    <3>4. active' \in Creation
      BY <3>2, <3>3 DEF Creation, ExportSteps
    <3>5. active'.key = active.key /\ active'.step = "remove" /\ active'.dir = active.dir
      BY <3>2
    <3>6. ConnsOK' /\ ActiveOK' /\ Admitted' /\ AskedByWhoWaits'
      BY <1>2, <3>1, <3>4, <3>5, ExportGoesOn
    <3>7. DirsAccounted'
      BY <2>1, <3>5 DEF ApiInv, DirsAccounted
    <3> QED
      BY <1>4, <3>6, <3>7 DEF ApiInv
  <2> QED
    BY <2>2, <2>3
<1>12. CASE RemoveDir
  <2>1. active.step = "remove"
    BY <1>12 DEF RemoveDir, Exporting
  <2>2. filled \subseteq leaked \cup {active.dir} /\ filled \subseteq dirs
    BY <2>1 DEF ApiInv, DirsAccounted
  <2>3. CASE Settle(500)
    <3>1. filled' \subseteq leaked' /\ filled' \subseteq dirs'
      BY <1>12, <2>2 DEF RemoveDir
    <3> QED
      BY <1>5, <2>3, <3>1
  <2>4. CASE ~Settle(500)
    <3>1. /\ dirs' = dirs \ {active.dir} /\ filled' = filled \ {active.dir}
          /\ leaked' = leaked /\ Goto("create") /\ UNCHANGED conns
      BY <1>12, <2>4 DEF RemoveDir
    <3>2. "create" \in ExportSteps
      BY DEF ExportSteps
    <3>3. ConnsOK' /\ ActiveOK' /\ Admitted' /\ AskedByWhoWaits' /\ active'.step = "create"
      BY <1>2, <1>3, <3>1, <3>2, GotoIs, ExportGoesOn
    <3>4. DirsAccounted'
      BY <2>2, <3>1, <3>3 DEF DirsAccounted
    <3> QED
      BY <1>4, <3>3, <3>4 DEF ApiInv
  <2> QED
    BY <2>3, <2>4
<1> QED
  BY <1>7, <1>8, <1>9, <1>10, <1>11, <1>12 DEF exportAccountState

\* The server dies: nobody waits any more and the directory is left behind.
LEMMA CrashKeepsInv ==
  ASSUME ApiInv, Crash
  PROVE  ApiInv'
<1>1. /\ active' = Idle /\ UNCHANGED <<dirs, filled, made>>
      /\ leaked' = leaked \cup (IF active = Idle THEN {} ELSE dirs \cap {active.dir})
      /\ conns' = [c \in Connections |->
                     IF conns[c].step = "unsent" \/ conns[c].step = "answered" THEN conns[c]
                     ELSE [conns[c] EXCEPT !.step = "cut"]]
  BY DEF Crash, At
<1>2. ASSUME NEW c \in Connections, conns[c].step # "unsent", conns[c].step # "answered"
      PROVE  conns'[c] \in Conn /\ conns'[c].step = "cut"
  <2>1. conns[c] \in Conn
    BY <1>2, ConnFields DEF ApiInv
  <2>2. conns'[c] = [conns[c] EXCEPT !.step = "cut"]
    BY <1>1, <1>2
  <2> QED
    BY <2>1, <2>2 DEF Conn, ConnSteps
<1>3. \A c \in Connections :
        conns[c].step = "unsent" \/ conns[c].step = "answered" => conns'[c] = conns[c]
  BY <1>1
<1>4. ConnsOK'
  <2>1. \A c \in Connections : conns'[c] \in Conn \cup {Unsent}
    BY <1>2, <1>3 DEF ApiInv, ConnsOK
  <2> QED
    BY <1>1, <2>1 DEF ConnsOK
<1>5. Admitted'
  BY <1>2, <1>3 DEF Admitted
<1>6. DirsAccounted'
  <2>1. filled \subseteq leaked'
    BY <1>1 DEF ApiInv, DirsAccounted, Idle
  <2> QED
    BY <1>1, <2>1 DEF ApiInv, DirsAccounted, Idle
<1> QED
  BY <1>1, <1>4, <1>5, <1>6 DEF ApiInv, ActiveOK, AskedByWhoWaits

LEMMA InitApiInv == Init => ApiInv
<1> SUFFICES ASSUME Init PROVE ApiInv
  OBVIOUS
<1>1. ConnsOK /\ \A c \in Connections : conns[c].step = "unsent"
  BY DEF Init, ConnsOK, Unsent
<1> QED
  BY <1>1 DEF Init, ApiInv, ActiveOK, Admitted, AskedByWhoWaits, DirsAccounted, Idle

LEMMA NextApiInv ==
  ASSUME ApiInv, [Next]_vars
  PROVE  ApiInv'
<1>1. ASSUME NEW c \in Connections, AnswerGet(c) \/ Disconnect(c)
      PROVE  ApiInv'
  <2>1. PICK status \in {200, 400, 409, 500} : sendJson(c, status)
    BY <1>1 DEF AnswerGet, Disconnect
  <2>2. /\ conns[c].step \in {"body", "service"} /\ UNCHANGED <<active, dirs, filled, made, leaked>>
    BY <1>1 DEF AnswerGet, Disconnect, At
  <2> QED
    BY <2>1, <2>2, SendJsonKeeps DEF ApiInv, DirsAccounted
<1>2. CASE Create
  <2>1. PICK status \in {200, 409, 500, 504} : Settle(status)
    BY <1>2 DEF Create
  <2>2. active.step = "create" /\ UNCHANGED <<dirs, filled, made, leaked>>
    BY <1>2 DEF Create, Exporting
  <2>3. filled \subseteq leaked /\ filled \subseteq dirs
    BY <2>2 DEF ApiInv, DirsAccounted
  <2>4. ConnsOK' /\ ActiveOK' /\ Admitted' /\ AskedByWhoWaits' /\ active' = Idle
    BY <2>1, SettleKeeps
  <2> QED
    BY <2>2, <2>3, <2>4 DEF ApiInv, DirsAccounted, Idle
<1>3. CASE UNCHANGED vars
  BY <1>3 DEF vars, ApiInv, ConnsOK, ActiveOK, Admitted, AskedByWhoWaits, DirsAccounted
<1> QED
  BY <1>1, <1>2, <1>3, HandleKeepsInv, ReadChunkKeepsInv, EndBodyKeepsInv, ExportKeepsInv,
     CrashKeepsInv DEF Next, Arrives

\* The invariant holds throughout.
THEOREM ApiInvariant == Spec => []ApiInv
<1>1. Init => ApiInv
  BY InitApiInv
<1>2. ApiInv /\ [Next]_vars => ApiInv'
  BY NextApiInv
<1> QED
  BY <1>1, <1>2, PTL DEF Spec

\* readBody never keeps more than BODY_LIMIT bytes, whatever length was declared and
\* however the body is cut into chunks.
THEOREM BodiesBounded == Spec => []BufferBounded
<1>1. ASSUME ApiInv PROVE BufferBounded
  <2>1. ASSUME NEW c \in Connections, conns[c].step # "unsent"
        PROVE  conns[c].buffered <= BODY_LIMIT
    <3>1. conns[c].buffered \in 0..BODY_LIMIT
      BY <1>1, <2>1, ConnFields DEF ApiInv
    <3> QED
      BY <3>1, ApiConstants
  <2> QED
    BY <2>1 DEF BufferBounded, At
<1> QED
  BY <1>1, ApiInvariant, PTL

\* Whichever call of exportAccountState fails, what it has written stays only where the
\* removal itself failed or a crash prevented it.
THEOREM TempDirsAreAccounted == Spec => []TempDirsAccounted
<1>1. ApiInv => TempDirsAccounted
  <2> SUFFICES ASSUME ApiInv PROVE TempDirsAccounted
    OBVIOUS
  <2>1. CASE active = Idle
    BY <2>1 DEF ApiInv, DirsAccounted, TempDirsAccounted, Idle
  <2>2. CASE active # Idle
    BY <2>2 DEF ApiInv, DirsAccounted, TempDirsAccounted
  <2> QED
    BY <2>1, <2>2
<1> QED
  BY <1>1, ApiInvariant, PTL


-----------------------------------------------------------------------------
(***************************************************************************)
(* What has been kept of a body is the sum of the chunks read, and in the  *)
(* end the body's size.                                                    *)
(***************************************************************************)
LEMMA LeastNumber ==
  ASSUME NEW T, T \subseteq Nat, T # {}
  PROVE  \E n \in T : \A m \in T : n <= m
<1>1. PICK n \in T : \A m \in T : ~(<<m, n>> \in OpToRel(<, Nat))
  BY NatLessThanWellFounded, WFMin
<1>2. \A m \in T : ~(m < n)
  BY <1>1 DEF OpToRel
<1> QED
  BY <1>2

LEMMA MaxIs ==
  ASSUME NEW n \in Nat, NEW s, s \subseteq 1..n, s # {}
  PROVE  Max(s) \in s /\ \A y \in s : Max(s) >= y
<1> DEFINE T == {m \in Nat : \E x \in s : m = n - x}
<1>1. T \subseteq Nat /\ T # {}
  <2>1. PICK x \in s : TRUE
    OBVIOUS
  <2>2. n - x \in Nat
    BY <2>1
  <2> QED
    BY <2>2
<1>2. PICK m \in T : \A k \in T : m <= k
  <2> HIDE DEF T
  <2> QED
    BY <1>1, LeastNumber
<1>3. PICK x \in s : m = n - x
  OBVIOUS
<1>4. \A y \in s : x >= y
  <2> SUFFICES ASSUME NEW y \in s PROVE x >= y
    OBVIOUS
  <2>1. x \in 1..n /\ y \in 1..n /\ n - y \in T
    OBVIOUS
  <2>2. m <= n - y
    BY <1>2, <2>1
  <2> QED
    BY <1>3, <2>1, <2>2
<1> QED
  BY <1>4 DEF Max

\* The chunks at the positions in a set, added up from the first to the last.
SumsOn(g, F, w) ==
  g = [s \in F |-> IF s = {} THEN 0 ELSE g[s \ {Max(s)}] + w[Max(s)]]

LEMMA FoldUnfold ==
  ASSUME NEW shape, \E g : SumsOn(g, SUBSET DOMAIN shape.chunks, shape.chunks)
  PROVE  \E g : /\ SumsOn(g, SUBSET DOMAIN shape.chunks, shape.chunks)
                /\ BodySize(shape) = g[DOMAIN shape.chunks]
BY DEF SumsOn, BodySize, FoldLeft, MapThenFoldSet

\* These sums exist: for one size of set after the other.
LEMMA SumsExist ==
  ASSUME NEW N \in Nat, NEW w
  PROVE  \E g : SumsOn(g, SUBSET (1..N), w)
<1> DEFINE S == 1..N
           Small(n) == {s \in SUBSET S : Cardinality(s) <= n}
           Missing == {n \in Nat : ~\E g : SumsOn(g, Small(n), w)}
<1>0. IsFiniteSet(S)
  BY FS_Interval
<1>1. \A s \in SUBSET S : IsFiniteSet(s) /\ Cardinality(s) \in Nat /\ Cardinality(s) <= Cardinality(S)
  BY <1>0, FS_Subset, FS_CardinalityType
<1>m. \A s \in SUBSET S : s # {} => Max(s) \in s
  BY MaxIs
<1> HIDE DEF S
<1>2. Missing = {}
  <2>1. SUFFICES ASSUME Missing # {} PROVE FALSE
    OBVIOUS
  <2>2. PICK n \in Missing : \A m \in Missing : n <= m
    BY <2>1, LeastNumber
  <2>3. n \in Nat /\ ~\E g : SumsOn(g, Small(n), w)
    OBVIOUS
  <2>4. CASE n = 0
    <3>1. \A s \in Small(0) : s = {}
      BY <1>1, FS_EmptySet
    <3>2. SumsOn([s \in Small(0) |-> 0], Small(0), w)
      BY <3>1 DEF SumsOn
    <3> QED
      BY <2>3, <2>4, <3>2
  <2>5. CASE n # 0
    <3>1. n - 1 \in Nat /\ ~(n <= n - 1)
      BY <2>3, <2>5
    <3>2. n - 1 \notin Missing
      BY <2>2, <3>1
    <3>3. PICK g : SumsOn(g, Small(n - 1), w)
      BY <3>1, <3>2
    <3>4. PICK h : h = [s \in Small(n) |-> IF s = {} THEN 0 ELSE g[s \ {Max(s)}] + w[Max(s)]]
      OBVIOUS
    <3>5. \A s \in Small(n - 1) : s \in Small(n)
      BY <1>1, <2>3
    <3>6. \A s \in Small(n - 1) : h[s] = g[s]
      BY <3>3, <3>4, <3>5 DEF SumsOn
    <3>7. ASSUME NEW s \in Small(n), s # {}, NEW x \in s PROVE s \ {x} \in Small(n - 1)
      <4>1. Cardinality(s \ {x}) = Cardinality(s) - 1
        BY <1>1, <3>7, FS_RemoveElement
      <4> QED
        BY <1>1, <2>3, <4>1
    <3>8. \A s \in Small(n) : s # {} => Max(s) \in s
      BY <1>m
    <3> HIDE DEF Small
    <3>9. ASSUME NEW s \in Small(n), s # {} PROVE h[s \ {Max(s)}] = g[s \ {Max(s)}]
      BY <3>6, <3>7, <3>8, <3>9
    <3>10. SumsOn(h, Small(n), w)
      BY <3>4, <3>9 DEF SumsOn
    <3> QED
      BY <2>3, <3>10
  <2> QED
    BY <2>4, <2>5
<1>3. Cardinality(S) \in Nat
  BY <1>0, FS_CardinalityType
<1>4. PICK g : SumsOn(g, Small(Cardinality(S)), w)
  BY <1>2, <1>3
<1>5. Small(Cardinality(S)) = SUBSET S
  BY <1>1
<1> QED
  BY <1>4, <1>5 DEF S

\* The sum of each prefix.
PrefixSums(p, w) == p[0] = 0 /\ \A k \in 1..Len(w) : p[k] = p[k - 1] + w[k]

\* The size of a body is the last of its prefix sums.
LEMMA BodySizeIs ==
  ASSUME NEW shape, shape.chunks \in Seq(Nat)
  PROVE  \E p : PrefixSums(p, shape.chunks) /\ BodySize(shape) = p[Len(shape.chunks)]
<1> DEFINE w == shape.chunks
<1>1. Len(w) \in Nat /\ DOMAIN w = 1..Len(w)
  OBVIOUS
<1>2. PICK g : SumsOn(g, SUBSET (1..Len(w)), w) /\ BodySize(shape) = g[1..Len(w)]
  BY <1>1, SumsExist, FoldUnfold
<1> HIDE DEF w
<1>3. PICK p : p = [k \in 0..Len(w) |-> g[1..k]]
  OBVIOUS
<1>4. p[0] = 0
  <2>1. 1..0 = {} /\ 0 \in 0..Len(w) /\ {} \in SUBSET (1..Len(w))
    BY <1>1
  <2> QED
    BY <1>2, <1>3, <2>1 DEF SumsOn
<1>5. ASSUME NEW k \in 1..Len(w) PROVE p[k] = p[k - 1] + w[k]
  <2>1. /\ 1..k \in SUBSET (1..Len(w)) /\ 1..k # {} /\ k \in 1..k
        /\ k \in 0..Len(w) /\ k - 1 \in 0..Len(w)
    <3>1. k \in Nat /\ 1 <= k /\ k <= Len(w)
      BY <1>1
    <3>2. k \in 1..k /\ k \in 0..Len(w) /\ k - 1 \in 0..Len(w)
      BY <1>1, <3>1
    <3>3. \A x \in 1..k : x \in 1..Len(w)
      BY <1>1, <3>1
    <3> QED
      BY <3>2, <3>3
  <2>2. Max(1..k) = k
    <3>1. Max(1..k) \in 1..k /\ Max(1..k) >= k
      BY <1>1, <2>1, MaxIs
    <3>2. PICK m : m = Max(1..k)
      OBVIOUS
    <3> QED
      BY <1>1, <3>1, <3>2
  <2>3. (1..k) \ {k} = 1..(k - 1)
    BY <1>1
  <2>4. g[1..k] = g[(1..k) \ {Max(1..k)}] + w[Max(1..k)]
    BY <1>2, <2>1 DEF SumsOn
  <2>5. g[1..k] = g[1..(k - 1)] + w[k]
    BY <2>2, <2>3, <2>4
  <2>6. p[k] = g[1..k] /\ p[k - 1] = g[1..(k - 1)]
    BY <1>3, <2>1
  <2> QED
    BY <2>5, <2>6
<1>6. p[Len(w)] = g[1..Len(w)]
  BY <1>1, <1>3
<1> QED
  BY <1>2, <1>4, <1>5, <1>6 DEF PrefixSums, w


\* Of the chunks w of a body, rest are to come and so many bytes have been kept.
ReadSoFar(w, rest, kept) ==
  \A p : PrefixSums(p, w) =>
    \E k \in 0..Len(w) : /\ Len(rest) = Len(w) - k /\ kept = p[k]
                         /\ \A j \in 1..Len(rest) : rest[j] = w[k + j]

BodiesAdd ==
  \A c \in Connections :
    conns[c].step \in {"body", "waiting"} =>
      ReadSoFar(conns[c].shape.chunks, conns[c].chunks, conns[c].buffered)

LEMMA NothingRead ==
  ASSUME NEW w \in Seq(Nat)
  PROVE  ReadSoFar(w, w, 0)
<1> SUFFICES ASSUME NEW p, PrefixSums(p, w)
             PROVE  \E k \in 0..Len(w) : /\ Len(w) = Len(w) - k /\ 0 = p[k]
                                         /\ \A j \in 1..Len(w) : w[j] = w[k + j]
  BY DEF ReadSoFar
<1>1. Len(w) \in Nat /\ 0 \in 0..Len(w) /\ Len(w) = Len(w) - 0
  OBVIOUS
<1>2. p[0] = 0 /\ \A j \in 1..Len(w) : w[j] = w[0 + j]
  BY <1>1 DEF PrefixSums
<1> QED
  BY <1>1, <1>2

LEMMA ChunkRead ==
  ASSUME NEW w \in Seq(Nat), NEW rest \in Seq(Nat), rest # <<>>, NEW kept \in Nat,
         ReadSoFar(w, rest, kept)
  PROVE  ReadSoFar(w, Tail(rest), kept + Head(rest))
<1> SUFFICES ASSUME NEW p, PrefixSums(p, w)
             PROVE  \E k \in 0..Len(w) :
                      /\ Len(Tail(rest)) = Len(w) - k /\ kept + Head(rest) = p[k]
                      /\ \A j \in 1..Len(Tail(rest)) : Tail(rest)[j] = w[k + j]
  BY DEF ReadSoFar
<1>1. PICK k \in 0..Len(w) : /\ Len(rest) = Len(w) - k /\ kept = p[k]
                             /\ \A j \in 1..Len(rest) : rest[j] = w[k + j]
  BY DEF ReadSoFar
<1>2. /\ Len(w) \in Nat /\ Len(rest) \in Nat /\ Len(rest) >= 1 /\ Head(rest) = rest[1]
      /\ Len(Tail(rest)) = Len(rest) - 1
      /\ \A j \in 1..(Len(rest) - 1) : Tail(rest)[j] = rest[j + 1]
  OBVIOUS
<1>3. k \in Nat /\ k + 1 \in 1..Len(w) /\ k + 1 \in 0..Len(w) /\ (k + 1) - 1 = k
  BY <1>1, <1>2
<1>4. p[k + 1] = p[k] + w[k + 1]
  BY <1>3 DEF PrefixSums
<1>5. Head(rest) = w[k + 1]
  BY <1>1, <1>2
<1>6. ASSUME NEW j \in 1..Len(Tail(rest)) PROVE Tail(rest)[j] = w[(k + 1) + j]
  <2>1. j \in 1..(Len(rest) - 1) /\ j + 1 \in 1..Len(rest) /\ k + (j + 1) = (k + 1) + j
    BY <1>2, <1>3
  <2>2. Tail(rest)[j] = rest[j + 1] /\ rest[j + 1] = w[k + (j + 1)]
    BY <1>1, <1>2, <2>1
  <2> QED
    BY <2>1, <2>2
<1>7. Len(Tail(rest)) = Len(w) - (k + 1)
  BY <1>1, <1>2, <1>3
<1> QED
  BY <1>1, <1>3, <1>4, <1>5, <1>6, <1>7

\* How a connection gets to the body or to waiting, or stays there.
ConnKept(c) ==
  /\ conns[c].step \in {"body", "waiting"}
  /\ conns'[c].shape = conns[c].shape /\ conns'[c].chunks = conns[c].chunks
  /\ conns'[c].buffered = conns[c].buffered

LEMMA AnsweredNotKept ==
  ASSUME ApiInv, NEW c \in Connections, conns[c].step \in {"body", "service"},
         NEW status \in Nat, sendJson(c, status)
  PROVE  \A d \in Connections : conns'[d].step \in {"body", "waiting"} => ConnKept(d)
<1>1. conns[c] \in Conn
  BY ConnFields DEF ApiInv
<1>2. conns' = [conns EXCEPT ![c] = [conns[c] EXCEPT !.step = "answered", !.status = status]]
  BY DEF sendJson
<1>3. PICK next : next = [conns[c] EXCEPT !.step = "answered", !.status = status]
  OBVIOUS
<1>4. conns'[c] = next /\ \A d \in Connections \ {c} : conns'[d] = conns[d]
  BY <1>2, <1>3 DEF ApiInv, ConnsOK
<1>5. next = [shape |-> conns[c].shape, step |-> "answered", status |-> status,
              chunks |-> conns[c].chunks, buffered |-> conns[c].buffered]
  BY <1>1, <1>3, AnsweredConn
<1>6. next.step = "answered"
  BY <1>5
<1> QED
  BY <1>4, <1>6 DEF ConnKept

LEMMA SettledNotKept ==
  ASSUME ApiInv, NEW status \in Nat, Settle(status)
  PROVE  \A d \in Connections : conns'[d].step \in {"body", "waiting"} => ConnKept(d)
<1> SUFFICES ASSUME NEW d \in Connections, conns'[d].step \in {"body", "waiting"}
             PROVE  ConnKept(d)
  OBVIOUS
<1>1. conns'[d] = IF conns[d].step = "waiting"
                    THEN [conns[d] EXCEPT !.step = "answered", !.status = status]
                    ELSE conns[d]
  BY DEF Settle, At
<1>2. CASE conns[d].step = "waiting"
  <2>1. conns[d] \in Conn
    BY <1>2, ConnFields DEF ApiInv
  <2>2. conns'[d] = [shape |-> conns[d].shape, step |-> "answered", status |-> status,
                     chunks |-> conns[d].chunks, buffered |-> conns[d].buffered]
    BY <1>1, <1>2, <2>1, AnsweredConn
  <2> QED
    BY <2>2
<1>3. CASE conns[d].step # "waiting"
  BY <1>1, <1>3 DEF ConnKept
<1> QED
  BY <1>2, <1>3

LEMMA CutNotKept ==
  ASSUME ApiInv, Crash
  PROVE  \A d \in Connections : conns'[d].step \in {"body", "waiting"} => ConnKept(d)
<1> SUFFICES ASSUME NEW d \in Connections, conns'[d].step \in {"body", "waiting"}
             PROVE  ConnKept(d)
  OBVIOUS
<1>1. conns'[d] = IF conns[d].step = "unsent" \/ conns[d].step = "answered" THEN conns[d]
                  ELSE [conns[d] EXCEPT !.step = "cut"]
  BY DEF Crash, At
<1>2. CASE conns[d].step = "unsent" \/ conns[d].step = "answered"
  BY <1>1, <1>2 DEF ConnKept
<1>3. CASE ~(conns[d].step = "unsent" \/ conns[d].step = "answered")
  <2>1. conns[d] \in Conn
    BY <1>3, ConnFields DEF ApiInv
  <2>2. conns'[d].step = "cut"
    BY <1>1, <1>3, <2>1 DEF Conn
  <2> QED
    BY <2>2
<1> QED
  BY <1>2, <1>3

LEMMA KeptBodiesAdd ==
  ASSUME BodiesAdd, \A d \in Connections : conns'[d].step \in {"body", "waiting"} => ConnKept(d)
  PROVE  BodiesAdd'
<1> SUFFICES ASSUME NEW d \in Connections, conns'[d].step \in {"body", "waiting"}
             PROVE  ReadSoFar(conns'[d].shape.chunks, conns'[d].chunks, conns'[d].buffered)
  BY DEF BodiesAdd
<1>1. ConnKept(d)
  OBVIOUS
<1> QED
  BY <1>1 DEF ConnKept, BodiesAdd

LEMMA HandleAdds ==
  ASSUME ApiInv, BodiesAdd, NEW c \in Connections, NEW shape \in Shapes, handleRequest(c, shape)
  PROVE  BodiesAdd'
<1>0. PICK step : step = IF EarlyStatus(shape) # 0         THEN "answered"
                         ELSE IF shape.route = "bootstrap" THEN "body"
                         ELSE "service"
  OBVIOUS
<1>1. PICK next : /\ conns' = [conns EXCEPT ![c] = next]
                  /\ next = [shape |-> shape, step |-> step, status |-> EarlyStatus(shape),
                             chunks |-> shape.chunks, buffered |-> 0]
  BY <1>0 DEF handleRequest
<1>2. conns'[c] = next /\ \A d \in Connections \ {c} : conns'[d] = conns[d]
  BY <1>1 DEF ApiInv, ConnsOK
<1>3. ReadSoFar(shape.chunks, shape.chunks, 0)
  BY NothingRead, ApiConstants
<1> QED
  BY <1>1, <1>2, <1>3 DEF BodiesAdd

LEMMA ReadChunkAdds ==
  ASSUME ApiInv, BodiesAdd, NEW c \in Connections, ReadChunk(c)
  PROVE  BodiesAdd'
<1>1. conns[c].step = "body" /\ conns[c].chunks # <<>>
  BY DEF ReadChunk, At
<1>2. /\ conns[c] \in Conn /\ conns[c].chunks \in Seq(Nat) /\ conns[c].shape \in Shapes
      /\ conns[c].buffered \in 0..BODY_LIMIT
  BY <1>1, ConnFields DEF ApiInv
<1>3. CASE TooLarge(c)
  <2>1. sendJson(c, 413)
    BY <1>3 DEF ReadChunk
  <2> QED
    BY <1>1, <2>1, AnsweredNotKept, KeptBodiesAdd
<1>4. CASE ~TooLarge(c)
  <2>1. PICK rest : rest = Tail(conns[c].chunks)
    OBVIOUS
  <2>2. PICK sum : sum = conns[c].buffered + Head(conns[c].chunks)
    OBVIOUS
  <2>3. conns' = [conns EXCEPT ![c].chunks = rest, ![c].buffered = sum]
    BY <1>4, <2>1, <2>2 DEF ReadChunk
  <2>4. conns'[c] = [[conns[c] EXCEPT !.chunks = rest] EXCEPT !.buffered = sum]
        /\ \A d \in Connections \ {c} : conns'[d] = conns[d]
    BY <2>3 DEF ApiInv, ConnsOK
  <2>5. PICK mid : mid = [conns[c] EXCEPT !.chunks = rest]
    OBVIOUS
  <2>6. /\ mid.shape = conns[c].shape /\ mid.chunks = rest
        /\ DOMAIN mid = {"shape", "step", "status", "chunks", "buffered"}
    BY <1>2, <2>5 DEF Conn
  <2>7. /\ conns'[c].shape = conns[c].shape /\ conns'[c].chunks = rest
        /\ conns'[c].buffered = sum
    BY <2>4, <2>5, <2>6
  <2>8. ReadSoFar(conns[c].shape.chunks, rest, sum)
    <3>1. conns[c].shape.chunks \in Seq(Nat) /\ conns[c].buffered \in Nat
      BY <1>2, ApiConstants
    <3>2. ReadSoFar(conns[c].shape.chunks, conns[c].chunks, conns[c].buffered)
      BY <1>1 DEF BodiesAdd
    <3> QED
      BY <1>1, <1>2, <2>1, <2>2, <3>1, <3>2, ChunkRead
  <2> QED
    BY <2>4, <2>7, <2>8 DEF BodiesAdd
<1> QED
  BY <1>3, <1>4

LEMMA EndBodyAdds ==
  ASSUME ApiInv, BodiesAdd, NEW c \in Connections, EndBody(c)
  PROVE  BodiesAdd'
<1>1. conns[c].step = "body"
  BY DEF EndBody, At
<1>2. conns[c] \in Conn
  BY <1>1, ConnFields DEF ApiInv
<1>3. \/ sendJson(c, 400) \/ sendJson(c, 409) \/ conns' = [conns EXCEPT ![c].step = "waiting"]
  BY DEF EndBody
<1>4. CASE sendJson(c, 400) \/ sendJson(c, 409)
  BY <1>1, <1>4, AnsweredNotKept, KeptBodiesAdd
<1>5. CASE conns' = [conns EXCEPT ![c].step = "waiting"]
  <2>1. /\ conns'[c] = [conns[c] EXCEPT !.step = "waiting"]
        /\ \A d \in Connections \ {c} : conns'[d] = conns[d]
    BY <1>5 DEF ApiInv, ConnsOK
  <2>2. /\ conns'[c].shape = conns[c].shape /\ conns'[c].chunks = conns[c].chunks
        /\ conns'[c].buffered = conns[c].buffered
    BY <1>2, <2>1 DEF Conn
  <2>3. \A d \in Connections : conns'[d].step \in {"body", "waiting"} => ConnKept(d)
    BY <1>1, <2>1, <2>2 DEF ConnKept
  <2> QED
    BY <2>3, KeptBodiesAdd
<1> QED
  BY <1>3, <1>4, <1>5

LEMMA NextBodiesAdd ==
  ASSUME ApiInv, BodiesAdd, [Next]_vars
  PROVE  BodiesAdd'
<1>1. ASSUME NEW c \in Connections, AnswerGet(c) \/ Disconnect(c)
      PROVE  BodiesAdd'
  <2>1. PICK status \in {200, 400, 409, 500} : sendJson(c, status)
    BY <1>1 DEF AnswerGet, Disconnect
  <2>2. conns[c].step \in {"body", "service"}
    BY <1>1 DEF AnswerGet, Disconnect, At
  <2> QED
    BY <2>1, <2>2, AnsweredNotKept, KeptBodiesAdd
<1>2. CASE exportAccountState \/ Create \/ UNCHANGED vars
  <2>1. UNCHANGED conns \/ \E status \in {200, 409, 500, 504} : Settle(status)
    BY <1>2 DEF exportAccountState, MakeTempDir, Chmod, WriteConfig, ChildCloses, ReadOutput,
      RemoveDir, Create, Failing, vars
  <2>2. CASE UNCHANGED conns
    BY <2>2 DEF BodiesAdd
  <2>3. CASE \E status \in {200, 409, 500, 504} : Settle(status)
    BY <2>3, SettledNotKept, KeptBodiesAdd
  <2> QED
    BY <2>1, <2>2, <2>3
<1>3. CASE Crash
  BY <1>3, CutNotKept, KeptBodiesAdd
<1> QED
  BY <1>1, <1>2, <1>3, HandleAdds, ReadChunkAdds, EndBodyAdds DEF Next, Arrives

\* A creation under way was asked for by a local request with its key, and the whole
\* body of that request, however it was cut into chunks and whatever length it
\* declared, is within the limit.
THEOREM CreationWasAskedFor == Spec => []CreationAskedFor
<1>1. Init => BodiesAdd
  BY DEF Init, BodiesAdd, Unsent
<1>2. ApiInv /\ BodiesAdd /\ [Next]_vars => BodiesAdd'
  BY NextBodiesAdd
<1>3. ASSUME ApiInv, BodiesAdd PROVE CreationAskedFor
  <2>1. SUFFICES ASSUME active # Idle
                 PROVE  \E c \in Connections :
                          /\ At(c, "waiting")
                          /\ conns[c].shape.local /\ conns[c].shape.key = active.key
                          /\ BodySize(conns[c].shape) <= BODY_LIMIT
    BY DEF CreationAskedFor
  <2>2. PICK c \in Connections : conns[c].step = "waiting" /\ conns[c].shape.key = active.key
    BY <1>3, <2>1 DEF ApiInv, AskedByWhoWaits
  <2>3. /\ conns[c].shape \in Shapes /\ conns[c].buffered \in 0..BODY_LIMIT
        /\ conns[c].chunks = <<>> /\ conns[c].shape.local
    BY <1>3, <2>2, ConnFields DEF ApiInv, Admitted
  <2>4. PICK w : w = conns[c].shape.chunks /\ w \in Seq(Nat)
    BY <2>3, ApiConstants
  <2>5. PICK p : PrefixSums(p, w) /\ BodySize(conns[c].shape) = p[Len(w)]
    BY <2>4, BodySizeIs
  <2>6. PICK k \in 0..Len(w) : Len(conns[c].chunks) = Len(w) - k /\ conns[c].buffered = p[k]
    BY <1>3, <2>2, <2>4, <2>5 DEF BodiesAdd, ReadSoFar
  <2>7. k = Len(w)
    BY <2>3, <2>4, <2>6
  <2>8. BodySize(conns[c].shape) <= BODY_LIMIT
    BY <2>3, <2>5, <2>6, <2>7, ApiConstants
  <2> QED
    BY <2>2, <2>3, <2>8 DEF At
<1> QED
  BY <1>1, <1>2, <1>3, ApiInvariant, PTL DEF Spec

-----------------------------------------------------------------------------
(***************************************************************************)
(* What RequestsAnswered rests on: a request that is not answered yet has  *)
(* a bounded number of chunks and awaits left, and one that waits shares a *)
(* creation that is under way, which has a bounded number of steps left.   *)
(***************************************************************************)
\* Nobody waits for a creation that is not there.
NobodyForgotten == \A c \in Connections : conns[c].step = "waiting" => active # Idle

AnswerLeft(step, chunksLeft) ==
  IF step = "body" THEN chunksLeft + 3
  ELSE IF step = "waiting" THEN 2
  ELSE IF step = "service" THEN 1
  ELSE 0

ExportLeft(step) ==
  IF step = "mkdtemp" THEN 7
  ELSE IF step = "chmod" THEN 6
  ELSE IF step = "config" THEN 5
  ELSE IF step = "child" THEN 4
  ELSE IF step = "read" THEN 3
  ELSE IF step = "remove" THEN 2
  ELSE 1

CloserToAnswer(c) ==
  AnswerLeft(conns'[c].step, Len(conns'[c].chunks)) < AnswerLeft(conns[c].step, Len(conns[c].chunks))

CreationCloser == active' = Idle \/ ExportLeft(active'.step) < ExportLeft(active.step)

\* What a step may do to a request on its way, and to a creation under way.
RequestAdvances(c) ==
  /\ AnswerGet(c) \/ Arrives(c) => CloserToAnswer(c)
  /\ conns[c].step # "unsent" => conns'[c] = conns[c] \/ CloserToAnswer(c)

CreationAdvances ==
  /\ exportAccountState \/ Create => CreationCloser
  /\ active # Idle => active' = active \/ CreationCloser

\* Being answered, or cut off, is closer for everyone who is not yet.
LEMMA AnsweredIsCloser ==
  ASSUME ConnsOK, NEW c \in Connections, conns[c].step \in {"body", "waiting", "service"},
         conns'[c].step \in {"answered", "cut"}
  PROVE  CloserToAnswer(c)
<1>1. Len(conns[c].chunks) \in Nat
  BY ConnFields
<1>2. AnswerLeft(conns'[c].step, Len(conns'[c].chunks)) = 0
  BY DEF AnswerLeft
<1>3. AnswerLeft(conns[c].step, Len(conns[c].chunks)) \in {Len(conns[c].chunks) + 3, 2, 1}
  BY DEF AnswerLeft
<1> QED
  BY <1>1, <1>2, <1>3 DEF CloserToAnswer

LEMMA SendJsonIs ==
  ASSUME ConnsOK, NEW c \in Connections, conns[c].step \in {"body", "service"},
         NEW status \in Nat, sendJson(c, status)
  PROVE  conns'[c].step = "answered" /\ \A d \in Connections \ {c} : conns'[d] = conns[d]
<1>1. conns[c] \in Conn
  BY ConnFields
<1>2. PICK next : next = [conns[c] EXCEPT !.step = "answered", !.status = status]
  OBVIOUS
<1>3. conns' = [conns EXCEPT ![c] = next]
  BY <1>2 DEF sendJson
<1>4. conns'[c] = next /\ \A d \in Connections \ {c} : conns'[d] = conns[d]
  BY <1>3 DEF ConnsOK
<1>5. next = [shape |-> conns[c].shape, step |-> "answered", status |-> status,
              chunks |-> conns[c].chunks, buffered |-> conns[c].buffered]
  BY <1>1, <1>2, AnsweredConn
<1>6. next.step = "answered"
  BY <1>5
<1> QED
  BY <1>4, <1>6

\* A chunk that is kept is one fewer to come.
LEMMA ChunkIsCloser ==
  ASSUME ApiInv, NEW c \in Connections, ReadChunk(c), ~TooLarge(c)
  PROVE  /\ CloserToAnswer(c) /\ conns'[c].step = "body"
         /\ \A d \in Connections \ {c} : conns'[d] = conns[d]
<1>1. conns[c].step = "body" /\ conns[c].chunks # <<>>
  BY DEF ReadChunk, At
<1>2. conns[c] \in Conn /\ conns[c].chunks \in Seq(Nat)
  BY <1>1, ConnFields DEF ApiInv
<1>3. PICK rest, sum : rest = Tail(conns[c].chunks)
                       /\ conns' = [conns EXCEPT ![c].chunks = rest, ![c].buffered = sum]
  BY DEF ReadChunk
<1>4. /\ conns'[c] = [[conns[c] EXCEPT !.chunks = rest] EXCEPT !.buffered = sum]
      /\ \A d \in Connections \ {c} : conns'[d] = conns[d]
  BY <1>3 DEF ApiInv, ConnsOK
<1>5. conns'[c].step = "body" /\ conns'[c].chunks = rest
  BY <1>1, <1>2, <1>4 DEF Conn
<1>6. Len(rest) = Len(conns[c].chunks) - 1 /\ Len(conns[c].chunks) \in Nat
  BY <1>1, <1>2, <1>3, HeadTailProperties
<1>7. /\ AnswerLeft(conns'[c].step, Len(conns'[c].chunks)) = Len(rest) + 3
      /\ AnswerLeft(conns[c].step, Len(conns[c].chunks)) = Len(conns[c].chunks) + 3
  BY <1>1, <1>5 DEF AnswerLeft
<1> QED
  BY <1>4, <1>5, <1>6, <1>7 DEF CloserToAnswer

\* At the end of its body a request is answered, or waits for a creation.
LEMMA EndBodyIsCloser ==
  ASSUME ApiInv, NEW c \in Connections, EndBody(c)
  PROVE  /\ CloserToAnswer(c) /\ \A d \in Connections \ {c} : conns'[d] = conns[d]
         /\ conns'[c].step = "waiting" => active' # Idle
         /\ active # Idle => active' = active
<1>1. conns[c].step = "body" /\ Len(conns[c].chunks) \in Nat /\ conns[c] \in Conn
  BY ConnFields DEF EndBody, At, ApiInv
<1>2. CASE \E status \in {400, 409} : sendJson(c, status) /\ UNCHANGED active
  <2>1. conns'[c].step = "answered" /\ \A d \in Connections \ {c} : conns'[d] = conns[d]
    BY <1>1, <1>2, SendJsonIs DEF ApiInv
  <2> QED
    BY <1>1, <1>2, <2>1, AnsweredIsCloser DEF ApiInv
<1>3. CASE /\ conns' = [conns EXCEPT ![c].step = "waiting"]
           /\ active' = IF active # Idle THEN active
                        ELSE [step |-> "mkdtemp", key |-> conns[c].shape.key, dir |-> 0, ok |-> FALSE]
  <2>1. /\ conns'[c] = [conns[c] EXCEPT !.step = "waiting"]
        /\ \A d \in Connections \ {c} : conns'[d] = conns[d]
    BY <1>3 DEF ApiInv, ConnsOK
  <2>2. conns'[c].step = "waiting"
    BY <1>1, <2>1 DEF Conn
  <2>3. active' # Idle
    BY <1>3 DEF Idle
  <2>4. /\ AnswerLeft(conns'[c].step, Len(conns'[c].chunks)) = 2
        /\ AnswerLeft(conns[c].step, Len(conns[c].chunks)) = Len(conns[c].chunks) + 3
    BY <1>1, <2>2 DEF AnswerLeft
  <2> QED
    BY <1>1, <1>3, <2>1, <2>3, <2>4 DEF CloserToAnswer
<1> QED
  BY <1>2, <1>3 DEF EndBody

\* What a request does by itself.
LEMMA OwnStepIsCloser ==
  ASSUME ApiInv, NEW c \in Connections, AnswerGet(c) \/ Arrives(c)
  PROVE  /\ CloserToAnswer(c) /\ \A d \in Connections \ {c} : conns'[d] = conns[d]
         /\ conns'[c].step = "waiting" => active' # Idle
         /\ active' = active \/ active = Idle
<1>1. CASE \E status \in {200, 400, 409, 413, 500} : sendJson(c, status) /\ UNCHANGED active
  <2>1. conns[c].step \in {"body", "service"}
    BY DEF AnswerGet, Arrives, ReadChunk, EndBody, Disconnect, At
  <2>2. conns'[c].step = "answered" /\ \A d \in Connections \ {c} : conns'[d] = conns[d]
    BY <1>1, <2>1, SendJsonIs DEF ApiInv
  <2> QED
    BY <1>1, <2>1, <2>2, AnsweredIsCloser DEF ApiInv
<1>2. CASE ReadChunk(c) /\ ~TooLarge(c)
  <2>1. active' = active
    BY <1>2 DEF ReadChunk
  <2> QED
    BY <1>2, <2>1, ChunkIsCloser
<1>3. CASE EndBody(c)
  BY <1>3, EndBodyIsCloser
<1>4. CASE AnswerGet(c)
  <2>1. \E status \in {200, 400, 409, 413, 500} : sendJson(c, status) /\ UNCHANGED active
    BY <1>4 DEF AnswerGet
  <2> QED
    BY <1>1, <2>1
<1>5. CASE ReadChunk(c) /\ TooLarge(c)
  <2>1. sendJson(c, 413) /\ UNCHANGED active
    BY <1>5 DEF ReadChunk
  <2> QED
    BY <1>1, <2>1
<1>6. CASE Disconnect(c)
  <2>1. sendJson(c, 400) /\ UNCHANGED active
    BY <1>6 DEF Disconnect
  <2> QED
    BY <1>1, <2>1
<1> QED
  BY <1>2, <1>3, <1>4, <1>5, <1>6 DEF Arrives

\* The shared promise is settled: everyone who waits is answered.
LEMMA SettleAnswers ==
  ASSUME ApiInv, NEW status \in Nat, Settle(status), NEW c \in Connections
  PROVE  /\ conns'[c] = conns[c] \/ CloserToAnswer(c)
         /\ conns'[c].step # "waiting"
<1>1. conns'[c] = IF conns[c].step = "waiting"
                    THEN [conns[c] EXCEPT !.step = "answered", !.status = status]
                    ELSE conns[c]
  BY DEF Settle, At
<1>2. CASE conns[c].step = "waiting"
  <2>1. conns[c] \in Conn
    BY <1>2, ConnFields DEF ApiInv
  <2>2. conns'[c] = [shape |-> conns[c].shape, step |-> "answered", status |-> status,
                     chunks |-> conns[c].chunks, buffered |-> conns[c].buffered]
    BY <1>1, <1>2, <2>1, AnsweredConn
  <2>3. conns'[c].step = "answered"
    BY <2>2
  <2> QED
    BY <1>2, <2>3, AnsweredIsCloser DEF ApiInv
<1> QED
  BY <1>1, <1>2

\* A crash cuts everyone off who has no answer.
LEMMA CrashAnswers ==
  ASSUME ApiInv, Crash, NEW c \in Connections
  PROVE  /\ conns'[c] = conns[c] \/ CloserToAnswer(c)
         /\ conns'[c].step # "waiting"
<1>1. conns'[c] = IF conns[c].step = "unsent" \/ conns[c].step = "answered" THEN conns[c]
                  ELSE [conns[c] EXCEPT !.step = "cut"]
  BY DEF Crash, At
<1>2. CASE conns[c].step = "unsent" \/ conns[c].step = "answered"
  BY <1>1, <1>2
<1>3. CASE ~(conns[c].step = "unsent" \/ conns[c].step = "answered")
  <2>1. conns[c] \in Conn /\ conns[c].step \in ConnSteps
    BY <1>3, ConnFields DEF ApiInv
  <2>2. conns'[c] = [conns[c] EXCEPT !.step = "cut"]
    BY <1>1, <1>3
  <2>3. conns'[c].step = "cut"
    BY <2>1, <2>2 DEF Conn
  <2>4. CASE conns[c].step = "cut"
    BY <2>1, <2>2, <2>3, <2>4 DEF Conn
  <2>5. CASE conns[c].step # "cut"
    BY <1>3, <2>1, <2>3, <2>5, AnsweredIsCloser DEF ApiInv, ConnSteps
  <2> QED
    BY <2>3, <2>4, <2>5
<1> QED
  BY <1>2, <1>3

\* A step of the export or of the creation after it: it goes on, or everyone who waits
\* is answered.
LEMMA ExportAdvances ==
  ASSUME ApiInv, exportAccountState \/ Create
  PROVE  \/ active' # Idle /\ ExportLeft(active'.step) < ExportLeft(active.step) /\ UNCHANGED conns
         \/ active' = Idle /\ \E status \in {200, 409, 500, 504} : Settle(status)
<1>1. CASE \E status \in {200, 409, 500, 504} : Settle(status)
  BY <1>1 DEF Settle
<1>2. CASE ~\E status \in {200, 409, 500, 504} : Settle(status)
  <2>1. active.step \in {"mkdtemp", "chmod", "config", "child", "read", "remove"}
    BY <1>2 DEF exportAccountState, MakeTempDir, Chmod, WriteConfig, ChildCloses, ReadOutput,
       RemoveDir, Create, Exporting
  <2>2. active \in Creation
    BY <2>1 DEF Idle, ApiInv, ActiveOK
  <2>3. ASSUME NEW step, active' = [active EXCEPT !.step = step] PROVE active'.step = step
    BY <2>2, <2>3 DEF Creation
  <2>4. ASSUME NEW step, NEW dir, active' = [active EXCEPT !.step = step, !.dir = dir]
        PROVE  active'.step = step
    BY <2>2, <2>4 DEF Creation
  <2>5. ASSUME NEW step, NEW ok, active' = [active EXCEPT !.step = step, !.ok = ok]
        PROVE  active'.step = step
    BY <2>2, <2>5 DEF Creation
  <2>6. /\ UNCHANGED conns
        /\ \/ active.step = "mkdtemp" /\ active'.step = "chmod"
           \/ active.step = "chmod" /\ active'.step = "config"
           \/ active.step = "config" /\ active'.step \in {"child", "remove"}
           \/ active.step = "child" /\ active'.step \in {"read", "remove"}
           \/ active.step = "read" /\ active'.step = "remove"
           \/ active.step = "remove" /\ active'.step = "create"
    <3>1. CASE MakeTempDir
      <4>1. ~Settle(500)
        BY <1>2
      <4>2. /\ active.step = "mkdtemp" /\ UNCHANGED conns
            /\ active' = [active EXCEPT !.step = "chmod", !.dir = made + 1]
        BY <3>1, <4>1 DEF MakeTempDir, Exporting
      <4>3. active'.step = "chmod"
        BY <2>4, <4>2
      <4> QED
        BY <4>2, <4>3
    <3>2. CASE Chmod \/ WriteConfig \/ ChildCloses
      BY <1>2, <2>3, <3>2 DEF Chmod, WriteConfig, ChildCloses, Failing, Goto, Exporting
    <3>3. CASE ReadOutput
      BY <2>3, <2>5, <3>3 DEF ReadOutput, Failing, Goto, Exporting
    <3>4. CASE RemoveDir
      BY <1>2, <2>3, <3>4 DEF RemoveDir, Goto, Exporting
    <3> QED
      BY <1>2, <3>1, <3>2, <3>3, <3>4 DEF exportAccountState, Create
  <2>7. active' # Idle
    BY <2>6 DEF Idle
  <2>8. ExportLeft(active'.step) < ExportLeft(active.step)
    BY <2>6 DEF ExportLeft
  <2> QED
    BY <2>6, <2>7, <2>8
<1> QED
  BY <1>1, <1>2

\* A new request touches nobody else, and does not wait yet.
LEMMA HandleIs ==
  ASSUME ConnsOK, NEW c \in Connections, NEW shape \in Shapes, handleRequest(c, shape)
  PROVE  /\ conns[c].step = "unsent" /\ conns'[c].step # "waiting" /\ active' = active
         /\ \A d \in Connections \ {c} : conns'[d] = conns[d]
BY DEF handleRequest, ConnsOK, Unsent

\* Every step, seen from a request.
LEMMA NextAdvances ==
  ASSUME ApiInv, NobodyForgotten, Next, NEW c \in Connections
  PROVE  /\ conns[c].step # "unsent" => conns'[c] = conns[c] \/ CloserToAnswer(c)
         /\ conns'[c].step = "waiting" => active' # Idle
         /\ active # Idle => active' = active \/ CreationCloser
<1>1. CASE \E d \in Connections : AnswerGet(d) \/ Arrives(d)
  BY <1>1, OwnStepIsCloser DEF NobodyForgotten
<1>2. CASE \E d \in Connections, shape \in Shapes : handleRequest(d, shape)
  BY <1>2, HandleIs DEF ApiInv, NobodyForgotten
<1>3. CASE exportAccountState \/ Create
  <2>1. CASE active' # Idle /\ ExportLeft(active'.step) < ExportLeft(active.step) /\ UNCHANGED conns
    BY <2>1 DEF CreationCloser
  <2>2. CASE active' = Idle /\ \E status \in {200, 409, 500, 504} : Settle(status)
    <3>1. PICK status \in Nat : Settle(status)
      BY <2>2
    <3> QED
      BY <2>2, <3>1, SettleAnswers DEF CreationCloser
  <2> QED
    BY <1>3, <2>1, <2>2, ExportAdvances
<1>4. CASE Crash
  <2>1. active' = Idle
    BY <1>4 DEF Crash
  <2> QED
    BY <1>4, <2>1, CrashAnswers DEF CreationCloser
<1> QED
  BY <1>1, <1>2, <1>3, <1>4 DEF Next

\* Every request the server has taken on can only come closer to its answer: a chunk, a
\* disconnect, an await or a step of the creation it shares leaves it fewer steps, no
\* other request and no crash gives it more, and nobody waits for a creation that has
\* been settled.  The same for the export, whichever of its steps fails.
THEOREM RequestsRunOut ==
  Spec => /\ []NobodyForgotten
          /\ [][CreationAdvances /\ \A c \in Connections : RequestAdvances(c)]_vars
<1>1. Init => NobodyForgotten
  BY DEF Init, NobodyForgotten, Unsent
<1>2. ApiInv /\ NobodyForgotten /\ [Next]_vars => NobodyForgotten'
  <2>1. CASE UNCHANGED vars
    BY <2>1 DEF vars, NobodyForgotten
  <2> QED
    BY <2>1, NextAdvances DEF NobodyForgotten
<1>3. ApiInv /\ NobodyForgotten /\ [Next]_vars
        => [CreationAdvances /\ \A c \in Connections : RequestAdvances(c)]_vars
  <2> SUFFICES ASSUME ApiInv, NobodyForgotten, Next
               PROVE  CreationAdvances /\ \A c \in Connections : RequestAdvances(c)
    OBVIOUS
  <2>1. \A c \in Connections : RequestAdvances(c)
    BY NextAdvances, OwnStepIsCloser DEF RequestAdvances
  <2>2. active # Idle => \E c \in Connections : TRUE
    BY DEF ApiInv, AskedByWhoWaits
  <2>3. CreationAdvances
    BY <2>2, NextAdvances, ExportAdvances DEF CreationAdvances, CreationCloser
  <2> QED
    BY <2>1, <2>3
<1> QED
  BY <1>1, <1>2, <1>3, ApiInvariant, PTL DEF Spec
============================================================================
