------------------------- MODULE VerifierPipeProofs -------------------------
(***************************************************************************)
(* One verifier call, for every length of the request and its header and   *)
(* every way its writes and reads are split.  The argument: what the child *)
(* has read is always what the parent knows to be written plus what its    *)
(* write in progress has handed over, and the write end is closed only     *)
(* after the last byte.  So a child that meets the end of the stream has   *)
(* the whole request, and never a byte more.                               *)
(***************************************************************************)
EXTENDS VerifierPipe, TLAPS

\* The parts of TypeOK: the exit code is one of the verifier's, the lengths are
\* within the request, and the rest.
CodeOK ==
  code \in {RUNNING, VALID, INTERNAL_ERROR} \cup
           {Codes.no_header, Codes.no_body, Codes.extra} \cup Codes.rejects

Lengths ==
  /\ offset \in 0..REQUEST_LEN /\ got \in 0..REQUEST_LEN
  /\ offered \in 0..REQUEST_LEN /\ taken \in 0..REQUEST_LEN

Types ==
  /\ parent \in {"pipe", "spawn", "close read", "write", "writing", "wait", "done"}
  /\ result \in {"none", "weight", "no weight", "failure"}
  /\ writer \in BOOLEAN
  /\ reader \in {"nobody", "parent", "child"}
  /\ child \in {"none", "header", "body", "extra", "verify", "exited"}
  /\ valid \in BOOLEAN /\ verifier \in Verifiers /\ aborted \in BOOLEAN

\* The two ends agree on how much of the request has gone over.
BytesCounted ==
  /\ got = offset + taken
  /\ parent = "writing" => offered = REQUEST_LEN - offset
  /\ parent \notin {"writing", "done"} => taken = 0

\* The write end is closed before the child exists, or after the last byte.
ClosedAfterLastByte ==
  /\ parent \in {"pipe", "spawn"} => child = "none"
  /\ parent \in {"close read", "write", "writing", "wait"} => child # "none"
  /\ ~writer => child = "none" \/ got = REQUEST_LEN
  /\ parent \in {"spawn", "close read", "write", "writing"} => writer
  /\ parent = "wait" => ~writer /\ offset = REQUEST_LEN

\* How far the child is says how much it has read.
ChildProgress ==
  /\ child = "none" => got = 0
  /\ child = "header" => got < HEADER_LEN
  /\ child = "body" => HEADER_LEN <= got /\ got < REQUEST_LEN
  /\ child \in {"extra", "verify"} => got = REQUEST_LEN
  /\ child = "verify" => ~writer
  /\ child = "exited" <=> code # RUNNING
  /\ aborted => child = "exited"

\* Only its own verdict ends a child that was not aborted.
ExitIsVerdict ==
  child = "exited" =>
    /\ code = VALID => valid /\ got = REQUEST_LEN /\ ~writer
    /\ ~aborted => /\ got = REQUEST_LEN /\ ~writer
                   /\ valid => code = VALID

\* What spawn_verifier returned is the child's exit code.
ResultIsExit ==
  /\ result = "none" <=> parent # "done"
  /\ result = "weight" => child = "exited" /\ code = VALID
  /\ result = "no weight" => child = "exited" /\ code # VALID

\* The inductive invariant.
PipeInv ==
  /\ Types /\ CodeOK /\ Lengths
  /\ BytesCounted /\ ClosedAfterLastByte
  /\ ChildProgress /\ ExitIsVerdict /\ ResultIsExit

\* No verifier rejects, or fails to read, with the code of a valid proof or of a
\* child that still runs.
LEMMA RejectsAreNotValid ==
  ASSUME verifier \in Verifiers
  PROVE  VALID \notin Codes.rejects /\ RUNNING \notin Codes.rejects
<1>1. verifier \in {"p256", "mldsa", "slhdsa", "fixture"}
  BY PipeConstants
<1>2. CASE verifier = "p256"
  BY <1>2 DEF Codes, p256_codes, VALID, RUNNING
<1>3. CASE verifier = "mldsa"
  BY <1>3 DEF Codes, mldsa_codes, VALID, RUNNING
<1>4. CASE verifier = "slhdsa"
  BY <1>4 DEF Codes, slhdsa_codes, VALID, RUNNING
<1>5. CASE verifier = "fixture"
  BY <1>5 DEF Codes, fixture_codes, VALID, RUNNING
<1> QED
  BY <1>1, <1>2, <1>3, <1>4, <1>5

\* Before the call nothing is written, read or returned.
LEMMA InitPipeInv == Init => PipeInv
<1> SUFFICES ASSUME Init PROVE PipeInv
  OBVIOUS
<1> USE PipeConstants DEF Init
<1>1. Types /\ CodeOK
  BY DEF Types, CodeOK
<1>4. Lengths
  BY DEF Lengths
<1>2. BytesCounted /\ ClosedAfterLastByte
  BY DEF BytesCounted, ClosedAfterLastByte
<1>3. ChildProgress /\ ExitIsVerdict /\ ResultIsExit
  BY DEF ChildProgress, ExitIsVerdict, ResultIsExit, RUNNING
<1> QED
  BY <1>1, <1>2, <1>3, <1>4 DEF PipeInv

\* The parent's steps: the child does not move, except that it is spawned, and the
\* bytes it has read are accounted for when a write returns.
LEMMA ParentKeepsInv ==
  ASSUME PipeInv, Parent \/ SyscallFails
  PROVE  PipeInv'
<1> USE PipeConstants DEF PipeInv, childVars
<1>0. CodeOK'
  <2>1. UNCHANGED <<code, verifier>>
    BY DEF Parent, CreatePipe, Spawn, CloseRead, BeginWrite, WriteReturns, WriteFails,
           CloseWrite, Wait, SyscallFails
  <2> QED
    BY <2>1 DEF CodeOK, Codes
<1>1. CASE CreatePipe
  <2>1. Types'
    BY <1>1 DEF Types, CreatePipe
  <2>6. Lengths'
    BY <1>1 DEF Lengths, BytesCounted, CreatePipe
  <2>2. BytesCounted'
    BY <1>1 DEF Lengths, BytesCounted, CreatePipe
  <2>3. ClosedAfterLastByte'
    BY <1>1 DEF Types, Lengths, BytesCounted, ClosedAfterLastByte, CreatePipe
  <2>4. ChildProgress' /\ ExitIsVerdict'
    BY <1>1 DEF Types, ClosedAfterLastByte, ChildProgress, ExitIsVerdict, CreatePipe
  <2>5. ResultIsExit'
    BY <1>1 DEF Types, ClosedAfterLastByte, ResultIsExit, CreatePipe
  <2> QED
    BY <1>0, <2>1, <2>2, <2>3, <2>4, <2>5, <2>6
<1>2. CASE Spawn
  <2>1. Types'
    BY <1>2 DEF Types, Spawn
  <2>6. Lengths'
    BY <1>2 DEF Lengths, BytesCounted, Spawn
  <2>2. BytesCounted'
    BY <1>2 DEF Lengths, BytesCounted, Spawn
  <2>3. ClosedAfterLastByte'
    BY <1>2 DEF Types, Lengths, BytesCounted, ClosedAfterLastByte, Spawn
  <2>4. ChildProgress' /\ ExitIsVerdict'
    <3>1. child = "none" /\ got = 0 /\ code = RUNNING /\ ~aborted
      BY <1>2 DEF Types, ClosedAfterLastByte, ChildProgress, Spawn
    <3>2. child' = "header" /\ UNCHANGED <<got, code, aborted>>
      BY <1>2 DEF Spawn
    <3> QED
      BY <3>1, <3>2 DEF ChildProgress, ExitIsVerdict
  <2>5. ResultIsExit'
    BY <1>2 DEF Types, ClosedAfterLastByte, ResultIsExit, Spawn
  <2> QED
    BY <1>0, <2>1, <2>2, <2>3, <2>4, <2>5, <2>6
<1>3. CASE CloseRead
  <2>1. Types'
    BY <1>3 DEF Types, CloseRead
  <2>6. Lengths'
    BY <1>3 DEF Lengths, BytesCounted, CloseRead
  <2>2. BytesCounted'
    BY <1>3 DEF Lengths, BytesCounted, CloseRead
  <2>3. ClosedAfterLastByte'
    BY <1>3 DEF Types, Lengths, BytesCounted, ClosedAfterLastByte, CloseRead
  <2>4. ChildProgress' /\ ExitIsVerdict'
    BY <1>3 DEF Types, ClosedAfterLastByte, ChildProgress, ExitIsVerdict, CloseRead
  <2>5. ResultIsExit'
    BY <1>3 DEF Types, ClosedAfterLastByte, ResultIsExit, CloseRead
  <2> QED
    BY <1>0, <2>1, <2>2, <2>3, <2>4, <2>5, <2>6
<1>4. CASE BeginWrite
  <2>1. Types'
    BY <1>4 DEF Types, BeginWrite
  <2>6. Lengths'
    BY <1>4 DEF Lengths, BytesCounted, BeginWrite
  <2>2. BytesCounted'
    BY <1>4 DEF Lengths, BytesCounted, BeginWrite
  <2>3. ClosedAfterLastByte'
    BY <1>4 DEF Types, Lengths, BytesCounted, ClosedAfterLastByte, BeginWrite
  <2>4. ChildProgress' /\ ExitIsVerdict'
    BY <1>4 DEF Types, ClosedAfterLastByte, ChildProgress, ExitIsVerdict, BeginWrite
  <2>5. ResultIsExit'
    BY <1>4 DEF Types, ClosedAfterLastByte, ResultIsExit, BeginWrite
  <2> QED
    BY <1>0, <2>1, <2>2, <2>3, <2>4, <2>5, <2>6
<1>5. CASE WriteReturns
  <2>1. Types'
    BY <1>5 DEF Types, WriteReturns, OffsetAfter
  <2>6. Lengths'
    BY <1>5 DEF Lengths, BytesCounted, WriteReturns, OffsetAfter
  <2>2. BytesCounted'
    BY <1>5 DEF Lengths, BytesCounted, WriteReturns, OffsetAfter
  <2>3. ClosedAfterLastByte'
    BY <1>5 DEF Types, Lengths, BytesCounted, ClosedAfterLastByte, WriteReturns, OffsetAfter
  <2>4. ChildProgress' /\ ExitIsVerdict'
    BY <1>5 DEF Types, ClosedAfterLastByte, ChildProgress, ExitIsVerdict, WriteReturns, OffsetAfter
  <2>5. ResultIsExit'
    BY <1>5 DEF Types, ClosedAfterLastByte, ResultIsExit, WriteReturns, OffsetAfter
  <2> QED
    BY <1>0, <2>1, <2>2, <2>3, <2>4, <2>5, <2>6
<1>6. CASE WriteFails
  <2>1. Types'
    BY <1>6 DEF Types, WriteFails, Return
  <2>6. Lengths'
    BY <1>6 DEF Lengths, BytesCounted, WriteFails, Return
  <2>2. BytesCounted'
    BY <1>6 DEF Lengths, BytesCounted, WriteFails, Return
  <2>3. ClosedAfterLastByte'
    BY <1>6 DEF Types, Lengths, BytesCounted, ClosedAfterLastByte, WriteFails, Return
  <2>4. ChildProgress' /\ ExitIsVerdict'
    BY <1>6 DEF Types, ClosedAfterLastByte, ChildProgress, ExitIsVerdict, WriteFails, Return
  <2>5. ResultIsExit'
    BY <1>6 DEF Types, ClosedAfterLastByte, ResultIsExit, WriteFails, Return
  <2> QED
    BY <1>0, <2>1, <2>2, <2>3, <2>4, <2>5, <2>6
<1>7. CASE CloseWrite
  <2>1. Types'
    BY <1>7 DEF Types, CloseWrite
  <2>6. Lengths'
    BY <1>7 DEF Lengths, BytesCounted, CloseWrite
  <2>2. BytesCounted'
    BY <1>7 DEF Lengths, BytesCounted, CloseWrite
  <2>3. ClosedAfterLastByte'
    <3>1. got = REQUEST_LEN
      BY <1>7 DEF Lengths, BytesCounted, CloseWrite
    <3> QED
      BY <1>7, <3>1 DEF ClosedAfterLastByte, CloseWrite
  <2>4. ChildProgress' /\ ExitIsVerdict'
    BY <1>7 DEF Types, ClosedAfterLastByte, ChildProgress, ExitIsVerdict, CloseWrite
  <2>5. ResultIsExit'
    BY <1>7 DEF Types, ClosedAfterLastByte, ResultIsExit, CloseWrite
  <2> QED
    BY <1>0, <2>1, <2>2, <2>3, <2>4, <2>5, <2>6
<1>8. CASE Wait
  <2>1. Types'
    BY <1>8 DEF Types, Wait, Return
  <2>6. Lengths'
    BY <1>8 DEF Lengths, BytesCounted, Wait, Return
  <2>2. BytesCounted'
    BY <1>8 DEF Lengths, BytesCounted, Wait, Return
  <2>3. ClosedAfterLastByte'
    BY <1>8 DEF Types, Lengths, BytesCounted, ClosedAfterLastByte, Wait, Return
  <2>4. ChildProgress' /\ ExitIsVerdict'
    BY <1>8 DEF Types, ClosedAfterLastByte, ChildProgress, ExitIsVerdict, Wait, Return
  <2>5. ResultIsExit'
    BY <1>8 DEF Types, ClosedAfterLastByte, ResultIsExit, Wait, Return
  <2> QED
    BY <1>0, <2>1, <2>2, <2>3, <2>4, <2>5, <2>6
<1>9. CASE SyscallFails
  <2>1. Types'
    BY <1>9 DEF Types, SyscallFails, Return
  <2>6. Lengths'
    BY <1>9 DEF Lengths, BytesCounted, SyscallFails, Return
  <2>2. BytesCounted'
    BY <1>9 DEF Lengths, BytesCounted, SyscallFails, Return
  <2>3. ClosedAfterLastByte'
    BY <1>9 DEF Types, Lengths, BytesCounted, ClosedAfterLastByte, SyscallFails, Return
  <2>4. ChildProgress' /\ ExitIsVerdict'
    BY <1>9 DEF Types, ClosedAfterLastByte, ChildProgress, ExitIsVerdict, SyscallFails, Return
  <2>5. ResultIsExit'
    BY <1>9 DEF Types, ClosedAfterLastByte, ResultIsExit, SyscallFails, Return
  <2> QED
    BY <1>0, <2>1, <2>2, <2>3, <2>4, <2>5, <2>6
<1> QED
  BY <1>1, <1>2, <1>3, <1>4, <1>5, <1>6, <1>7, <1>8, <1>9 DEF Parent

\* A read: it takes no more than is left of the request, so the byte that must not
\* be there never comes, and the child gets on by one part at most.
LEMMA ReadSomeKeepsInv ==
  ASSUME PipeInv, ReadSome
  PROVE  PipeInv'
<1> USE PipeConstants DEF PipeInv, parentVars
<1>1. /\ parent = "writing" /\ child \in {"header", "body", "extra"} /\ reader = "child"
      /\ UNCHANGED <<parent, result, offset, offered, writer, valid, verifier, aborted>>
  BY DEF ReadSome
<1>2. PICK n \in 1..(Goal - got) :
        /\ n <= offered - taken
        /\ got' = got + n
        /\ taken' = taken + n
        /\ IF got + n < Goal THEN ContinueAt(child)
           ELSE CASE child = "header" -> ContinueAt("body")
                  [] child = "body"   -> ContinueAt("extra")
                  [] child = "extra"  -> ExitWith(Codes.extra)
  BY DEF ReadSome
<1>3. Goal \in Nat /\ n \in Nat /\ n > 0 /\ got + n <= Goal
  BY <1>1, <1>2 DEF Goal, Lengths
<1>4. got + n <= REQUEST_LEN
  BY <1>1, <1>2, <1>3 DEF Lengths, BytesCounted
<1>5. child \in {"header", "body"}
  BY <1>1, <1>3, <1>4 DEF Lengths, ChildProgress
<1>6. /\ writer /\ code = RUNNING /\ ~aborted
  BY <1>1 DEF Types, ClosedAfterLastByte, ChildProgress
<1>7. UNCHANGED <<code, reader>>
  BY <1>2, <1>3, <1>5 DEF ContinueAt
<1>8. \/ child = "header" /\ child' = "header" /\ got' < HEADER_LEN
      \/ child = "header" /\ child' = "body" /\ got' = HEADER_LEN
      \/ child = "body" /\ child' = "body" /\ HEADER_LEN <= got /\ got' < REQUEST_LEN
      \/ child = "body" /\ child' = "extra" /\ got' = REQUEST_LEN
  <2>1. CASE child = "header"
    <3>1. Goal = HEADER_LEN
      BY <2>1 DEF Goal
    <3>2. IF got + n < HEADER_LEN THEN child' = "header" ELSE child' = "body"
      BY <1>2, <2>1, <3>1 DEF ContinueAt
    <3> QED
      BY <1>2, <1>3, <2>1, <3>1, <3>2 DEF Lengths
  <2>2. CASE child = "body"
    <3>1. Goal = REQUEST_LEN
      BY <2>2 DEF Goal
    <3>2. IF got + n < REQUEST_LEN THEN child' = "body" ELSE child' = "extra"
      BY <1>2, <2>2, <3>1 DEF ContinueAt
    <3>3. HEADER_LEN <= got
      BY <2>2 DEF ChildProgress
    <3> QED
      BY <1>2, <1>3, <2>2, <3>1, <3>2, <3>3 DEF Lengths
  <2> QED
    BY <1>5, <2>1, <2>2
<1>9. Types' /\ CodeOK'
  BY <1>1, <1>7, <1>8 DEF Types, CodeOK, Codes
<1>10. Lengths' /\ BytesCounted'
  BY <1>1, <1>2, <1>3, <1>4 DEF Lengths, BytesCounted
<1>11. ClosedAfterLastByte'
  BY <1>1, <1>6, <1>8 DEF ClosedAfterLastByte
<1>12. ChildProgress' /\ ExitIsVerdict'
  BY <1>1, <1>2, <1>3, <1>6, <1>7, <1>8 DEF ChildProgress, ExitIsVerdict, Lengths
<1>13. ResultIsExit'
  BY <1>1 DEF ResultIsExit
<1> QED
  BY <1>9, <1>10, <1>11, <1>12, <1>13

\* A read at the end of the stream: the child has the whole request.
LEMMA ReadAtEndKeepsInv ==
  ASSUME PipeInv, ReadAtEnd
  PROVE  PipeInv'
<1> USE PipeConstants DEF PipeInv, parentVars
<1>1. /\ child \in {"header", "body", "extra"} /\ ~writer
      /\ UNCHANGED <<parent, result, offset, offered, taken, writer, valid, verifier, got, aborted>>
  BY DEF ReadAtEnd
<1>2. got = REQUEST_LEN /\ child = "extra"
  <2>1. got = REQUEST_LEN
    BY <1>1 DEF ClosedAfterLastByte
  <2>2. ~(got < HEADER_LEN) /\ ~(got < REQUEST_LEN)
    BY <2>1
  <2> QED
    BY <1>1, <2>1, <2>2 DEF ChildProgress
<1>3. child' = "verify" /\ reader' = "nobody" /\ code' = code
  BY <1>2 DEF ReadAtEnd, AfterEndOfStream
<1>4. Types' /\ CodeOK'
  BY <1>1, <1>3 DEF Types, CodeOK, Codes
<1>5. Lengths' /\ BytesCounted'
  BY <1>1 DEF Lengths, BytesCounted
<1>6. ClosedAfterLastByte'
  BY <1>1, <1>2, <1>3 DEF ClosedAfterLastByte
<1>7. ChildProgress' /\ ExitIsVerdict'
  BY <1>1, <1>2, <1>3 DEF ChildProgress, ExitIsVerdict
<1>8. ResultIsExit'
  BY <1>1, <1>2, <1>3 DEF ResultIsExit
<1> QED
  BY <1>4, <1>5, <1>6, <1>7, <1>8

\* The verdict: the code of a valid proof exactly for a valid proof.
LEMMA VerifyKeepsInv ==
  ASSUME PipeInv, Verify
  PROVE  PipeInv'
<1> USE PipeConstants DEF PipeInv, parentVars
<1>1. /\ child = "verify"
      /\ UNCHANGED <<parent, result, offset, offered, taken, writer, valid, verifier, got, aborted>>
  BY DEF Verify
<1>2. PICK c \in (IF valid THEN {VALID} ELSE Codes.rejects) : ExitWith(c)
  BY DEF Verify
<1>3. child' = "exited" /\ code' = c /\ reader' \in {reader, "nobody"}
  BY <1>2 DEF ExitWith
<1>4. VALID \notin Codes.rejects /\ RUNNING \notin Codes.rejects
  BY RejectsAreNotValid DEF Types
<1>5. c # RUNNING /\ (c = VALID <=> valid)
  <2>1. CASE valid
    BY <1>2, <2>1 DEF RUNNING, VALID
  <2>2. CASE ~valid
    BY <1>2, <1>4, <2>2
  <2> QED
    BY <2>1, <2>2
<1>6. Types'
  BY <1>1, <1>3 DEF Types
<1>7. CodeOK'
  BY <1>1, <1>2, <1>3 DEF CodeOK, Codes
<1>8. Lengths' /\ BytesCounted'
  BY <1>1 DEF Lengths, BytesCounted
<1>9. ClosedAfterLastByte'
  BY <1>1, <1>3 DEF ClosedAfterLastByte
<1>10. got = REQUEST_LEN /\ ~writer
  BY <1>1 DEF ChildProgress
<1>11. ChildProgress' /\ ExitIsVerdict'
  BY <1>1, <1>3, <1>5, <1>10 DEF ChildProgress, ExitIsVerdict
<1>12. ResultIsExit'
  BY <1>1, <1>3 DEF ResultIsExit
<1> QED
  BY <1>6, <1>7, <1>8, <1>9, <1>11, <1>12

\* An aborted child exits with a code that counts for nothing.
LEMMA AbortKeepsInv ==
  ASSUME PipeInv, Abort
  PROVE  PipeInv'
<1> USE PipeConstants DEF PipeInv, parentVars
<1>1. /\ child \in {"header", "body", "extra", "verify"} /\ aborted' = TRUE
      /\ UNCHANGED <<parent, result, offset, offered, taken, writer, valid, verifier, got>>
  BY DEF Abort
<1>2. child' = "exited" /\ code' = INTERNAL_ERROR /\ reader' \in {reader, "nobody"}
  BY DEF Abort, ExitWith
<1>3. INTERNAL_ERROR # VALID /\ INTERNAL_ERROR # RUNNING
  BY DEF INTERNAL_ERROR, VALID, RUNNING
<1>4. Types'
  BY <1>1, <1>2 DEF Types
<1>5. CodeOK'
  BY <1>1, <1>2 DEF CodeOK, Codes
<1>6. Lengths' /\ BytesCounted'
  BY <1>1 DEF Lengths, BytesCounted
<1>7. ClosedAfterLastByte'
  BY <1>1, <1>2 DEF ClosedAfterLastByte
<1>8. ChildProgress' /\ ExitIsVerdict'
  BY <1>1, <1>2, <1>3 DEF ChildProgress, ExitIsVerdict
<1>9. ResultIsExit'
  BY <1>1, <1>2 DEF ResultIsExit
<1> QED
  BY <1>4, <1>5, <1>6, <1>7, <1>8, <1>9

\* Every step of either VM keeps the invariant.
LEMMA NextPipeInv ==
  ASSUME PipeInv, [Next]_vars
  PROVE  PipeInv'
<1>1. CASE Finished \/ UNCHANGED vars
  <2>1. UNCHANGED <<parent, result, offset, offered, taken, writer, reader, child, got, code,
                    valid, verifier, aborted>>
    BY <1>1 DEF Finished, vars
  <2>2. Types'
    <3>1. Types
      BY DEF PipeInv
    <3>2. /\ parent' = parent /\ result' = result /\ writer' = writer /\ reader' = reader
          /\ child' = child /\ valid' = valid /\ verifier' = verifier /\ aborted' = aborted
      BY ONLY <2>1
    <3> QED
      BY ONLY <3>1, <3>2, Zenon DEF Types
  <2>3. Lengths' /\ BytesCounted'
    BY <2>1 DEF PipeInv, Lengths, BytesCounted
  <2>4. CodeOK'
    BY <2>1 DEF PipeInv, CodeOK, Codes
  <2>5. ClosedAfterLastByte'
    BY <2>1 DEF PipeInv, ClosedAfterLastByte
  <2>6. ChildProgress'
    BY <2>1 DEF PipeInv, ChildProgress
  <2>7. ExitIsVerdict' /\ ResultIsExit'
    BY <2>1 DEF PipeInv, ExitIsVerdict, ResultIsExit
  <2> QED
    BY <2>2, <2>3, <2>4, <2>5, <2>6, <2>7 DEF PipeInv
<1> QED
  BY <1>1, ParentKeepsInv, ReadSomeKeepsInv, ReadAtEndKeepsInv, VerifyKeepsInv, AbortKeepsInv
  DEF Next, Child

\* The invariant holds throughout every call.
THEOREM PipeInvariant == Spec => []PipeInv
<1>1. Init => PipeInv
  BY InitPipeInv
<1>2. PipeInv /\ [Next]_vars => PipeInv'
  BY NextPipeInv
<1> QED
  BY <1>1, <1>2, PTL DEF Spec

\* However its writes and reads are split, the child is sent no byte beyond the
\* request and every variable keeps its type.
THEOREM PipeTypeSafety == Spec => []TypeOK
<1>1. PipeInv => TypeOK
  BY DEF PipeInv, Types, CodeOK, Lengths, TypeOK
<1> QED
  BY <1>1, PipeInvariant, PTL

\* spawn_verifier counts weight only for a proof the verifier accepted, after it had
\* read every byte of the request and the end of the stream.
THEOREM WeightIsEarned == Spec => []WeightOnlyForWholeRequest
<1>1. PipeInv => WeightOnlyForWholeRequest
  BY DEF PipeInv, ResultIsExit, ExitIsVerdict, WeightOnlyForWholeRequest
<1> QED
  BY <1>1, PipeInvariant, PTL

\* The transport turns down no valid proof: a verifier that was not aborted and
\* exits with a failure has met an invalid proof.
THEOREM ValidProofIsCounted == Spec => []ValidProofCounts
<1>1. PipeInv => ValidProofCounts
  BY DEF PipeInv, ResultIsExit, ExitIsVerdict, ValidProofCounts
<1> QED
  BY <1>1, PipeInvariant, PTL


(***************************************************************************)
(* What CallReturns rests on.  No VM step leaves the two of them waiting   *)
(* for each other, and every step uses up some of what remains to be done; *)
(* a scheduler that resumes who is not blocked thus brings the call to its *)
(* end, within Remaining steps.                                            *)
(***************************************************************************)
\* The parent waits: for a reader of what it offers, or for the child's exit.
ParentWaits ==
  \/ parent = "writing" /\ taken = 0 /\ reader = "child"
  \/ parent = "wait" /\ child # "exited"

\* The child has no step of its own: it is not there, or it reads from an open pipe
\* on which nothing is on offer.
ChildWaits ==
  \/ child \in {"none", "exited"}
  \/ /\ child \in {"header", "body", "extra"} /\ writer
     /\ parent = "writing" => offered = taken

\* The two VMs never wait for each other.
NeverBothWait == ~(ParentWaits /\ ChildWaits)

\* Who holds the read end; a write offers something.
ReadEndHeld ==
  /\ parent = "writing" => offset < REQUEST_LEN
  /\ parent \in {"pipe", "spawn"} => reader # "child"
  /\ child \in {"header", "body", "extra"} => reader = "child"
  /\ child \in {"verify", "exited"} => reader # "child"

LEMMA NextReadEndHeld ==
  ASSUME PipeInv, ReadEndHeld, [Next]_vars
  PROVE  ReadEndHeld'
<1> USE DEF parentVars, childVars
<1>1. child = "none" => parent \in {"pipe", "spawn", "done"}
  BY DEF PipeInv, ClosedAfterLastByte, Types
<1>2. CASE CreatePipe \/ Spawn \/ CloseRead
  BY <1>1, <1>2 DEF CreatePipe, Spawn, CloseRead, ReadEndHeld, PipeInv, ClosedAfterLastByte
<1>3. CASE BeginWrite \/ WriteReturns \/ CloseWrite
  BY <1>3 DEF BeginWrite, WriteReturns, CloseWrite, ReadEndHeld
<1>4. CASE WriteFails \/ Wait \/ SyscallFails
  BY <1>4 DEF WriteFails, Wait, SyscallFails, Return, ReadEndHeld
<1>5. CASE ReadSome
  <2>1. /\ \/ child' \in {"header", "body", "extra"} /\ reader' = "child"
           \/ child' = "exited" /\ reader' = "nobody"
        /\ parent = "writing" /\ UNCHANGED <<parent, offset>>
    BY <1>5 DEF ReadSome, ContinueAt, ExitWith
  <2> QED
    BY <2>1 DEF ReadEndHeld
<1>6. CASE ReadAtEnd \/ Verify \/ Abort
  BY <1>6 DEF ReadAtEnd, AfterEndOfStream, Verify, Abort, ExitWith, ReadEndHeld
<1>7. CASE Finished \/ UNCHANGED vars
  BY <1>7 DEF Finished, vars, ReadEndHeld
<1> QED
  BY <1>2, <1>3, <1>4, <1>5, <1>6, <1>7 DEF Next, Parent, Child

\* Neither VM ever waits for the other while that one waits for it: the mutual waiting
\* that partial writes and reads of spawn_verifier and read_request could lead to.
THEOREM NoMutualWaiting == Spec => []NeverBothWait
<1>1. Init => ReadEndHeld
  BY DEF Init, ReadEndHeld
<1>2. PipeInv /\ ReadEndHeld /\ [Next]_vars => ReadEndHeld'
  BY NextReadEndHeld
<1>3. PipeInv /\ ReadEndHeld => NeverBothWait
  <2> SUFFICES ASSUME PipeInv, ReadEndHeld, ParentWaits, ChildWaits PROVE FALSE
    BY DEF NeverBothWait
  <2>1. CASE parent = "wait"
    <3>1. child \notin {"none", "exited"} /\ ~writer
      BY <2>1 DEF ParentWaits, PipeInv, ClosedAfterLastByte
    <3> QED
      BY <3>1 DEF ChildWaits
  <2>2. CASE parent = "writing" /\ taken = 0 /\ reader = "child"
    <3>1. child \in {"header", "body", "extra"}
      BY <2>2 DEF PipeInv, Types, ClosedAfterLastByte, ReadEndHeld
    <3>2. offered = 0 /\ offset = REQUEST_LEN
      BY <2>2, <3>1, PipeConstants DEF ChildWaits, PipeInv, BytesCounted, Lengths
    <3> QED
      BY <2>2, <3>2, PipeConstants DEF ReadEndHeld
  <2> QED
    BY <2>1, <2>2 DEF ParentWaits
<1> QED
  BY <1>1, <1>2, <1>3, PipeInvariant, PTL DEF Spec

\* What remains to be done: the parent's steps, two for every byte it may still have to
\* write by itself, and the child's, one for every byte it may still read.
Twice(n) == n + n

ParentLeft(step, written) ==
  IF step = "pipe" THEN Twice(REQUEST_LEN) + 6
  ELSE IF step = "spawn" THEN Twice(REQUEST_LEN) + 5
  ELSE IF step = "close read" THEN Twice(REQUEST_LEN) + 4
  ELSE IF step = "write" THEN Twice(REQUEST_LEN - written) + 3
  ELSE IF step = "writing" THEN Twice(REQUEST_LEN - written) + 2
  ELSE IF step = "wait" THEN 1
  ELSE 0

ChildLeft(step, read) ==
  IF step = "none" THEN REQUEST_LEN + 4
  ELSE IF step \in {"header", "body", "extra"} THEN (REQUEST_LEN - read) + 3
  ELSE IF step = "verify" THEN 2
  ELSE 1

Remaining == ParentLeft(parent, offset) + ChildLeft(child, got)

LEMMA TwiceIs ==
  ASSUME NEW n \in Nat
  PROVE  /\ Twice(n) \in Nat
         /\ \A m \in Nat : m < n => Twice(m) + 1 < Twice(n)
BY DEF Twice

LEMMA ParentLeftIs ==
  ASSUME NEW n \in 0..REQUEST_LEN
  PROVE  /\ ParentLeft("pipe", n) = Twice(REQUEST_LEN) + 6
         /\ ParentLeft("spawn", n) = Twice(REQUEST_LEN) + 5
         /\ ParentLeft("close read", n) = Twice(REQUEST_LEN) + 4
         /\ ParentLeft("write", n) = Twice(REQUEST_LEN - n) + 3
         /\ ParentLeft("writing", n) = Twice(REQUEST_LEN - n) + 2
         /\ ParentLeft("wait", n) = 1 /\ ParentLeft("done", n) = 0
BY DEF ParentLeft

LEMMA ChildLeftIs ==
  ASSUME NEW n \in 0..REQUEST_LEN
  PROVE  /\ ChildLeft("none", n) = REQUEST_LEN + 4
         /\ \A step \in {"header", "body", "extra"} : ChildLeft(step, n) = (REQUEST_LEN - n) + 3
         /\ ChildLeft("verify", n) = 2 /\ ChildLeft("exited", n) = 1
BY DEF ChildLeft

LEMMA LeftNatural ==
  ASSUME NEW n \in 0..REQUEST_LEN
  PROVE  /\ \A step \in {"pipe", "spawn", "close read", "write", "writing", "wait", "done"} :
              ParentLeft(step, n) \in Nat
         /\ \A step \in {"none", "header", "body", "extra", "verify", "exited"} :
              ChildLeft(step, n) \in Nat
<1>1. /\ Twice(REQUEST_LEN - n) \in Nat /\ Twice(REQUEST_LEN) \in Nat
      /\ REQUEST_LEN \in Nat /\ REQUEST_LEN - n \in Nat
  BY PipeConstants, TwiceIs
<1>2. \A step \in {"pipe", "spawn", "close read", "write", "writing", "wait", "done"} :
        ParentLeft(step, n) \in Nat
  <2>1. PICK t \in Nat, u \in Nat : t = Twice(REQUEST_LEN) /\ u = Twice(REQUEST_LEN - n)
    BY <1>1
  <2>2. /\ ParentLeft("pipe", n) = t + 6 /\ ParentLeft("spawn", n) = t + 5
        /\ ParentLeft("close read", n) = t + 4 /\ ParentLeft("write", n) = u + 3
        /\ ParentLeft("writing", n) = u + 2 /\ ParentLeft("wait", n) = 1 /\ ParentLeft("done", n) = 0
    BY <2>1, ParentLeftIs
  <2>3. t + 6 \in Nat /\ t + 5 \in Nat /\ t + 4 \in Nat
    BY <1>1
  <2>4. u + 3 \in Nat /\ u + 2 \in Nat
    BY <1>1
  <2>5. 0 \in Nat /\ 1 \in Nat
    BY <1>1
  <2> QED
    BY ONLY <2>2, <2>3, <2>4, <2>5, Zenon
<1>3. ASSUME NEW step \in {"none", "header", "body", "extra", "verify", "exited"}
      PROVE  ChildLeft(step, n) \in Nat
  BY <1>1, <1>3, ChildLeftIs
<1> QED
  BY <1>2, <1>3

LEMMA RemainingNatural ==
  PipeInv => ParentLeft(parent, offset) \in Nat /\ ChildLeft(child, got) \in Nat
BY LeftNatural DEF PipeInv, Types, Lengths

\* A step of the parent leaves the child no more to do; spawning it is such a step.
LEMMA ParentLeavesChild ==
  ASSUME PipeInv, Parent \/ SyscallFails
  PROVE  ChildLeft(child', got') <= ChildLeft(child, got)
<1> USE DEF parentVars, childVars
<1>1. REQUEST_LEN \in Nat /\ got \in 0..REQUEST_LEN /\ ChildLeft(child, got) \in Nat
  BY RemainingNatural, PipeConstants DEF PipeInv, Lengths
<1>2. CASE Spawn
  <2>1. child = "none" /\ child' = "header" /\ got' = got
    BY <1>2 DEF Spawn, PipeInv, ClosedAfterLastByte
  <2> QED
    BY <1>1, <2>1, ChildLeftIs
<1>3. CASE ~Spawn
  <2>1. UNCHANGED <<child, got>>
    BY <1>3 DEF Parent, CreatePipe, CloseRead, BeginWrite, WriteReturns, WriteFails, CloseWrite, Wait,
                SyscallFails
  <2> QED
    BY <1>1, <2>1
<1> QED
  BY <1>2, <1>3

\* A step of the parent, failing or not, is one fewer for it.
LEMMA ParentUsesUp ==
  ASSUME PipeInv, PipeInv', Parent \/ SyscallFails
  PROVE  ParentLeft(parent', offset') < ParentLeft(parent, offset)
<1> USE DEF parentVars, childVars
<1> DEFINE before == ParentLeft(parent, offset)
           after == ParentLeft(parent', offset')
<1>1. REQUEST_LEN \in Nat /\ offset \in 0..REQUEST_LEN /\ offset' \in 0..REQUEST_LEN /\ taken \in Nat
  BY PipeConstants DEF PipeInv, Lengths
<1>2. CASE CreatePipe \/ Spawn
  <2>1. \/ parent = "pipe" /\ parent' = "spawn"
        \/ parent = "spawn" /\ parent' = "close read"
    BY <1>2 DEF CreatePipe, Spawn
  <2>2. \/ before = Twice(REQUEST_LEN) + 6 /\ after = Twice(REQUEST_LEN) + 5
        \/ before = Twice(REQUEST_LEN) + 5 /\ after = Twice(REQUEST_LEN) + 4
    BY <1>1, <2>1, ParentLeftIs
  <2> QED
    BY <1>1, <2>2, TwiceIs
<1>3. CASE CloseRead
  <2>1. parent = "close read" /\ parent' = "write"
    BY <1>3 DEF CloseRead
  <2>2. before = Twice(REQUEST_LEN) + 4 /\ after = Twice(REQUEST_LEN - offset') + 3
    BY <1>1, <2>1, ParentLeftIs
  <2> QED
    BY <1>1, <2>2, TwiceIs
<1>4. CASE BeginWrite
  <2>1. parent = "write" /\ parent' = "writing" /\ offset' = offset
    BY <1>4 DEF BeginWrite
  <2>2. before = Twice(REQUEST_LEN - offset) + 3 /\ after = Twice(REQUEST_LEN - offset) + 2
    BY <1>1, <2>1, ParentLeftIs
  <2> QED
    BY <1>1, <2>2, TwiceIs
<1>5. CASE WriteReturns
  <2>1. parent = "writing" /\ parent' = "write" /\ offset' = offset + taken /\ taken > 0
    BY <1>5 DEF WriteReturns, OffsetAfter
  <2>2. before = Twice(REQUEST_LEN - offset) + 2 /\ after = Twice(REQUEST_LEN - offset') + 3
    BY <1>1, <2>1, ParentLeftIs
  <2> QED
    BY <1>1, <2>1, <2>2, TwiceIs
<1>6. CASE CloseWrite
  <2>1. parent = "write" /\ parent' = "wait"
    BY <1>6 DEF CloseWrite
  <2>2. before = Twice(REQUEST_LEN - offset) + 3 /\ after = 1
    BY <1>1, <2>1, ParentLeftIs
  <2> QED
    BY <1>1, <2>2, TwiceIs
<1>7. CASE WriteFails \/ Wait \/ SyscallFails
  <2>1. parent \in {"pipe", "spawn", "close read", "write", "writing", "wait"} /\ parent' = "done"
    BY <1>7 DEF WriteFails, Wait, SyscallFails, Return
  <2>2. after = 0
    BY <1>1, <2>1, ParentLeftIs
  <2>3. \/ before \in {Twice(REQUEST_LEN) + 6, Twice(REQUEST_LEN) + 5, Twice(REQUEST_LEN) + 4, 1}
        \/ before \in {Twice(REQUEST_LEN - offset) + 3, Twice(REQUEST_LEN - offset) + 2}
    BY <1>1, <2>1, ParentLeftIs
  <2> HIDE DEF before
  <2>4. before > 0
    BY <1>1, <2>3, TwiceIs
  <2> QED
    BY <2>2, <2>4 DEF before
<1> QED
  BY <1>2, <1>3, <1>4, <1>5, <1>6, <1>7 DEF Parent

\* So is a step of the child, of its own or when it is aborted.
LEMMA ChildUsesUp ==
  ASSUME PipeInv, PipeInv', Child \/ Abort
  PROVE  ChildLeft(child', got') < ChildLeft(child, got) /\ UNCHANGED <<parent, offset>>
<1> USE DEF parentVars, childVars
<1>1. REQUEST_LEN \in Nat /\ got \in 0..REQUEST_LEN /\ got' \in 0..REQUEST_LEN
  BY PipeConstants DEF PipeInv, Lengths
<1>2. CASE ReadSome
  <2>1. PICK n \in 1..(Goal - got) :
          got' = got + n /\ (child' \in {"header", "body", "extra"} \/ child' = "exited")
    BY <1>2 DEF ReadSome, ContinueAt, ExitWith
  <2>2. got < got'
    BY <1>1, <2>1
  <2>3. child \in {"header", "body", "extra"} /\ UNCHANGED <<parent, offset>>
    BY <1>2 DEF ReadSome
  <2> QED
    BY <1>1, <2>1, <2>2, <2>3, ChildLeftIs
<1>3. CASE ReadAtEnd \/ Abort
  <2>1. /\ child \in {"header", "body", "extra", "verify"} /\ child' \in {"verify", "exited"}
        /\ child = "verify" => child' = "exited"
        /\ UNCHANGED <<parent, offset>>
    BY <1>3 DEF ReadAtEnd, AfterEndOfStream, Abort, ExitWith
  <2> QED
    BY <1>1, <2>1, ChildLeftIs
<1>4. CASE Verify
  <2>1. child = "verify" /\ child' = "exited" /\ UNCHANGED <<parent, offset>>
    BY <1>4 DEF Verify, ExitWith
  <2> QED
    BY <1>1, <2>1, ChildLeftIs
<1> QED
  BY <1>2, <1>3, <1>4 DEF Child

\* Every step of a call uses up some of what remains: no split of reads and writes, no
\* failing syscall and no abort makes spawn_verifier or read_request go round.
THEOREM CallRunsOut == Spec => [](Remaining \in Nat) /\ [][Remaining' < Remaining]_vars
<1>1. PipeInv => Remaining \in Nat
  BY RemainingNatural DEF Remaining
<1>2. PipeInv /\ PipeInv' /\ [Next]_vars => [Remaining' < Remaining]_vars
  <2> SUFFICES ASSUME PipeInv, PipeInv', Next PROVE Remaining' < Remaining \/ UNCHANGED vars
    OBVIOUS
  <2>1. /\ parent \in {"pipe", "spawn", "close read", "write", "writing", "wait", "done"}
        /\ parent' \in {"pipe", "spawn", "close read", "write", "writing", "wait", "done"}
        /\ child \in {"none", "header", "body", "extra", "verify", "exited"}
        /\ child' \in {"none", "header", "body", "extra", "verify", "exited"}
        /\ offset \in 0..REQUEST_LEN /\ offset' \in 0..REQUEST_LEN
        /\ got \in 0..REQUEST_LEN /\ got' \in 0..REQUEST_LEN
    BY DEF PipeInv, Types, Lengths
  <2>2. /\ ParentLeft(parent, offset) \in Nat /\ ParentLeft(parent', offset') \in Nat
        /\ ChildLeft(child, got) \in Nat /\ ChildLeft(child', got') \in Nat
    BY <2>1, LeftNatural
  <2>3. CASE Parent \/ SyscallFails
    BY <2>2, <2>3, ParentUsesUp, ParentLeavesChild DEF Remaining
  <2>4. CASE Child \/ Abort
    BY <2>2, <2>4, ChildUsesUp DEF Remaining
  <2>5. CASE Finished
    BY <2>5 DEF Finished
  <2> QED
    BY <2>3, <2>4, <2>5 DEF Next
<1> QED
  BY <1>1, <1>2, PipeInvariant, PTL DEF Spec
=============================================================================
