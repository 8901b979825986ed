---------------------------- MODULE VerifierPipe ----------------------------
(***************************************************************************)
(* One verifier call: spawn_verifier of the account lock (the parent) and  *)
(* read_request of a verifier (the child), two VMs that the CKB scheduler  *)
(* interleaves, joined by one pipe without a buffer.  A write blocks until *)
(* the other end has read it or is gone, may return early with part of it  *)
(* written, and a read may return fewer bytes than it asked for.           *)
(*                                                                         *)
(* The request is REQUEST_LEN bytes; encode_request has checked that its   *)
(* header declares just that length.                                       *)
(***************************************************************************)
EXTENDS Integers

CONSTANTS
  REQUEST_LEN,   \* bytes of the request
  HEADER_LEN,    \* VERIFIER_REQUEST_HEADER_LEN
  Verifiers      \* the verifiers that may be spawned

ASSUME PipeConstants ==
  /\ HEADER_LEN \in Nat \ {0}
  /\ REQUEST_LEN \in Nat /\ REQUEST_LEN > HEADER_LEN
  /\ Verifiers \subseteq {"p256", "mldsa", "slhdsa", "fixture"}

VARIABLES
  parent,    \* the parent's next step
  result,    \* what spawn_verifier returns: "none" yet, "weight", "no weight", "failure"
  offset,    \* bytes the parent knows to be written
  offered,   \* bytes the write in progress offers
  taken,     \* bytes of them the child has read
  writer,    \* the write end is open; only the parent ever holds it
  reader,    \* who holds the read end: "nobody", "parent" or "child"
  child,     \* the child's next step
  got,       \* bytes the child has read
  code,      \* the child's exit code
  valid,     \* the request carries a proof the verifier accepts
  verifier,  \* which verifier the child is
  aborted    \* the child was stopped by something else than its own checks

vars == <<parent, result, offset, offered, taken, writer, reader, child, got, code,
          valid, verifier, aborted>>

parentVars == <<parent, result, offset>>
childVars  == <<child, got, code, aborted>>

(***************************************************************************)
(* The exit codes of the four verifiers: of read_request, when the stream  *)
(* ends in the header, in the body, or not after it, and of verify.        *)
(***************************************************************************)
p256_codes ==
  [no_header |-> 2, no_body |-> 2, extra |-> 2, rejects |-> {1, 3, 4, 5, 6, 7, 8, 9}]
mldsa_codes ==
  [no_header |-> 2, no_body |-> 2, extra |-> 2, rejects |-> {1, 3, 4, 5, 6, 7, 9}]
slhdsa_codes ==
  [no_header |-> 2, no_body |-> 2, extra |-> 2, rejects |-> {1, 3, 4, 5, 6, 7, 9}]
fixture_codes ==
  [no_header |-> 3, no_body |-> 6, extra |-> 7, rejects |-> {1}]

Codes == CASE verifier = "p256"    -> p256_codes
           [] verifier = "mldsa"   -> mldsa_codes
           [] verifier = "slhdsa"  -> slhdsa_codes
           [] verifier = "fixture" -> fixture_codes

RUNNING == -1
VALID == 0
INTERNAL_ERROR == 10

Init ==
  /\ parent = "pipe" /\ result = "none" /\ offset = 0
  /\ offered = 0 /\ taken = 0
  /\ writer = FALSE /\ reader = "nobody"
  /\ child = "none" /\ got = 0 /\ code = RUNNING
  /\ valid \in BOOLEAN /\ verifier \in Verifiers /\ aborted = FALSE

(***************************************************************************)
(* The parent.                                                             *)
(***************************************************************************)
Return(r) == parent' = "done" /\ result' = r

CreatePipe ==
  /\ parent = "pipe"
  /\ parent' = "spawn"
  /\ writer' = TRUE /\ reader' = "parent"
  /\ UNCHANGED <<result, offset, offered, taken, valid, verifier, childVars>>

\* The child takes over the read end, the only descriptor it is given.
Spawn ==
  /\ parent = "spawn"
  /\ parent' = "close read"
  /\ reader' = "child" /\ child' = "header"
  /\ UNCHANGED <<result, offset, offered, taken, writer, valid, verifier, got, code, aborted>>

\* The parent's descriptor is gone already: InvalidFd, which it tolerates.
CloseRead ==
  /\ parent = "close read"
  /\ parent' = "write"
  /\ reader' = IF reader = "parent" THEN "nobody" ELSE reader
  /\ UNCHANGED <<result, offset, offered, taken, writer, valid, verifier, childVars>>

BeginWrite ==
  /\ parent = "write" /\ offset < REQUEST_LEN
  /\ parent' = "writing"
  /\ offered' = REQUEST_LEN - offset /\ taken' = 0
  /\ UNCHANGED <<result, offset, writer, reader, valid, verifier, childVars>>

\* Mutants: the write is taken to be complete, and not accounted for.
OffsetAfter_offered(written) == offset + offered
OffsetAfter_stuck(written) == offset

\* How far the request is written once a write has returned.
OffsetAfter(written) == offset + written

WriteReturns ==
  /\ parent = "writing"
  /\ taken > 0
  /\ parent' = "write" /\ offset' = OffsetAfter(taken)
  /\ offered' = 0 /\ taken' = 0
  /\ UNCHANGED <<result, writer, reader, valid, verifier, childVars>>

\* The read end is closed under the write: it returns an error or 0 bytes.
WriteFails ==
  /\ parent = "writing" /\ reader # "child"
  /\ Return("failure")
  /\ offered' = 0
  /\ UNCHANGED <<offset, taken, writer, reader, valid, verifier, childVars>>

\* Mutant: the write end stays open.
CloseWrite_leaves_open ==
  /\ parent = "write" /\ offset = REQUEST_LEN
  /\ parent' = "wait"
  /\ UNCHANGED <<result, offset, offered, taken, writer, reader, valid, verifier, childVars>>

CloseWrite ==
  /\ parent = "write" /\ offset = REQUEST_LEN
  /\ parent' = "wait"
  /\ writer' = FALSE
  /\ UNCHANGED <<result, offset, offered, taken, reader, valid, verifier, childVars>>

\* Mutant: any exit counts.
Wait_any_exit ==
  /\ parent = "wait" /\ child = "exited"
  /\ Return("weight")
  /\ UNCHANGED <<offset, offered, taken, writer, reader, valid, verifier, childVars>>

\* wait() returns once the child has exited.
Wait ==
  /\ parent = "wait" /\ child = "exited"
  /\ Return(IF code = VALID THEN "weight" ELSE "no weight")
  /\ UNCHANGED <<offset, offered, taken, writer, reader, valid, verifier, childVars>>

\* pipe, spawn, close or wait returns an error, which ends the call.
SyscallFails ==
  /\ \/ parent \in {"pipe", "spawn", "close read", "wait"}
     \/ parent = "write" /\ offset = REQUEST_LEN
  /\ Return("failure")
  /\ UNCHANGED <<offset, offered, taken, writer, reader, valid, verifier, childVars>>

Parent ==
  CreatePipe \/ Spawn \/ CloseRead \/ BeginWrite \/ WriteReturns \/ WriteFails
  \/ CloseWrite \/ Wait

(***************************************************************************)
(* The child.                                                              *)
(***************************************************************************)
\* How many bytes the child has read when its current step is over: the header,
\* the length the header declares, and one byte more that must not be there.
Goal == CASE child = "header" -> HEADER_LEN
          [] child = "body"   -> REQUEST_LEN
          [] child = "extra"  -> REQUEST_LEN + 1

\* A child that exits closes its descriptors.
ExitWith(c) ==
  /\ child' = "exited" /\ code' = c
  /\ reader' = IF reader = "child" THEN "nobody" ELSE reader

ContinueAt(step) == child' = step /\ UNCHANGED <<code, reader>>

\* A read takes some of the bytes on offer; read_exact repeats it until the goal
\* is reached.
ReadSome ==
  /\ child \in {"header", "body", "extra"} /\ reader = "child" /\ parent = "writing"
  /\ \E n \in 1..(Goal - got) :
       /\ n <= offered - taken
       /\ got' = got + n
       /\ taken' = taken + n
       /\ IF got + n < Goal THEN ContinueAt(child)
          ELSE CASE child = "header" -> ContinueAt("body")
                 [] child = "body"   -> ContinueAt("extra")
                 [] child = "extra"  -> ExitWith(Codes.extra)
  /\ UNCHANGED <<parentVars, offered, writer, valid, verifier, aborted>>

\* A read at the end of the stream, that is after the parent's close: too early in
\* the header or the body, and what the child waits for after them.
AfterEndOfStream ==
  IF child = "extra" THEN child' = "verify" /\ reader' = "nobody" /\ UNCHANGED code
                     ELSE ExitWith(IF child = "header" THEN Codes.no_header ELSE Codes.no_body)

ReadAtEnd ==
  /\ child \in {"header", "body", "extra"} /\ ~writer
  /\ AfterEndOfStream
  /\ UNCHANGED <<parentVars, offered, taken, writer, valid, verifier, got, aborted>>

Verify ==
  /\ child = "verify"
  /\ \E c \in (IF valid THEN {VALID} ELSE Codes.rejects) : ExitWith(c)
  /\ UNCHANGED <<parentVars, offered, taken, writer, valid, verifier, got, aborted>>

\* The child VM stops for another reason, such as a trap or a failing close.
Abort ==
  /\ child \in {"header", "body", "extra", "verify"}
  /\ aborted' = TRUE
  /\ ExitWith(INTERNAL_ERROR)
  /\ UNCHANGED <<parentVars, offered, taken, writer, valid, verifier, got>>

Child == ReadSome \/ ReadAtEnd \/ Verify

\* Both are over.  (A parent that fails ends the transaction, and with it a child
\* that still waits for the rest of its request.)
Finished ==
  /\ parent = "done"
  /\ UNCHANGED vars

Next == Parent \/ Child \/ SyscallFails \/ Abort \/ Finished

\* The scheduler resumes any VM that is not blocked; nothing has to fail.
Fairness == WF_vars(Parent) /\ WF_vars(Child)

Spec == Init /\ [][Next]_vars /\ Fairness
-----------------------------------------------------------------------------
(***************************************************************************)
(* Properties.                                                             *)
(***************************************************************************)
\* Types; the child is sent no byte beyond the request.
TypeOK ==
  /\ parent \in {"pipe", "spawn", "close read", "write", "writing", "wait", "done"}
  /\ result \in {"none", "weight", "no weight", "failure"}
  /\ offset \in 0..REQUEST_LEN
  /\ offered \in 0..REQUEST_LEN /\ taken \in 0..REQUEST_LEN
  /\ writer \in BOOLEAN
  /\ reader \in {"nobody", "parent", "child"}
  /\ child \in {"none", "header", "body", "extra", "verify", "exited"}
  /\ got \in 0..REQUEST_LEN
  /\ code \in {RUNNING, VALID, INTERNAL_ERROR} \cup
              {Codes.no_header, Codes.no_body, Codes.extra} \cup Codes.rejects
  /\ valid \in BOOLEAN /\ verifier \in Verifiers /\ aborted \in BOOLEAN

\* Weight is counted only for a proof the verifier accepted after it had read
\* every byte of the request and seen the end of the stream.
WeightOnlyForWholeRequest ==
  result = "weight" => valid /\ got = REQUEST_LEN /\ code = VALID /\ ~writer

\* A valid proof is never turned down by the transport: however writes and reads
\* are split, a call that the VMs complete counts it.
ValidProofCounts == result = "no weight" /\ ~aborted => ~valid

\* The two VMs never wait for each other: the call returns.
CallReturns == <>(parent = "done")
=============================================================================
