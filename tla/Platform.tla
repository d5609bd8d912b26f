------------------------------- MODULE Platform -------------------------------
(***************************************************************************)
(* What the pipeline's services share: the stream, the database, and the   *)
(* faults that can hit any of them.                                        *)
(***************************************************************************)
EXTENDS JetStream, BugStore

CONSTANTS Report,       \* the report submissions
          ReportOf,     \* the submission a row id was made for
          Detached,     \* replicas that found no database when they started
          MaxFaults     \* bound: faults injected in one behaviour

VARIABLE faults         \* faults injected so far

platformVars == <<streamVars, storeVars, faults>>

ASSUME PlatformAssumption ==
    /\ Report \cup Bug \subseteq Key
    /\ Report \cap Bug = {}
    /\ ReportOf \in [Bug -> Report]
    /\ MaxFaults \in Nat

PlatformTypeOK == StreamTypeOK /\ StoreTypeOK /\ faults \in 0..MaxFaults

PlatformInit == StreamInit /\ StoreInit /\ faults = 0

(* A fault happens in this step, within the bound.                         *)
Fault == faults < MaxFaults /\ faults' = faults + 1

(* A statement run by replica p of a Python service.  One that started     *)
(* without a database has no pool: its repository skips every statement.   *)
Sql(p, statement) == IF p \in Detached THEN UNCHANGED storeVars ELSE statement

(* A worker that is handling no message.                                   *)
Idle == [pc |-> "idle"]

(* The event about b goes out on s, as one copy more.                      *)
PublishAbout(s, b) ==
    \E n \in 1..MaxCopy : Publish(s, [key |-> b, copy |-> n])

(* A report goes to the pipeline: the gateway's POST /bugs (which then     *)
(* tells the client 201 "submitted"), or the hub's create_bug.             *)
Request(r) == [key |-> r, copy |-> 1]

Submit(r) ==
    /\ Request(r) \notin published["bug.ingest.request"]
    /\ Publish("bug.ingest.request", Request(r))
    /\ UNCHANGED <<storeVars, faults>>

(* AckWait runs out for a message of consumer c.                           *)
AckWaitOver(c, m) == m \in unacked[c] /\ Requeue(c, m)
=============================================================================
