---------------------------- MODULE SeverityScorer ----------------------------
(***************************************************************************)
(* services/severity-scorer/main.py: the replicas that read                *)
(* bug.classified and bug.score.request, score the bug, write severity and *)
(* category to its row, log it and announce bug.scored.                    *)
(*                                                                         *)
(* start() runs one consumer task per subject concurrently (gather), and a *)
(* task handles one message at a time: a Scorer here is one such task.     *)
(* The model's verdict (model.py, features.py) is data nothing below       *)
(* depends on.                                                             *)
(***************************************************************************)
EXTENDS Platform

CONSTANTS Scorer,       \* consumer tasks
          TaskOf,       \* the consumer each task serves
          Inline        \* score requests that carry the bug's own fields

VARIABLE sw             \* what each task is doing

ASSUME ScorerAssumption ==
    /\ TaskOf \in [Scorer -> {"severity-scorer", "severity-scorer-direct"}]
    /\ Inline \subseteq Msg

ScorerStep ==
    [pc : {"fetch", "update", "record", "publish", "ack"}, msg : Msg, bug : Bug]

ScorerTypeOK == sw \in [Scorer -> {Idle} \cup ScorerStep]

ScorerInit == sw = [t \in Scorer |-> Idle]

ScorerGoes(t, from, to) ==
    sw[t].pc = from /\ sw' = [sw EXCEPT ![t].pc = to]

-----------------------------------------------------------------------------
ReceiveClassified(t, m) ==
    /\ sw[t].pc = "idle" /\ m.key \in Bug
    /\ Deliver(TaskOf[t], m)
    /\ sw' = [sw EXCEPT ![t] = [pc |-> "fetch", msg |-> m, bug |-> m.key]]
    /\ UNCHANGED <<storeVars, faults>>

(* The bug comes from the message, if it has a title, or from the table.   *)
HasBug(t) ==
    \/ TaskOf[t] = "severity-scorer-direct" /\ sw[t].msg \in Inline
    \/ t \notin Detached /\ sw[t].bug \in rows

(* Mutation of FetchBug: the message is acked as soon as it is read.       *)
AckedFirst(t) ==
    /\ ScorerGoes(t, "fetch", "update") /\ HasBug(t)
    /\ Ack(TaskOf[t], sw[t].msg)
    /\ UNCHANGED <<storeVars, faults>>

FetchBug(t) ==
    /\ ScorerGoes(t, "fetch", "update") /\ HasBug(t)
    /\ UNCHANGED <<streamVars, storeVars, faults>>

(* No such bug, or no database to look it up in: warned about and acked.   *)
SkipUnknown(t) ==
    /\ ScorerGoes(t, "fetch", "ack") /\ ~HasBug(t)
    /\ UNCHANGED <<streamVars, storeVars, faults>>

(* Mutation of WriteSeverity: nothing is logged.                           *)
WrittenNotLogged(t) ==
    /\ ScorerGoes(t, "update", "publish")
    /\ Sql(t, UpdateSeverity(sw[t].bug))
    /\ UNCHANGED <<streamVars, faults>>

WriteSeverity(t) ==
    /\ ScorerGoes(t, "update", "record")
    /\ Sql(t, UpdateSeverity(sw[t].bug))
    /\ UNCHANGED <<streamVars, faults>>

RecordScored(t) ==
    /\ ScorerGoes(t, "record", "publish")
    /\ Sql(t, Record(sw[t].bug, [action |-> "severity_scored"]))
    /\ UNCHANGED <<streamVars, faults>>

PublishScored(t) ==
    /\ ScorerGoes(t, "publish", "ack")
    /\ PublishAbout("bug.scored", sw[t].bug)
    /\ UNCHANGED <<storeVars, faults>>

AckClassified(t) ==
    /\ sw[t].pc = "ack"
    /\ Ack(TaskOf[t], sw[t].msg)
    /\ sw' = [sw EXCEPT ![t] = Idle]
    /\ UNCHANGED <<storeVars, faults>>

(* Mutation of RecordRefused: the message is given up.                     *)
RefusedAndAcked(t) ==
    /\ sw[t].pc = "record" /\ sw[t].bug \notin rows /\ t \notin Detached
    /\ Ack(TaskOf[t], sw[t].msg)
    /\ sw' = [sw EXCEPT ![t] = Idle]
    /\ UNCHANGED <<storeVars, faults>>

(* The activity's foreign key refuses a bug without a row (an inline score *)
(* request for an unknown bug): the exception is answered with a nak.      *)
RecordRefused(t) ==
    /\ sw[t].pc = "record" /\ sw[t].bug \notin rows /\ t \notin Detached
    /\ Requeue(TaskOf[t], sw[t].msg)
    /\ sw' = [sw EXCEPT ![t] = Idle]
    /\ UNCHANGED <<storeVars, faults>>

(* Mutation of ScorerRaises: the message is acked whatever happened.       *)
ScorerRaisedAndAcked(t) ==
    /\ sw[t].pc # "idle" /\ Fault
    /\ Ack(TaskOf[t], sw[t].msg)
    /\ sw' = [sw EXCEPT ![t] = Idle]
    /\ UNCHANGED storeVars

(* Any other call raises: nak.                                             *)
ScorerRaises(t) ==
    /\ sw[t].pc # "idle" /\ Fault
    /\ Requeue(TaskOf[t], sw[t].msg)
    /\ sw' = [sw EXCEPT ![t] = Idle]
    /\ UNCHANGED storeVars

ScorerRestarts(t) ==
    /\ sw[t].pc # "idle" /\ Fault
    /\ sw' = [sw EXCEPT ![t] = Idle]
    /\ UNCHANGED <<streamVars, storeVars>>

BeingScored(c, m) ==
    \E t \in Scorer : sw[t].pc # "idle" /\ TaskOf[t] = c /\ sw[t].msg = m

ClassifiedExpires(c, m) ==
    /\ ~BeingScored(c, m) /\ AckWaitOver(c, m)
    /\ UNCHANGED <<storeVars, sw, faults>>

ClassifiedLate(c, m) ==
    /\ BeingScored(c, m) /\ Fault /\ AckWaitOver(c, m)
    /\ UNCHANGED <<storeVars, sw>>

ScorerConsumer == {"severity-scorer", "severity-scorer-direct"}

ScorerWork(t) ==
    \/ \E m \in ready[TaskOf[t]] : ReceiveClassified(t, m)
    \/ FetchBug(t) \/ SkipUnknown(t) \/ WriteSeverity(t) \/ RecordScored(t)
    \/ RecordRefused(t) \/ PublishScored(t) \/ AckClassified(t)

ScorerFaults(t) == ScorerRaises(t) \/ ScorerRestarts(t)
=============================================================================
