-------------------------- MODULE RootCauseAnalyzer --------------------------
(***************************************************************************)
(* services/root-cause-analyzer/main.py: the replicas that read            *)
(* bug.scored, look for a root cause (LLM, then patterns, then a generic   *)
(* answer: some analysis always comes out), write it to the row, log it    *)
(* and announce bug.triaged.                                               *)
(*                                                                         *)
(* Where the analysis came from and what it says is data nothing below     *)
(* depends on; the LLM call (60 s) outlasting AckWait is AnalysisLate.     *)
(***************************************************************************)
EXTENDS Platform

CONSTANT Analyzer       \* analyzer replicas

VARIABLE rw             \* what each replica is doing

ASSUME AnalyzerAssumption == Analyzer # {}

Rca == "root-cause-analyzer"

AnalyzerStep ==
    [pc : {"analyze", "update", "record", "publish", "ack"},
     msg : Msg, bug : Bug]

AnalyzerTypeOK == rw \in [Analyzer -> {Idle} \cup AnalyzerStep]

AnalyzerInit == rw = [a \in Analyzer |-> Idle]

AnalyzerGoes(a, from, to) ==
    rw[a].pc = from /\ rw' = [rw EXCEPT ![a].pc = to]

-----------------------------------------------------------------------------
ReceiveScored(a, m) ==
    /\ rw[a].pc = "idle" /\ m.key \in Bug
    /\ Deliver(Rca, m)
    /\ rw' = [rw EXCEPT ![a] = [pc |-> "analyze", msg |-> m, bug |-> m.key]]
    /\ UNCHANGED <<storeVars, faults>>

(* get_bug (the event stands in for a missing row), the LLM, the patterns. *)
Analyze(a) ==
    /\ AnalyzerGoes(a, "analyze", "update")
    /\ UNCHANGED <<streamVars, storeVars, faults>>

WriteRootCause(a) ==
    /\ AnalyzerGoes(a, "update", "record")
    /\ Sql(a, UpdateRootCause(rw[a].bug))
    /\ UNCHANGED <<streamVars, faults>>

RecordAnalyzed(a) ==
    /\ AnalyzerGoes(a, "record", "publish")
    /\ Sql(a, Record(rw[a].bug, [action |-> "root_cause_analyzed"]))
    /\ UNCHANGED <<streamVars, faults>>

PublishTriaged(a) ==
    /\ AnalyzerGoes(a, "publish", "ack")
    /\ PublishAbout("bug.triaged", rw[a].bug)
    /\ UNCHANGED <<storeVars, faults>>

AckScored(a) ==
    /\ rw[a].pc = "ack"
    /\ Ack(Rca, rw[a].msg)
    /\ rw' = [rw EXCEPT ![a] = Idle]
    /\ UNCHANGED <<storeVars, faults>>

(* A call raises: start() naks.                                            *)
AnalyzerRaises(a) ==
    /\ rw[a].pc # "idle" /\ Fault
    /\ Requeue(Rca, rw[a].msg)
    /\ rw' = [rw EXCEPT ![a] = Idle]
    /\ UNCHANGED storeVars

AnalyzerRestarts(a) ==
    /\ rw[a].pc # "idle" /\ Fault
    /\ rw' = [rw EXCEPT ![a] = Idle]
    /\ UNCHANGED <<streamVars, storeVars>>

BeingAnalyzed(m) == \E a \in Analyzer : rw[a].pc # "idle" /\ rw[a].msg = m

ScoredExpires(m) ==
    /\ ~BeingAnalyzed(m) /\ AckWaitOver(Rca, m)
    /\ UNCHANGED <<storeVars, rw, faults>>

AnalysisLate(m) ==
    /\ BeingAnalyzed(m) /\ Fault /\ AckWaitOver(Rca, m)
    /\ UNCHANGED <<storeVars, rw>>

AnalyzerWork(a) ==
    \/ \E m \in ready[Rca] : ReceiveScored(a, m)
    \/ Analyze(a) \/ WriteRootCause(a) \/ RecordAnalyzed(a)
    \/ PublishTriaged(a) \/ AckScored(a)

AnalyzerFaults(a) == AnalyzerRaises(a) \/ AnalyzerRestarts(a)
=============================================================================
