------------------------------ MODULE JetStream ------------------------------
(***************************************************************************)
(* The part of NATS JetStream the services rely on: one stream (BUGS) that *)
(* keeps every message published on a subject, and durable queue-group     *)
(* consumers that hand each message to one of their members, wait for an   *)
(* explicit ack and hand it out again when the ack does not come.          *)
(*                                                                         *)
(* JetStream itself is not in the repository: this is the server as the    *)
(* services use it.  A message is named by its subject's key (a report or  *)
(* a bug) and a copy number, since the same event can be published twice.  *)
(***************************************************************************)
EXTENDS Naturals

CONSTANTS Key,          \* what messages are about: reports and bugs
          MaxCopy,      \* bound: copies of one event on one subject
          MaxDeliver    \* deliveries of a request before it is dropped

(* The subjects, and the durable queue groups that read them.              *)
Subject == {"bug.ingest.request", "bug.created", "bug.classified",
            "bug.deduplicated", "bug.score.request", "bug.scored", "bug.triaged"}

Consumer == {"ingestion-workers", "dedup-engine", "severity-scorer",
             "severity-scorer-direct", "root-cause-analyzer"}

Filter == [c \in Consumer |->
    CASE c = "ingestion-workers"      -> "bug.ingest.request"
      [] c = "dedup-engine"           -> "bug.created"
      [] c = "severity-scorer"        -> "bug.classified"
      [] c = "severity-scorer-direct" -> "bug.score.request"
      [] c = "root-cause-analyzer"    -> "bug.scored"]

(* Only the ingestion worker limits the deliveries of a message.           *)
Limited(c) == c = "ingestion-workers"

Msg == [key : Key, copy : 1..MaxCopy]

VARIABLES published,    \* the messages stored on each subject
          ready,        \* per consumer, messages waiting to be delivered
          unacked,      \* per consumer, messages delivered and not yet acked
          deliveries    \* per consumer, how often each message was delivered;
                        \* counted to 2 where no limit makes the number matter

streamVars == <<published, ready, unacked, deliveries>>

ASSUME StreamAssumption ==
    /\ MaxCopy \in Nat \ {0}
    /\ MaxDeliver \in Nat \ {0}

StreamTypeOK ==
    /\ published \in [Subject -> SUBSET Msg]
    /\ ready \in [Consumer -> SUBSET Msg]
    /\ unacked \in [Consumer -> SUBSET Msg]
    /\ deliveries \in [Consumer -> [Msg -> Nat]]

StreamInit ==
    /\ published = [s \in Subject |-> {}]
    /\ ready = [c \in Consumer |-> {}]
    /\ unacked = [c \in Consumer |-> {}]
    /\ deliveries = [c \in Consumer |-> [m \in Msg |-> 0]]

(* The keys announced on a subject, whatever the copy.                     *)
Published(s) == {m.key : m \in published[s]}

(* A message the consumer still owes an ack for.                           *)
Outstanding(c) == ready[c] \cup unacked[c]

(* The next copy of an event, when the key has been published before.      *)
Fresh(s, m) ==
    /\ m \in Msg
    /\ m \notin published[s]
    /\ \A n \in 1..(m.copy - 1) : [m EXCEPT !.copy = n] \in published[s]

(* js.publish: stored, and offered to every consumer of the subject.       *)
Publish(s, m) ==
    /\ Fresh(s, m)
    /\ published' = [published EXCEPT ![s] = @ \cup {m}]
    /\ ready' = [c \in Consumer |->
                    IF Filter[c] = s THEN ready[c] \cup {m} ELSE ready[c]]
    /\ UNCHANGED <<unacked, deliveries>>

OneMore(c, n) == IF Limited(c) \/ n < 2 THEN n + 1 ELSE n

(* One member of the group receives the message.                           *)
Deliver(c, m) ==
    /\ m \in ready[c]
    /\ ready' = [ready EXCEPT ![c] = @ \ {m}]
    /\ unacked' = [unacked EXCEPT ![c] = @ \cup {m}]
    /\ deliveries' = [deliveries EXCEPT ![c][m] = OneMore(c, @)]
    /\ UNCHANGED published

(* An ack names the message, so it counts whichever delivery it answers.   *)
Ack(c, m) ==
    /\ ready' = [ready EXCEPT ![c] = @ \ {m}]
    /\ unacked' = [unacked EXCEPT ![c] = @ \ {m}]
    /\ UNCHANGED <<published, deliveries>>

Spent(c, m) == Limited(c) /\ deliveries[c][m] >= MaxDeliver

(* A nak, or an AckWait that runs out: delivered again, unless the message *)
(* has had all its deliveries; then the consumer drops it.                 *)
Requeue(c, m) ==
    /\ unacked' = [unacked EXCEPT ![c] = @ \ {m}]
    /\ ready' = IF m \in unacked[c] /\ ~Spent(c, m)
                THEN [ready EXCEPT ![c] = @ \cup {m}]
                ELSE ready
    /\ UNCHANGED <<published, deliveries>>

(* A delivered message that is owed nothing more although it was never     *)
(* acked before its deliveries ran out.                                    *)
Exhausted(c, m) == m \notin Outstanding(c) /\ Spent(c, m)
=============================================================================
