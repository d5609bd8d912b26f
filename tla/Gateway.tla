-------------------------------- MODULE Gateway --------------------------------
(***************************************************************************)
(* services/api-gateway/src/server.ts: the handlers that change state.     *)
(*                                                                         *)
(* A transition is three statements without a transaction (SELECT the      *)
(* status, UPDATE it, INSERT the activity) and a PATCH is two, so the      *)
(* handlers of two requests, and the pipeline's own updates, interleave    *)
(* between them.  ReadApi has the endpoints that only read.                *)
(***************************************************************************)
EXTENDS Platform

CONSTANTS Handler,      \* requests that can be in progress at once
          Asked,        \* statuses the users ask for
          Unconnected,  \* submissions to a replica that has no NATS connection
          MaxRequests   \* bound: transitions and edits in one behaviour

VARIABLES gw,           \* what each handler is doing
          requests,     \* requests accepted so far
          resolvedAt    \* resolved_at IS NOT NULL

gatewayVars == <<gw, requests, resolvedAt>>

ASSUME GatewayAssumption == /\ Asked \subseteq Status
                             /\ Unconnected \subseteq Report
                             /\ MaxRequests \in Nat

GatewayStep ==
    [pc : {"select", "update", "log", "patch", "note"}, bug : Bug,
     old : Status, new : Status]

GatewayTypeOK ==
    /\ gw \in [Handler -> {Idle} \cup GatewayStep]
    /\ requests \in 0..MaxRequests
    /\ resolvedAt \in [Bug -> BOOLEAN]

GatewayInit ==
    /\ gw = [h \in Handler |-> Idle]
    /\ requests = 0
    /\ resolvedAt = [b \in Bug |-> FALSE]

-----------------------------------------------------------------------------
(* POST /bugs on a replica whose initNats failed: the row is inserted      *)
(* directly, under an external id drawn from the clock, and the client is  *)
(* told 201 "submitted" as well; no event is published.                    *)
CreateDirect(r) ==
    /\ r \in Unconnected /\ \A b \in rows : ReportOf[b] # r
    /\ \E b \in Bug, x \in ExtId : ReportOf[b] = r /\ InsertBug(b, x)
    /\ UNCHANGED <<streamVars, gatewayVars, faults>>

(* POST /bugs/:id/transition with one of the valid statuses.               *)
RequestTransition(h, b, new) ==
    /\ gw[h].pc = "idle" /\ requests < MaxRequests
    /\ requests' = requests + 1
    /\ gw' = [gw EXCEPT ![h] =
                [pc |-> "select", bug |-> b, old |-> "open", new |-> new]]
    /\ UNCHANGED <<platformVars, resolvedAt>>

(* SELECT status: remembered as the old status.                            *)
SelectStatus(h) ==
    /\ gw[h].pc = "select" /\ gw[h].bug \in rows
    /\ gw' = [gw EXCEPT ![h].pc = "update", ![h].old = status[gw[h].bug]]
    /\ UNCHANGED <<platformVars, requests, resolvedAt>>

(* 404: no such bug.                                                       *)
TransitionUnknown(h) ==
    /\ gw[h].pc = "select" /\ gw[h].bug \notin rows
    /\ gw' = [gw EXCEPT ![h] = Idle]
    /\ UNCHANGED <<platformVars, requests, resolvedAt>>

UpdateStatus(h) ==
    /\ gw[h].pc = "update"
    /\ SetStatus(gw[h].bug, gw[h].new)
    /\ resolvedAt' = IF gw[h].new = "resolved"
                     THEN Column(resolvedAt, gw[h].bug, TRUE) ELSE resolvedAt
    /\ gw' = [gw EXCEPT ![h].pc = "log"]
    /\ UNCHANGED <<streamVars, requests, faults>>

LogTransition(h) ==
    /\ gw[h].pc = "log"
    /\ Record(gw[h].bug, [action |-> "status_change",
                          old |-> gw[h].old, new |-> gw[h].new])
    /\ gw' = [gw EXCEPT ![h] = Idle]
    /\ UNCHANGED <<streamVars, requests, resolvedAt, faults>>

(* A query fails, or the gateway dies: what was done stays done.           *)
TransitionFails(h) ==
    /\ gw[h].pc # "idle" /\ Fault
    /\ gw' = [gw EXCEPT ![h] = Idle]
    /\ UNCHANGED <<streamVars, storeVars, requests, resolvedAt>>

Transition(h) ==
    \/ \E b \in Bug, new \in Asked : RequestTransition(h, b, new)
    \/ SelectStatus(h) \/ TransitionUnknown(h) \/ UpdateStatus(h)
    \/ LogTransition(h) \/ TransitionFails(h)

-----------------------------------------------------------------------------
(* PATCH /bugs/:id with a field it may set (else 400).                     *)
RequestPatch(h, b) ==
    /\ gw[h].pc = "idle" /\ requests < MaxRequests
    /\ requests' = requests + 1
    /\ gw' = [gw EXCEPT ![h] =
                [pc |-> "patch", bug |-> b, old |-> "open", new |-> "open"]]
    /\ UNCHANGED <<platformVars, resolvedAt>>

(* UPDATE of columns not kept here; without the row, 404.                  *)
UpdateFields(h) ==
    /\ gw[h].pc = "patch"
    /\ gw' = IF gw[h].bug \in rows THEN [gw EXCEPT ![h].pc = "note"]
                                    ELSE [gw EXCEPT ![h] = Idle]
    /\ UNCHANGED <<platformVars, requests, resolvedAt>>

NoteUpdate(h) ==
    /\ gw[h].pc = "note"
    /\ Record(gw[h].bug, [action |-> "updated"])
    /\ gw' = [gw EXCEPT ![h] = Idle]
    /\ UNCHANGED <<streamVars, requests, resolvedAt, faults>>

Patch(h) ==
    \/ \E b \in Bug : RequestPatch(h, b)
    \/ UpdateFields(h) \/ NoteUpdate(h)
=============================================================================
