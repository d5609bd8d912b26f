----------------------------- MODULE AuthManager -----------------------------
(***************************************************************************)
(* plugins/vscode/src/auth.ts: the extension's session, of which getToken  *)
(* hands out access tokens, as concurrent calls of it, a timer and the     *)
(* logout command change it between their awaits.                          *)
(*                                                                         *)
(* A session is the number of its token set; SecretStorage may hold the    *)
(* first from an earlier installation. Requests to the storage take effect *)
(* in the order they are made, and their callers hear of it later. What it *)
(* refuses it leaves as it was, and the caller hears a rejection later.    *)
(* login waits for the callback before it opens the browser page that      *)
(* leads to it, so what comes after (exchangeCode) is never reached.       *)
(* The setting auth.devToken, which bypasses all of this, is not set.      *)
(***************************************************************************)
EXTENDS Naturals, FiniteSets

CONSTANTS Task,        \* what can be under way at once: calls, commands, the timer's
          MaxSessions  \* bound: token sets the provider issues, and the stored one

None == 0
Session == 0..MaxSessions

ASSUME AuthAssumption == MaxSessions \in Nat \ {0}

VARIABLES tokenSet,    \* this.tokenSet
          stored,      \* what SecretStorage holds
          renewable,   \* the sessions with a refresh token
          life,        \* how near each session's expiry is
          refreshTimer,\* a refresh is scheduled
          issued,      \* the sessions so far
          task,
          overtaken,   \* history: the last change of tokenSet was a load of what
                       \* was no longer stored
          refused,     \* history: ... was a refresh whose session was not stored
          signedOut,   \* history: the last logout deleted what was stored, and
                       \* nothing begun before it undid it
          leftover     \* history: the tasks begun before it that may

historyVars == <<overtaken, refused, signedOut, leftover>>
authVars == <<tokenSet, stored, renewable, life, refreshTimer, issued, task, historyVars>>

(* valid: more than 60 s to go; due: less; over: expired.                  *)
Life == {"valid", "due", "over"}

(* what: who runs the task; got: the answer of the storage under way. A    *)
(* call of getToken is idle again when it returned a token or threw. In    *)
(* unsaved and undeleted the rejection by the storage is under way.        *)
AuthTask == [pc : {"idle", "load", "refresh", "save", "unsaved", "callback",
                   "delete", "undeleted"},
             what : {"getToken", "login", "logout", "timer"}, got : Session]

Idle == [pc |-> "idle", what |-> "getToken", got |-> None]

AuthTypeOK ==
    /\ tokenSet \in Session /\ stored \in Session
    /\ renewable \in SUBSET Session /\ life \in [Session -> Life]
    /\ refreshTimer \in BOOLEAN
    /\ issued \in 1..MaxSessions
    /\ task \in [Task -> AuthTask]
    /\ overtaken \in BOOLEAN /\ refused \in BOOLEAN /\ signedOut \in BOOLEAN
    /\ leftover \in SUBSET Task

AuthInit ==
    /\ tokenSet = None /\ stored \in {None, 1}
    /\ renewable \in {(1..MaxSessions), (2..MaxSessions)}
    /\ \E l \in Life : life = [s \in Session |-> IF s = 1 THEN l ELSE "valid"]
    /\ refreshTimer = FALSE /\ issued = 1
    /\ task = [t \in Task |-> Idle]
    /\ overtaken = FALSE /\ refused = FALSE /\ signedOut = FALSE /\ leftover = {}

Goes(t, pc) == task' = [task EXCEPT ![t].pc = pc, ![t].got = None]
Ends(t) == task' = [task EXCEPT ![t] = Idle]

sessionVars == <<tokenSet, stored, issued>>

(* A task brings a session. One begun before a logout undoes it.           *)
Brings(t) ==
    /\ signedOut' = (signedOut /\ t \notin leftover)
    /\ leftover' = leftover \ {t}

Carries(t) == task[t].pc = "refresh" \/ (task[t].pc = "load" /\ task[t].got # None)

-----------------------------------------------------------------------------
(* getToken once a session is loaded, or is found missing.                 *)
Check(t, s) ==
    IF s # None /\ life[s] = "valid" THEN Ends(t)
    ELSE IF s \in renewable THEN Goes(t, "refresh")
    ELSE Goes(t, "callback")

Begin(t, what, pc, got) ==
    /\ task[t].pc = "idle"
    /\ task' = [task EXCEPT ![t] = [pc |-> pc, what |-> what, got |-> got]]

GetToken(t) ==
    /\ \/ tokenSet = None /\ Begin(t, "getToken", "load", stored)
       \/ /\ tokenSet # None /\ task[t].pc = "idle"
          /\ Check(t, tokenSet)
    /\ UNCHANGED <<sessionVars, renewable, life, refreshTimer, historyVars>>

(* loadTokens has its answer. A session that has not expired is scheduled. *)
LoadAnswers(t) ==
    LET s == IF task[t].got = None THEN tokenSet ELSE task[t].got
    IN  /\ task[t].pc = "load"
        /\ tokenSet' = s
        /\ refreshTimer' = (refreshTimer \/ (task[t].got # None /\ life[s] # "over"))
        /\ IF task[t].got = None THEN UNCHANGED historyVars
           ELSE Brings(t) /\ overtaken' = (s # stored) /\ refused' = FALSE
        /\ Check(t, s)
        /\ UNCHANGED <<stored, issued, renewable, life>>

(* ... or is not answered but refused, at which getToken throws.           *)
LoadFails(t) ==
    /\ task[t].pc = "load"
    /\ Ends(t)
    /\ leftover' = leftover \ {t}
    /\ UNCHANGED <<sessionVars, renewable, life, refreshTimer,
                   overtaken, refused, signedOut>>

(* Mutation of RefreshAnswers: the new session is not saved.               *)
RefreshUnsaved(t) ==
    /\ task[t].pc = "refresh" /\ issued < MaxSessions
    /\ issued' = issued + 1 /\ tokenSet' = issued' /\ UNCHANGED stored
    /\ Goes(t, "save") /\ Brings(t) /\ overtaken' = FALSE /\ refused' = FALSE
    /\ UNCHANGED <<renewable, life, refreshTimer>>

(* refreshTokens has its answer: a new session, which is kept and then     *)
(* given to the storage, which takes it or not.                            *)
RefreshAnswers(t) ==
    /\ task[t].pc = "refresh" /\ issued < MaxSessions
    /\ issued' = issued + 1 /\ tokenSet' = issued'
    /\ \/ stored' = issued' /\ refused' = FALSE /\ Goes(t, "save")
       \/ stored' = stored /\ refused' = TRUE /\ Goes(t, "unsaved")
    /\ Brings(t) /\ overtaken' = FALSE
    /\ UNCHANGED <<renewable, life, refreshTimer>>

(* ... or fails, also because the session is gone whose refresh token the  *)
(* answer does not repeat. getToken goes on to log in, the timer warns.    *)
RefreshFails(t) ==
    /\ task[t].pc = "refresh"
    /\ IF task[t].what = "timer" THEN Ends(t) ELSE Goes(t, "callback")
    /\ leftover' = leftover \ {t}
    /\ UNCHANGED <<sessionVars, renewable, life, refreshTimer,
                   overtaken, refused, signedOut>>

(* saveTokens has stored it: scheduleRefresh, unless a logout took the     *)
(* session away, at which getToken throws and goes on to log in.           *)
Saved(t) ==
    /\ task[t].pc = "save"
    /\ refreshTimer' = (refreshTimer \/ tokenSet # None)
    /\ IF task[t].what = "getToken" /\ tokenSet = None THEN Goes(t, "callback")
                                                       ELSE Ends(t)
    /\ UNCHANGED <<sessionVars, renewable, life, historyVars>>

(* saveTokens rejects: nothing is scheduled, the timer's task warns, and   *)
(* getToken goes on to log in, with the new session held.                  *)
SaveRejected(t) ==
    /\ task[t].pc = "unsaved"
    /\ IF task[t].what = "timer" THEN Ends(t) ELSE Goes(t, "callback")
    /\ UNCHANGED <<sessionVars, renewable, life, refreshTimer, historyVars>>

(* The command ebug.login.                                                 *)
Login(t) ==
    /\ Begin(t, "login", "callback", None)
    /\ UNCHANGED <<sessionVars, renewable, life, refreshTimer, historyVars>>

(* Mutation of CallbackFails: no timeout, and a stray request is ignored.  *)
CallbackWaits(t) == task[t].pc = "callback" /\ UNCHANGED authVars

(* waitForCallback ends after five minutes, or at a request to its port,   *)
(* which cannot have the state that nobody was told.                       *)
CallbackFails(t) ==
    /\ task[t].pc = "callback"
    /\ Ends(t)
    /\ UNCHANGED <<sessionVars, renewable, life, refreshTimer, historyVars>>

(* Mutation of Logout: the stored session stays.                           *)
LogoutHere(t) ==
    /\ Begin(t, "logout", "delete", None)
    /\ tokenSet' = None
    /\ signedOut' = TRUE /\ leftover' = {u \in Task : Carries(u)}
    /\ overtaken' = FALSE /\ refused' = FALSE
    /\ UNCHANGED <<stored, issued, renewable, life, refreshTimer>>

(* The command ebug.logout, up to the deletion, which the storage carries  *)
(* out or refuses ...                                                      *)
Logout(t) ==
    /\ tokenSet' = None
    /\ \/ /\ Begin(t, "logout", "delete", None)
          /\ stored' = None /\ signedOut' = TRUE
       \/ /\ Begin(t, "logout", "undeleted", None)
          /\ stored' = stored /\ signedOut' = FALSE
    /\ leftover' = {u \in Task : Carries(u)} /\ overtaken' = FALSE /\ refused' = FALSE
    /\ UNCHANGED <<issued, renewable, life, refreshTimer>>

(* ... and once it has: the timer is cleared, if it did not reject.        *)
Deleted(t) ==
    /\ task[t].pc = "delete"
    /\ refreshTimer' = FALSE
    /\ Ends(t)
    /\ UNCHANGED <<sessionVars, renewable, life, historyVars>>

DeleteRejected(t) ==
    /\ task[t].pc = "undeleted"
    /\ Ends(t)
    /\ UNCHANGED <<sessionVars, renewable, life, refreshTimer, historyVars>>

(* The timer: without a refresh token it only warns.                       *)
TimerFires(t) ==
    /\ refreshTimer /\ refreshTimer' = FALSE
    /\ \/ tokenSet \in renewable /\ Begin(t, "timer", "refresh", None)
       \/ tokenSet \notin renewable /\ UNCHANGED task
    /\ UNCHANGED <<sessionVars, renewable, life, historyVars>>

Age(s) ==
    /\ s \in {tokenSet, stored} \ {None} /\ life[s] # "over"
    /\ life' = [life EXCEPT ![s] = IF @ = "valid" THEN "due" ELSE "over"]
    /\ UNCHANGED <<sessionVars, renewable, refreshTimer, task, historyVars>>

(* The editor is closed and started again: what is stored is left.         *)
Restart ==
    /\ tokenSet' = None /\ refreshTimer' = FALSE
    /\ task' = [t \in Task |-> Idle] /\ leftover' = {}
    /\ overtaken' = FALSE /\ refused' = FALSE
    /\ UNCHANGED <<stored, issued, renewable, life, signedOut>>

Continues(t) ==
    \/ LoadAnswers(t) \/ LoadFails(t)
    \/ RefreshAnswers(t) \/ RefreshFails(t) \/ Saved(t) \/ SaveRejected(t)
    \/ CallbackFails(t) \/ Deleted(t) \/ DeleteRejected(t)

AuthNext ==
    \/ \E t \in Task : GetToken(t) \/ Login(t) \/ Logout(t) \/ TimerFires(t) \/ Continues(t)
    \/ \E s \in Session : Age(s)
    \/ Restart

AuthSpec == AuthInit /\ [][AuthNext]_authVars

(* Storage, provider and timers answer, one way or the other.              *)
LiveAuthSpec == AuthSpec /\ \A t \in Task : WF_authVars(Continues(t))

-----------------------------------------------------------------------------
(* The session that is held is the one that a restart would load, through  *)
(* refreshes of several tasks, logouts and restarts in any order, unless   *)
(* the last change was a load, answered with what was since replaced, or a *)
(* refresh whose session the storage refused: then a restart would load an *)
(* older session, or none, and never one that replaced the one held.       *)
HeldIsStored ==
    tokenSet \in {None, stored} \/ overtaken \/ (refused /\ stored < tokenSet)

(* After a logout whose deletion the storage carried out there is no       *)
(* session, also after a restart, unless a task that was loading or        *)
(* refreshing one when the user logged out brings it back.                 *)
SignedOutStaysOut == signedOut => tokenSet = None /\ stored = None

(* Every call of getToken and every command ends, whoever else loads,      *)
(* refreshes, logs in or out in the meantime.                              *)
CallsAnswered == \A t \in Task : task[t].pc # "idle" ~> task[t].pc = "idle"
=============================================================================
