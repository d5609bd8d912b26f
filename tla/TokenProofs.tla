----------------------------- MODULE TokenProofs -----------------------------
(***************************************************************************)
(* Tokens, at both ends.  TokenVerification's two promises hold for any    *)
(* number of requests, keys and failing fetches. They follow from what a   *)
(* request under way knows of its key: an answer has it if it was          *)
(* published throughout, and only if it was published at some moment.      *)
(* AuthManager's hold for any number of calls, commands and timers: they   *)
(* follow from who may still bring a session after a logout.               *)
(***************************************************************************)
EXTENDS TokenVerification, AuthManager, TLAPS

(* What is so of the key of a request that waits for keys.                 *)
KeyKnown(q) ==
    /\ q.stage \in 1..3
    /\ q.steady => q.kid \in published
    /\ q.kid \in published => q.seen
    /\ q.pc = "answered" => /\ q.steady => q.kid \in q.keys
                            /\ q.kid \in q.keys => q.seen

(* What is so of a request that is decided.                                *)
Justified(q) ==
    /\ q.pc = "refused" /\ q.signed /\ q.steady => q.failed
    /\ q.pc = "served" => q.signed /\ (q.seen \/ q.vouched \/ q.failed)

TokenInv ==
    /\ TokenTypeOK
    /\ \A r \in Caller : IF Pending(call[r]) THEN KeyKnown(call[r]) ELSE Justified(call[r])

(* What holds of a request holds of it still when only it was replaced.    *)
LEMMA OneCall ==
    ASSUME TokenInv, NEW r \in Caller, NEW q \in Call, published' = published,
           call' = [call EXCEPT ![r] = q],
           IF Pending(q) THEN KeyKnown(q) ELSE Justified(q),
           devMode' \in BOOLEAN, jwksCache' \in Cached \cup {NoCache},
           faults' \in 0..MaxFaults
    PROVE  TokenInv'
<1>1. TokenTypeOK'
  BY DEF TokenInv, TokenTypeOK
<1>2. ASSUME NEW h \in Caller
      PROVE  (IF Pending(call[h]) THEN KeyKnown(call[h]) ELSE Justified(call[h]))'
  <2>1. CASE h = r
    <3>1. call'[h] = q
      BY <2>1 DEF TokenInv, TokenTypeOK
    <3>2. QED
      BY <3>1 DEF Pending, KeyKnown, Justified
  <2>2. CASE h # r
    <3>1. call'[h] = call[h]
      BY <2>2 DEF TokenInv, TokenTypeOK
    <3>2. IF Pending(call[h]) THEN KeyKnown(call[h]) ELSE Justified(call[h])
      BY DEF TokenInv
    <3>3. QED
      BY <3>1, <3>2 DEF Pending, KeyKnown, Justified
  <2>3. QED
    BY <2>1, <2>2
<1>3. QED
  BY <1>1, <1>2 DEF TokenInv

(* A request that resumes either asks again or is decided, and what it     *)
(* knows of its key carries over: if the keys c has show that the key was  *)
(* published, or the history excuses that they do not.                     *)
LEMMA ResumeKeeps ==
    ASSUME TokenInv, NEW r \in Caller, NEW q \in Call, NEW c \in Cached,
           Resume(r, q, c), Pending(q),
           UNCHANGED <<devMode, published>>, faults' \in 0..MaxFaults,
           q.stage \in 1..3, q.steady => q.kid \in published,
           q.kid \in published => q.seen,
           q.kid \in c.keys => q.seen \/ q.vouched \/ q.failed,
           q.kid \notin c.keys => ~q.steady \/ q.failed \/ q.stage = 1
    PROVE  TokenInv'
<1> DEFINE known == q.kid \in c.keys
           again == IF known THEN q.stage = 2 /\ ~c.fresh ELSE q.stage = 1
           next == IF again THEN Ask(q) ELSE Finish(q, known)
<1>1. jwksCache' \in Cached \cup {NoCache}
  BY DEF Resume
<1>2. next \in Call
  <2>1. CASE again
    <3>1. next = Ask(q) /\ q.stage + 1 \in 0..3
      BY <2>1
    <3>2. Ask(q) \in Call
      BY <3>1 DEF Ask, Call
    <3>3. QED
      BY <3>1, <3>2
  <2>2. CASE ~again
    <3>1. next = Finish(q, known)
      BY <2>2
    <3>2. Finish(q, known) \in Call
      BY DEF Finish, Call
    <3>3. QED
      BY <3>1, <3>2
  <2>3. QED
    BY <2>1, <2>2
<1>3. IF Pending(next) THEN KeyKnown(next) ELSE Justified(next)
  <2>1. CASE again
    <3>1. next = Ask(q) /\ q.stage \in 1..2
      BY <2>1
    <3>2. /\ next.pc = "asked" /\ next.stage = q.stage + 1
          /\ next.kid = q.kid /\ next.steady = q.steady /\ next.seen = q.seen
      BY <3>1 DEF Ask, Call
    <3>3. QED
      BY <3>1, <3>2 DEF Pending, KeyKnown
  <2>2. CASE ~again
    <3>1. next = Finish(q, known)
      BY <2>2
    <3>2. /\ next.pc = IF known /\ q.signed THEN "served" ELSE "refused"
          /\ next.signed = q.signed /\ next.steady = q.steady /\ next.seen = q.seen
          /\ next.vouched = q.vouched /\ next.failed = q.failed
      BY <3>1 DEF Finish, Call
    <3>3. known \/ ~q.steady \/ q.failed
      BY <2>2
    <3>4. QED
      BY <3>2, <3>3 DEF Pending, Justified
  <2>3. QED
    BY <2>1, <2>2
<1>4. call' = [call EXCEPT ![r] = next]
  BY DEF Resume
<1>5. devMode' \in BOOLEAN /\ published' = published
  BY DEF TokenInv, TokenTypeOK
<1> HIDE DEF next
<1>6. QED
  BY <1>1, <1>2, <1>3, <1>4, <1>5, OneCall

LEMMA TokenInitInv == TokenInit => TokenInv
<1> SUFFICES ASSUME TokenInit PROVE TokenInv
  OBVIOUS
<1> USE TokenAssumption
<1>1. (CHOOSE k \in Key : TRUE) \in Key
  OBVIOUS
<1>2. Decided("idle") \in Call
  BY <1>1 DEF Decided, Call
<1>3. TokenTypeOK
  BY <1>2 DEF TokenInit, TokenTypeOK
<1>4. \A r \in Caller : call[r].pc = "idle"
  BY DEF TokenInit, Decided
<1>5. QED
  BY <1>3, <1>4 DEF TokenInv, Pending, Justified

LEMMA TokenStep == TokenInv /\ [TokenNext]_vars => TokenInv'
<1> SUFFICES ASSUME TokenInv, [TokenNext]_vars PROVE TokenInv'
  OBVIOUS
<1> USE TokenAssumption
<1>ty. TokenTypeOK
  BY DEF TokenInv
<1>1. ASSUME NEW r \in Caller, NEW dev \in BOOLEAN, Unsigned(r, dev) PROVE TokenInv'
  <2> DEFINE q == Decided(IF dev /\ devMode THEN "served" ELSE "refused")
  <2>1. (CHOOSE k \in Key : TRUE) \in Key
    OBVIOUS
  <2>2. q \in Call
    BY <2>1 DEF Decided, Call
  <2>3. q.pc \in {"served", "refused"} /\ q.signed /\ ~q.steady /\ q.seen
    BY DEF Decided
  <2>4. IF Pending(q) THEN KeyKnown(q) ELSE Justified(q)
    BY <2>3 DEF Pending, Justified
  <2>5. /\ call' = [call EXCEPT ![r] = q]
        /\ UNCHANGED <<devMode, published, jwksCache, faults>>
    BY <1>1 DEF Unsigned
  <2> HIDE DEF q
  <2>6. QED
    BY <1>ty, <2>2, <2>4, <2>5, OneCall DEF TokenTypeOK
<1>2. ASSUME NEW r \in Caller, NEW kid \in Key, NEW signed \in BOOLEAN,
             Verify(r, kid, signed)
      PROVE  TokenInv'
  <2> DEFINE q == Arrived(kid, signed)
  <2>1. FreshCache \in BOOLEAN /\ (FreshCache => jwksCache \in Cached)
    BY <1>ty DEF FreshCache, TokenTypeOK, Cached
  <2>2. q \in Call
    BY <1>ty, <2>1 DEF Arrived, Call, TokenTypeOK
  <2>3. /\ q.pc = "asked" /\ q.stage = 1 /\ q.kid = kid
        /\ q.steady <=> kid \in published
        /\ q.seen <=> kid \in published
        /\ q.vouched <=> FreshCache /\ kid \in jwksCache.keys
    BY DEF Arrived
  <2>4. UNCHANGED <<devMode, published, faults>>
    BY <1>2 DEF Verify
  <2> HIDE DEF q
  <2>5. Pending(q) /\ KeyKnown(q)
    BY <2>3 DEF Pending, KeyKnown
  <2>6. CASE FreshCache /\ Resume(r, q, jwksCache)
    BY <1>ty, <2>1, <2>2, <2>3, <2>4, <2>5, <2>6, ResumeKeeps DEF TokenTypeOK
  <2>7. CASE call' = [call EXCEPT ![r] = q] /\ UNCHANGED jwksCache
    BY <1>ty, <2>2, <2>4, <2>5, <2>7, OneCall DEF TokenTypeOK
  <2>8. QED
    BY <1>2, <2>6, <2>7 DEF Verify, q
<1>3. ASSUME NEW r \in Caller, Answer(r) PROVE TokenInv'
  <2> DEFINE q == [call[r] EXCEPT !.pc = "answered", !.keys = published]
  <2>1. call[r] \in Call /\ published \in SUBSET Key
    BY <1>ty DEF TokenTypeOK
  <2>2. Pending(call[r])
    BY <1>3 DEF Answer, Pending
  <2>3. KeyKnown(call[r])
    BY <2>2 DEF TokenInv
  <2>4. q \in Call
    BY <2>1 DEF Call
  <2>5. /\ q.pc = "answered" /\ q.keys = published /\ q.stage = call[r].stage
        /\ q.kid = call[r].kid /\ q.steady = call[r].steady /\ q.seen = call[r].seen
    BY <2>1 DEF Call
  <2>6. Pending(q) /\ KeyKnown(q)
    BY <2>3, <2>5 DEF Pending, KeyKnown
  <2>7. /\ call' = [call EXCEPT ![r] = q]
        /\ UNCHANGED <<devMode, published, jwksCache, faults>>
    BY <1>3, <2>1 DEF Answer
  <2> HIDE DEF q
  <2>8. QED
    BY <1>ty, <2>4, <2>6, <2>7, OneCall DEF TokenTypeOK
<1>4. ASSUME NEW r \in Caller, Arrive(r) PROVE TokenInv'
  <2> DEFINE c == [keys |-> call[r].keys, fresh |-> TRUE]
  <2>1. call[r] \in Call /\ Pending(call[r]) /\ call[r].pc = "answered"
    BY <1>4, <1>ty DEF Arrive, Pending, TokenTypeOK
  <2>2. KeyKnown(call[r])
    BY <2>1 DEF TokenInv
  <2>3. c \in Cached
    BY <2>1 DEF Call, Cached
  <2>4. c.keys = call[r].keys
    OBVIOUS
  <2>5. Resume(r, call[r], c) /\ UNCHANGED <<devMode, published, faults>>
    BY <1>4 DEF Arrive
  <2> HIDE DEF c
  <2>6. /\ call[r].kid \in c.keys => call[r].seen
        /\ call[r].kid \notin c.keys => ~call[r].steady
        /\ call[r].stage \in 1..3 /\ (call[r].steady => call[r].kid \in published)
        /\ call[r].kid \in published => call[r].seen
    BY <2>1, <2>2, <2>4 DEF KeyKnown
  <2>7. QED
    BY <1>ty, <2>1, <2>3, <2>5, <2>6, ResumeKeeps DEF TokenTypeOK
<1>5. ASSUME NEW r \in Caller, FetchFails(r) PROVE TokenInv'
  <2> DEFINE q == [call[r] EXCEPT !.failed = TRUE]
  <2>1. call[r] \in Call /\ Pending(call[r])
    BY <1>5, <1>ty DEF FetchFails, TokenTypeOK
  <2>2. KeyKnown(call[r])
    BY <2>1 DEF TokenInv
  <2>3. q \in Call
    BY <2>1 DEF Call
  <2>4. /\ q.pc = call[r].pc /\ q.stage = call[r].stage /\ q.kid = call[r].kid
        /\ q.steady = call[r].steady /\ q.seen = call[r].seen /\ q.failed
    BY <2>1 DEF Call
  <2>5. /\ Pending(q) /\ q.stage \in 1..3 /\ (q.steady => q.kid \in published)
        /\ q.kid \in published => q.seen
    BY <2>1, <2>2, <2>4 DEF Pending, KeyKnown
  <2>6. faults' \in 0..MaxFaults /\ UNCHANGED <<devMode, published>>
    BY <1>5, <1>ty DEF FetchFails, TokenTypeOK
  <2>7. \/ jwksCache # NoCache /\ Resume(r, q, jwksCache)
        \/ call' = [call EXCEPT ![r] = Finish(q, FALSE)] /\ UNCHANGED jwksCache
    BY <1>5 DEF FetchFails
  <2> HIDE DEF q
  <2>8. CASE jwksCache # NoCache /\ Resume(r, q, jwksCache)
    BY <1>ty, <2>3, <2>4, <2>5, <2>6, <2>8, ResumeKeeps DEF TokenTypeOK
  <2>9. CASE call' = [call EXCEPT ![r] = Finish(q, FALSE)] /\ UNCHANGED jwksCache
    <3>1. Finish(q, FALSE) \in Call
      BY <2>3 DEF Finish, Call
    <3>2. Finish(q, FALSE).pc = "refused" /\ Finish(q, FALSE).failed
      BY <2>3, <2>4 DEF Finish, Call
    <3>3. IF Pending(Finish(q, FALSE)) THEN KeyKnown(Finish(q, FALSE))
                                       ELSE Justified(Finish(q, FALSE))
      BY <3>2 DEF Pending, Justified
    <3>4. QED
      BY <1>ty, <2>6, <2>9, <3>1, <3>3, OneCall DEF TokenTypeOK
  <2>10. QED
    BY <2>7, <2>8, <2>9
<1>6. ASSUME Expire PROVE TokenInv'
  <2>1. jwksCache' \in Cached
    BY <1>6, <1>ty DEF Expire, TokenTypeOK, Cached
  <2>2. UNCHANGED <<devMode, published, call, faults>>
    BY <1>6 DEF Expire
  <2>3. QED
    BY <1>ty, <2>1, <2>2 DEF TokenInv, TokenTypeOK, Pending, KeyKnown, Justified
<1>7. ASSUME NEW keys \in SUBSET Key, Rotate(keys) PROVE TokenInv'
  <2>1. ASSUME NEW r \in Caller, Pending(call[r])
        PROVE  call'[r] \in Call /\ Pending(call'[r]) /\ KeyKnown(call[r])'
    <3>1. call[r] \in Call /\ KeyKnown(call[r])
      BY <1>ty, <2>1 DEF TokenInv, TokenTypeOK
    <3>2. call'[r] = [call[r] EXCEPT !.steady = @ /\ call[r].kid \in keys,
                                     !.seen = @ \/ call[r].kid \in keys]
      BY <1>7, <2>1 DEF Rotate
    <3>3. /\ call'[r].pc = call[r].pc /\ call'[r].stage = call[r].stage
          /\ call'[r].kid = call[r].kid /\ call'[r].keys = call[r].keys
          /\ call'[r].steady = (call[r].steady /\ call[r].kid \in keys)
          /\ call'[r].seen = (call[r].seen \/ call[r].kid \in keys)
      BY <3>1, <3>2 DEF Call
    <3>4. published' = keys
      BY <1>7 DEF Rotate
    <3>5. call'[r] \in Call
      BY <3>1, <3>2 DEF Call
    <3>6. QED
      BY <2>1, <3>1, <3>3, <3>4, <3>5 DEF KeyKnown, Pending
  <2>2. ASSUME NEW r \in Caller, ~Pending(call[r])
        PROVE  call'[r] = call[r]
    BY <1>7, <2>2 DEF Rotate
  <2>3. TokenTypeOK'
    <3>1. DOMAIN call' = Caller /\ call' = [r \in Caller |-> call'[r]]
      BY <1>7 DEF Rotate
    <3>2. \A r \in Caller : call'[r] \in Call
      BY <1>ty, <2>1, <2>2 DEF TokenTypeOK
    <3>3. call' \in [Caller -> Call]
      BY <3>1, <3>2
    <3>4. published' \in SUBSET Key /\ UNCHANGED <<devMode, jwksCache, faults>>
      BY <1>7 DEF Rotate
    <3>5. QED
      BY <1>ty, <3>3, <3>4 DEF TokenTypeOK
  <2>4. \A r \in Caller : (IF Pending(call[r]) THEN KeyKnown(call[r]) ELSE Justified(call[r]))'
    BY <2>1, <2>2 DEF TokenInv, Pending, Justified
  <2>5. QED
    BY <2>3, <2>4 DEF TokenInv
<1>8. CASE UNCHANGED vars
  BY <1>8 DEF vars, TokenInv, TokenTypeOK, Pending, KeyKnown, Justified
<1>9. QED
  BY <1>1, <1>2, <1>3, <1>4, <1>5, <1>6, <1>7, <1>8 DEF TokenNext

LEMMA TokenInvariant == TokenSpec => []TokenInv
  BY TokenInitInv, TokenStep, PTL DEF TokenSpec

(* The fields of a request, the cache and the provider's keys keep their   *)
(* types, for any number of requests and keys.                             *)
THEOREM TokenTypeCorrect == TokenSpec => []TokenTypeOK
<1>1. TokenInv => TokenTypeOK
  BY DEF TokenInv
<1>2. QED
  BY <1>1, TokenInvariant, PTL

(* A genuine token is not refused because of rotations or other requests.  *)
THEOREM GenuineServedAlways == TokenSpec => []GenuineServed
<1>1. TokenInv => GenuineServed
  BY DEF TokenInv, GenuineServed, Pending, Justified
<1>2. QED
  BY <1>1, TokenInvariant, PTL

(* A withdrawn key serves nobody longer than the cache may hold it, unless *)
(* the provider cannot be asked.                                           *)
THEOREM WithdrawnRefusedAlways == TokenSpec => []WithdrawnRefused
<1>1. TokenInv => WithdrawnRefused
  BY DEF TokenInv, WithdrawnRefused, Pending, Justified
<1>2. QED
  BY <1>1, TokenInvariant, PTL

-----------------------------------------------------------------------------
(* The other end: the session of which the extension hands out tokens.     *)
(* While the user stays signed out, a task that brings a session is one    *)
(* that was under way at the logout; the storage has no session the        *)
(* provider has not issued; and no session is "none at all".               *)
SessionInv ==
    /\ AuthTypeOK
    /\ stored <= issued
    /\ None \notin renewable
    /\ HeldIsStored
    /\ SignedOutStaysOut
    /\ signedOut => \A t \in Task : Carries(t) => t \in leftover

LEMMA SessionInit == AuthInit => SessionInv
<1> SUFFICES ASSUME AuthInit PROVE SessionInv
  OBVIOUS
<1>1. /\ 1 \in Session /\ None \in Session /\ 1 \in 1..MaxSessions
      /\ (1..MaxSessions) \in SUBSET Session /\ (2..MaxSessions) \in SUBSET Session
      /\ None \notin (1..MaxSessions) /\ None \notin (2..MaxSessions)
  BY AuthAssumption DEF Session, None
<1>2. Idle \in AuthTask
  BY <1>1 DEF Idle, AuthTask
<1>3. life \in [Session -> Life]
  BY DEF AuthInit, Life
<1>4. AuthTypeOK
  BY <1>1, <1>2, <1>3 DEF AuthInit, AuthTypeOK
<1>5. stored <= issued
  BY DEF AuthInit, None
<1> QED
  BY <1>1, <1>4, <1>5 DEF AuthInit, SessionInv, HeldIsStored, SignedOutStaysOut

(* A task goes on, and the others stand where they stood.                  *)
LEMMA TaskReplaced ==
    ASSUME AuthTypeOK, NEW t \in Task, NEW r \in AuthTask, task' = [task EXCEPT ![t] = r]
    PROVE  /\ task' \in [Task -> AuthTask] /\ task'[t] = r
           /\ \A u \in Task : u # t => task'[u] = task[u]
BY DEF AuthTypeOK

LEMMA TaskGoes ==
    ASSUME AuthTypeOK, NEW t \in Task, NEW pc \in {"refresh", "save", "unsaved", "callback"},
           Goes(t, pc)
    PROVE  /\ task' \in [Task -> AuthTask] /\ task'[t].pc = pc /\ task'[t].got = None
           /\ \A u \in Task : u # t => task'[u] = task[u]
<1>1. task[t] \in AuthTask /\ None \in Session
  BY AuthAssumption DEF AuthTypeOK, Session, None
<1> DEFINE r == [pc |-> pc, what |-> task[t].what, got |-> None]
<1>2. r \in AuthTask
  BY <1>1 DEF AuthTask
<1> DEFINE m == [task EXCEPT ![t] = [task[t] EXCEPT !.pc = pc]]
<1>3. task' = [m EXCEPT ![t] = [m[t] EXCEPT !.got = None]]
  BY DEF Goes
<1>4. [task[t] EXCEPT !.pc = pc] = [pc |-> pc, what |-> task[t].what, got |-> task[t].got]
  BY <1>1 DEF AuthTask
<1>5. m[t] = [pc |-> pc, what |-> task[t].what, got |-> task[t].got]
  BY <1>4 DEF AuthTypeOK
<1>6. [m[t] EXCEPT !.got = None] = r
  BY <1>5
<1>7. task' = [task EXCEPT ![t] = r]
  BY <1>3, <1>6 DEF AuthTypeOK
<1> QED
  BY <1>2, <1>7, TaskReplaced

LEMMA TaskEnds ==
    ASSUME AuthTypeOK, NEW t \in Task, Ends(t)
    PROVE  /\ task' \in [Task -> AuthTask] /\ task'[t] = Idle /\ ~Carries(t)'
           /\ \A u \in Task : u # t => task'[u] = task[u]
<1>1. Idle \in AuthTask
  BY AuthAssumption DEF Idle, AuthTask, Session, None
<1> QED
  BY <1>1, TaskReplaced DEF Ends, Idle, Carries

(* A call that has its session ends, renews it or asks the user.           *)
LEMMA TaskChecks ==
    ASSUME AuthTypeOK, NEW t \in Task, NEW s, Check(t, s)
    PROVE  /\ task' \in [Task -> AuthTask]
           /\ Carries(t)' => s \in renewable
           /\ \A u \in Task : u # t => task'[u] = task[u]
<1>1. CASE Ends(t)
  BY <1>1, TaskEnds
<1>2. CASE s \in renewable /\ Goes(t, "refresh")
  BY <1>2, TaskGoes
<1>3. CASE Goes(t, "callback")
  BY <1>3, TaskGoes DEF Carries
<1> QED
  BY <1>1, <1>2, <1>3 DEF Check

LEMMA SessionStep == SessionInv /\ [AuthNext]_authVars => SessionInv'
<1> SUFFICES ASSUME SessionInv, [AuthNext]_authVars PROVE SessionInv'
  OBVIOUS
<1>i. /\ AuthTypeOK
      /\ stored <= issued
      /\ None \notin renewable
      /\ tokenSet \in {None, stored} \/ overtaken \/ (refused /\ stored < tokenSet)
      /\ signedOut => tokenSet = None /\ stored = None
      /\ signedOut => \A t \in Task : Carries(t) => t \in leftover
  BY DEF SessionInv, HeldIsStored, SignedOutStaysOut
<1>n. None \in Session
  BY AuthAssumption DEF Session, None
<1>s. SessionInv' <=>
        /\ AuthTypeOK' /\ stored' <= issued' /\ None \notin renewable'
        /\ \/ tokenSet' \in {None, stored'} \/ overtaken'
           \/ refused' /\ stored' < tokenSet'
        /\ signedOut' => /\ tokenSet' = None /\ stored' = None
                         /\ \A t \in Task : Carries(t)' => t \in leftover'
  BY DEF SessionInv, HeldIsStored, SignedOutStaysOut
<1>1. ASSUME NEW t \in Task, GetToken(t)
      PROVE  SessionInv'
  <2>1. CASE tokenSet = None /\ Begin(t, "getToken", "load", stored)
    <3> DEFINE r == [pc |-> "load", what |-> "getToken", got |-> stored]
    <3>1. r \in AuthTask /\ task' = [task EXCEPT ![t] = r]
      BY <1>i, <2>1 DEF AuthTask, AuthTypeOK, Begin
    <3>2. /\ task' \in [Task -> AuthTask] /\ task'[t] = r
          /\ \A u \in Task : u # t => task'[u] = task[u]
      BY <1>i, <3>1, TaskReplaced
    <3>3. signedOut => \A u \in Task : Carries(u)' => u \in leftover
      BY <1>i, <3>2 DEF Carries
    <3> QED
      BY <1>1, <1>i, <1>s, <3>2, <3>3
      DEF GetToken, AuthTypeOK, sessionVars, historyVars
  <2>2. CASE tokenSet # None /\ Check(t, tokenSet)
    <3>1. task' \in [Task -> AuthTask] /\ \A u \in Task : u # t => task'[u] = task[u]
      BY <1>i, <2>2, TaskChecks
    <3> QED
      BY <1>1, <1>i, <1>s, <2>2, <3>1
      DEF GetToken, AuthTypeOK, sessionVars, historyVars
  <2> QED
    BY <1>1, <2>1, <2>2 DEF GetToken
<1>2. ASSUME NEW t \in Task, LoadAnswers(t)
      PROVE  SessionInv'
  <2>s. PICK s : s = IF task[t].got = None THEN tokenSet ELSE task[t].got
    OBVIOUS
  <2>1. task[t] \in AuthTask /\ task[t].pc = "load" /\ task[t].got \in Session
    BY <1>2, <1>i DEF AuthTypeOK, AuthTask, LoadAnswers
  <2>2. /\ tokenSet' = s /\ Check(t, s) /\ UNCHANGED <<stored, issued, renewable, life>>
        /\ refreshTimer' \in BOOLEAN
    BY <1>2, <1>i, <2>s DEF LoadAnswers, AuthTypeOK
  <2>3. s \in Session
    BY <1>i, <2>s, <2>1 DEF AuthTypeOK
  <2>4. /\ task' \in [Task -> AuthTask]
        /\ Carries(t)' => s \in renewable
        /\ \A u \in Task : u # t => task'[u] = task[u]
    BY <1>i, <2>s, <2>2, TaskChecks
  <2>5. CASE task[t].got = None
    <3>1. UNCHANGED historyVars
      BY <1>2, <2>5 DEF LoadAnswers
    <3>2. signedOut => ~Carries(t)'
      BY <1>i, <2>s, <2>4, <2>5
    <3>3. \A u \in Task : u # t /\ Carries(u)' => Carries(u)
      BY <2>4 DEF Carries
    <3>4. tokenSet' = tokenSet
      BY <2>s, <2>2, <2>5
    <3> QED
      BY <1>i, <1>s, <2>s, <2>2, <2>4, <3>1, <3>2, <3>3, <3>4
      DEF AuthTypeOK, historyVars
  <2>6. CASE task[t].got # None
    <3>1. Brings(t) /\ overtaken' = (task[t].got # stored) /\ refused' = FALSE
      BY <1>2, <2>6 DEF LoadAnswers
    <3>2. signedOut' = FALSE /\ leftover' \in SUBSET Task
      BY <1>i, <2>1, <2>6, <3>1 DEF Brings, Carries, AuthTypeOK
    <3>3. overtaken' \in BOOLEAN /\ (tokenSet' = stored' \/ overtaken')
      BY <2>s, <2>2, <2>6, <3>1
    <3>4. AuthTypeOK'
      BY <1>i, <2>s, <2>2, <2>3, <2>4, <3>1, <3>2, <3>3 DEF AuthTypeOK
    <3> QED
      BY <1>i, <1>s, <2>s, <2>2, <3>2, <3>3, <3>4
  <2> QED
    BY <2>5, <2>6
<1>3. ASSUME NEW t \in Task, RefreshAnswers(t)
      PROVE  SessionInv'
  <2>1. /\ issued' \in 1..MaxSessions /\ issued' \in Session
        /\ tokenSet' = issued' /\ issued < issued'
    BY <1>3, <1>i, AuthAssumption DEF RefreshAnswers, AuthTypeOK, Session
  <2>2. task' \in [Task -> AuthTask]
    BY <1>3, <1>i, TaskGoes DEF RefreshAnswers
  <2>3. signedOut' = FALSE /\ leftover' \in SUBSET Task /\ overtaken' = FALSE
    BY <1>3, <1>i DEF RefreshAnswers, Brings, Carries, AuthTypeOK
  <2>4. /\ refused' \in BOOLEAN /\ stored' \in {stored, issued'}
        /\ stored' = issued' \/ (stored' = stored /\ refused')
    BY <1>3 DEF RefreshAnswers
  <2>5. /\ stored' \in Session /\ stored' <= issued'
        /\ stored' = stored => stored' < tokenSet'
    BY <1>i, <2>1, <2>4 DEF AuthTypeOK, Session
  <2>6. AuthTypeOK'
    BY <1>3, <1>i, <2>1, <2>2, <2>3, <2>4, <2>5 DEF RefreshAnswers, AuthTypeOK
  <2>7. tokenSet' \in {None, stored'} \/ (refused' /\ stored' < tokenSet')
    BY <2>1, <2>4, <2>5
  <2> QED
    BY <1>3, <1>i, <1>s, <2>3, <2>6, <2>7, <2>5 DEF RefreshAnswers
<1>4. ASSUME NEW t \in Task, RefreshFails(t) \/ LoadFails(t)
      PROVE  SessionInv'
  <2>1. /\ task' \in [Task -> AuthTask] /\ ~Carries(t)'
        /\ \A u \in Task : u # t => task'[u] = task[u]
    BY <1>4, <1>i, TaskEnds, TaskGoes DEF RefreshFails, LoadFails, Carries
  <2>2. signedOut => \A u \in Task : Carries(u)' => u \in leftover'
    BY <1>4, <1>i, <2>1 DEF Carries, RefreshFails, LoadFails
  <2> QED
    BY <1>4, <1>i, <1>s, <2>1, <2>2 DEF RefreshFails, LoadFails, AuthTypeOK, sessionVars
<1>5. ASSUME NEW t \in Task,
             \/ Saved(t) \/ SaveRejected(t) \/ CallbackFails(t)
             \/ Deleted(t) \/ DeleteRejected(t)
      PROVE  SessionInv'
  <2>1. /\ task' \in [Task -> AuthTask] /\ ~Carries(t)'
        /\ \A u \in Task : u # t => task'[u] = task[u]
    BY <1>5, <1>i, TaskEnds, TaskGoes
    DEF Saved, SaveRejected, CallbackFails, Deleted, DeleteRejected, Carries
  <2>2. signedOut => \A u \in Task : Carries(u)' => u \in leftover
    BY <1>i, <2>1 DEF Carries
  <2>3. /\ UNCHANGED <<sessionVars, renewable, life, historyVars>>
        /\ refreshTimer' \in BOOLEAN
    BY <1>5, <1>i
    DEF Saved, SaveRejected, CallbackFails, Deleted, DeleteRejected, AuthTypeOK
  <2> QED
    BY <1>i, <1>s, <2>1, <2>2, <2>3 DEF AuthTypeOK, sessionVars, historyVars
<1>6. ASSUME NEW t \in Task, Login(t) \/ Logout(t) \/ TimerFires(t)
      PROVE  SessionInv'
  <2>1. \A pc \in {"callback", "delete", "undeleted", "refresh"}, w \in {"login", "logout", "timer"} :
          Begin(t, w, pc, None) =>
            /\ task' \in [Task -> AuthTask] /\ task'[t].pc = pc
            /\ \A u \in Task : u # t => task'[u] = task[u]
    <3> SUFFICES ASSUME NEW pc \in {"callback", "delete", "undeleted", "refresh"},
                        NEW w \in {"login", "logout", "timer"}, Begin(t, w, pc, None)
                 PROVE  /\ task' \in [Task -> AuthTask] /\ task'[t].pc = pc
                        /\ \A u \in Task : u # t => task'[u] = task[u]
      OBVIOUS
    <3>1. [pc |-> pc, what |-> w, got |-> None] \in AuthTask
      BY <1>n DEF AuthTask
    <3> QED
      BY <1>i, <3>1, TaskReplaced DEF Begin
  <2>2. CASE Login(t)
    <3>1. /\ task' \in [Task -> AuthTask] /\ ~Carries(t)'
          /\ \A u \in Task : u # t => task'[u] = task[u]
      BY <2>1, <2>2 DEF Login, Carries
    <3>2. signedOut => \A u \in Task : Carries(u)' => u \in leftover
      BY <1>i, <3>1 DEF Carries
    <3> QED
      BY <1>i, <1>s, <2>2, <3>1, <3>2 DEF Login, AuthTypeOK, sessionVars, historyVars
  <2>3. CASE Logout(t)
    <3>1. /\ task' \in [Task -> AuthTask] /\ ~Carries(t)'
          /\ \A u \in Task : u # t => task'[u] = task[u]
      BY <2>1, <2>3 DEF Logout, Carries
    <3>2. \A u \in Task : Carries(u)' => u \in leftover'
      BY <2>3, <3>1 DEF Carries, Logout
    <3>3. /\ stored' \in {None, stored} /\ signedOut' \in BOOLEAN
          /\ signedOut' => stored' = None
      BY <2>3 DEF Logout
    <3>4. stored' \in Session /\ stored' <= issued'
      BY <1>i, <1>n, <2>3, <3>3 DEF Logout, AuthTypeOK, Session, None
    <3>5. /\ tokenSet' = None /\ leftover' \in SUBSET Task
          /\ overtaken' = FALSE /\ refused' = FALSE
          /\ UNCHANGED <<issued, renewable, life, refreshTimer>>
      BY <2>3 DEF Logout
    <3>6. AuthTypeOK'
      BY <1>i, <1>n, <3>1, <3>3, <3>4, <3>5 DEF AuthTypeOK
    <3> QED
      BY <1>i, <1>s, <3>2, <3>3, <3>4, <3>5, <3>6
  <2>4. CASE TimerFires(t)
    <3>1. /\ UNCHANGED <<sessionVars, renewable, life, historyVars>>
          /\ refreshTimer' = FALSE
      BY <2>4 DEF TimerFires
    <3>2. CASE tokenSet \in renewable /\ Begin(t, "timer", "refresh", None)
      BY <1>i, <1>s, <2>1, <3>1, <3>2 DEF AuthTypeOK, sessionVars, historyVars
    <3>3. CASE UNCHANGED task
      BY <1>i, <1>s, <3>1, <3>3 DEF AuthTypeOK, Carries, sessionVars, historyVars
    <3> QED
      BY <2>4, <3>2, <3>3 DEF TimerFires
  <2> QED
    BY <1>6, <2>2, <2>3, <2>4
<1>7. ASSUME NEW s \in Session, Age(s)
      PROVE  SessionInv'
  <2>1. life' \in [Session -> Life]
    BY <1>7, <1>i DEF Age, AuthTypeOK, Life
  <2> QED
    BY <1>7, <1>i, <1>s, <2>1 DEF Age, AuthTypeOK, Carries, sessionVars, historyVars
<1>8. CASE Restart
  <2>1. Idle \in AuthTask
    BY <1>n DEF Idle, AuthTask
  <2>2. \A t \in Task : ~Carries(t)'
    BY <1>8 DEF Restart, Carries, Idle
  <2> QED
    BY <1>8, <1>i, <1>n, <1>s, <2>1, <2>2 DEF Restart, AuthTypeOK
<1>9. CASE UNCHANGED authVars
  BY <1>9, <1>i, <1>s DEF authVars, historyVars, AuthTypeOK, Carries
<1> QED
  BY <1>1, <1>2, <1>3, <1>4, <1>5, <1>6, <1>7, <1>8, <1>9 DEF AuthNext, Continues

LEMMA SessionInvariant == AuthSpec => []SessionInv
  BY SessionInit, SessionStep, PTL DEF AuthSpec

(* The session, the storage, the timer and the tasks keep their types, for *)
(* any number of tasks (auth.ts).                                          *)
THEOREM SessionTypes == AuthSpec => []AuthTypeOK
<1>1. SessionInv => AuthTypeOK
  BY DEF SessionInv
<1> QED
  BY <1>1, SessionInvariant, PTL

(* The session that is held is the stored one, or a load that was answered *)
(* with what had been replaced brought it, or the storage, which may       *)
(* refuse any request, refused it and has an older one: for any number of  *)
(* calls of getToken, commands and timers at once (auth.ts, getToken,      *)
(* refreshTokens, saveTokens).                                             *)
THEOREM HeldAsStored == AuthSpec => []HeldIsStored
<1>1. SessionInv => HeldIsStored
  BY DEF SessionInv
<1> QED
  BY <1>1, SessionInvariant, PTL

(* Who logs out stays out once the storage has deleted the session, unless *)
(* a load or a refresh that was under way at the logout brings it back,    *)
(* whatever else the storage refuses (auth.ts, logout).                    *)
THEOREM LoggedOutStays == AuthSpec => []SignedOutStaysOut
<1>1. SessionInv => SignedOutStaysOut
  BY DEF SessionInv
<1> QED
  BY <1>1, SessionInvariant, PTL
=============================================================================
