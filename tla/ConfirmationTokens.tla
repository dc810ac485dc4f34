-------------------------- MODULE ConfirmationTokens --------------------------
(***************************************************************************)
(* ConfirmationTokenService and ConfirmationGuardService: the two-phase    *)
(* confirmation every publish, retract, revise and set-trust-level goes    *)
(* through.  A request is one Firestore document.  Handlers run            *)
(* concurrently and every awaited Firestore call is a step of its own, so  *)
(* another handler (or time) may slip in between the query that finds a    *)
(* pending request and the write that settles it.  A handler may also die  *)
(* between any two of its steps.                                           *)
(***************************************************************************)
EXTENDS Integers, FiniteSets

CONSTANTS
  Tokens,            \* the tokens createRequest can draw; each at most once
  NoToken,           \* the token of an idle handler
  Callers,           \* handlers that can be in flight at the same time
  Expiry,            \* EXPIRY_MINUTES, in clock ticks
  InitialCooldown,   \* cooldownSeconds of a guarded request, in clock ticks
  BackoffBase,       \* backoffBaseSeconds, in clock ticks
  MaxFailedAttempts, \* maxFailedAttempts
  GuardConfigured,   \* whether SpaceService was given a guardService
  MaxTime            \* bound on the clock, for TLC

Statuses == {"pending", "confirmed", "denied", "expired", "retracted"}
Ops == {"confirm", "deny", "retract"}
Services == {"space", "memory"}

\* The wait that applyBackoff adds after the n-th failed attempt.
Backoff(n) == BackoffBase * 2 ^ (n - 1)

ASSUME ConstantsAssumption ==
  /\ NoToken \notin Tokens
  /\ Expiry \in Nat
  /\ InitialCooldown \in Nat
  /\ MaxFailedAttempts \in Nat \ {0}
  /\ GuardConfigured \in BOOLEAN
  /\ MaxTime \in Nat

ASSUME BackoffAssumption == \A n \in 1..MaxFailedAttempts : Backoff(n) \in Nat

VARIABLES
  time,      \* Date.now()
  issued,    \* the tokens whose request document exists
  documents, \* documents[t]: the request document of t
  call,      \* call[c]: what handler c is doing, and what it has read
  notBefore, \* history: the earliest time t may be settled through the guard
  runs,      \* history: how many times the operation of t has been executed
  failures   \* history: how many failed attempts have been charged to t

tokenVars == <<time, issued, documents, call, notBefore, runs, failures>>
tokenHistory == <<notBefore, runs, failures>>

\* The document, without the fields no step reads.  "action" is reduced to the
\* service whose confirm handler knows how to execute it.
Document ==
  [status : Statuses, action : Services, expires_at : Nat, cooldown_until : Nat,
   failed_attempts : Nat]

BlankRequest ==
  [status |-> "pending", action |-> "space", expires_at |-> 0,
   cooldown_until |-> 0, failed_attempts |-> 0]

\* "guard", "validate": about to query the request; "expire", "backoff", "settle":
\* about to write it; "execute": the confirmed operation is about to run.
Steps == {"idle", "guard", "validate", "expire", "backoff", "settle", "execute"}

\* seen is the query result the handler acts on.  late and at are history:
\* whether the request was already settled when the handler was called, and
\* when the validation that let it settle the request read the clock.
Call ==
  [step : Steps, op : Ops, via : Services, token : Tokens \cup {NoToken}, secretOK : BOOLEAN,
   seen : Document, late : BOOLEAN, at : Nat]

IdleCall ==
  [step |-> "idle", op |-> "confirm", via |-> "space", token |-> NoToken,
   secretOK |-> TRUE, seen |-> BlankRequest, late |-> FALSE, at |-> 0]

TokensInit ==
  /\ time = 0
  /\ issued = {}
  /\ documents = [t \in Tokens |-> BlankRequest]
  /\ call = [c \in Callers |-> IdleCall]
  /\ notBefore = [t \in Tokens |-> 0]
  /\ runs = [t \in Tokens |-> 0]
  /\ failures = [t \in Tokens |-> 0]

-----------------------------------------------------------------------------
(* The environment *)

Tick ==
  /\ time < MaxTime
  /\ time' = time + 1
  /\ UNCHANGED <<issued, documents, call, tokenHistory>>

\* createRequest.  No caller in the code passes cooldownSeconds today, the
\* parameter is there for guarded deployments: both are modelled.
CreateRequest(t, action, cooldown) ==
  /\ t \notin issued
  /\ issued' = issued \cup {t}
  /\ documents' = [documents EXCEPT ![t] =
       [status |-> "pending", action |-> action, expires_at |-> time + Expiry,
        cooldown_until |-> IF cooldown > 0 THEN time + cooldown ELSE 0,
        failed_attempts |-> 0]]
  /\ notBefore' = [notBefore EXCEPT ![t] = time + cooldown]
  /\ UNCHANGED <<time, call, runs, failures>>

\* SpaceService.confirm / deny go through the guard when there is one,
\* MemoryService.confirmSetTrustLevel and retractRequest never do.
FirstStep(op, via) ==
  IF GuardConfigured /\ via = "space" /\ op # "retract" THEN "guard" ELSE "validate"

StartCall(c, t, op, via, secretOK) ==
  /\ call[c].step = "idle"
  /\ t \in issued
  /\ via = "memory" => op = "confirm"
  /\ call' = [call EXCEPT ![c] =
       [step |-> FirstStep(op, via), op |-> op, via |-> via, token |-> t,
        secretOK |-> secretOK, seen |-> BlankRequest,
        late |-> documents[t].status # "pending", at |-> 0]]
  /\ UNCHANGED <<time, issued, documents, tokenHistory>>

Return(c) == call' = [call EXCEPT ![c] = IdleCall]

\* The process dies: what it has written stays, the rest never happens.
Die(c) ==
  /\ call[c].step # "idle"
  /\ Return(c)
  /\ UNCHANGED <<time, issued, documents, tokenHistory>>

-----------------------------------------------------------------------------
(* validateToken: a query for the token with status 'pending', then the     *)
(* clock.  It runs once in the guard and once more in confirm/deny/retract. *)

\* Slip: the query forgets its status filter.
FoundAnyStatus(c) == call[c].token \in issued

Found(c) == documents[call[c].token].status = "pending"
PastExpiry(c) == documents[call[c].token].expires_at < time
Valid(c) == Found(c) /\ ~ PastExpiry(c)

\* The handler goes on to step s with what the query returned.
Proceed(c, s) ==
  call' = [call EXCEPT ![c].step = s, ![c].seen = documents[call[c].token],
                       ![c].at = time]

ValidateMiss(c) ==
  /\ call[c].step \in {"guard", "validate"}
  /\ ~ Found(c)
  /\ Return(c)
  /\ UNCHANGED <<time, issued, documents, tokenHistory>>

ValidateExpired(c) ==
  /\ call[c].step \in {"guard", "validate"}
  /\ Found(c) /\ PastExpiry(c)
  /\ Proceed(c, "expire")
  /\ UNCHANGED <<time, issued, documents, tokenHistory>>

UpdateStatus(c, status) ==
  documents' = [documents EXCEPT ![call[c].token].status = status]

WriteExpired(c) ==
  /\ call[c].step = "expire"
  /\ UpdateStatus(c, "expired")
  /\ Return(c)
  /\ UNCHANGED <<time, issued, tokenHistory>>

-----------------------------------------------------------------------------
(* validateGuard *)

\* Slip: the cooldown is not looked at.
CooldownIgnored(c) == FALSE

InCooldown(c) == time < documents[call[c].token].cooldown_until

GuardCooldown(c) ==
  /\ call[c].step = "guard"
  /\ Valid(c) /\ InCooldown(c)
  /\ Return(c)
  /\ UNCHANGED <<time, issued, documents, tokenHistory>>

GuardPass(c) ==
  /\ call[c].step = "guard"
  /\ Valid(c) /\ ~ InCooldown(c)
  /\ call[c].secretOK
  /\ call' = [call EXCEPT ![c].step = "validate"]
  /\ UNCHANGED <<time, issued, documents, tokenHistory>>

GuardMismatch(c) ==
  /\ call[c].step = "guard"
  /\ Valid(c) /\ ~ InCooldown(c)
  /\ ~ call[c].secretOK
  /\ Proceed(c, "backoff")
  /\ UNCHANGED <<time, issued, documents, tokenHistory>>

\* Slips: the whole snapshot is written back; the limit is off by one.
BackoffWholeDocument(seen, now, doc) ==
  LET attempts == seen.failed_attempts + 1 IN
  IF attempts >= MaxFailedAttempts
    THEN [seen EXCEPT !.failed_attempts = attempts, !.status = "expired"]
    ELSE [seen EXCEPT !.failed_attempts = attempts,
                      !.cooldown_until = now + Backoff(attempts)]

BackoffOneTooMany(seen, now, doc) ==
  LET attempts == seen.failed_attempts + 1 IN
  IF attempts > MaxFailedAttempts
    THEN [doc EXCEPT !.failed_attempts = attempts, !.status = "expired"]
    ELSE [doc EXCEPT !.failed_attempts = attempts,
                     !.cooldown_until = now + Backoff(attempts)]

\* applyBackoff counts from the attempts it read, and merges into the document
\* only the fields it names.
BackoffFields(seen, now, doc) ==
  LET attempts == seen.failed_attempts + 1 IN
  IF attempts >= MaxFailedAttempts
    THEN [doc EXCEPT !.failed_attempts = attempts, !.status = "expired"]
    ELSE [doc EXCEPT !.failed_attempts = attempts,
                     !.cooldown_until = now + Backoff(attempts)]

ApplyBackoff(c) ==
  LET t == call[c].token IN
  /\ call[c].step = "backoff"
  /\ documents' = [documents EXCEPT ![t] = BackoffFields(call[c].seen, time, @)]
  /\ failures' = [failures EXCEPT ![t] = @ + 1]
  /\ Return(c)
  /\ UNCHANGED <<time, issued, notBefore, runs>>

-----------------------------------------------------------------------------
(* confirmRequest, denyRequest, retractRequest *)

ValidateHit(c) ==
  /\ call[c].step = "validate"
  /\ Valid(c)
  /\ Proceed(c, "settle")
  /\ UNCHANGED <<time, issued, documents, tokenHistory>>

SettledStatus(op) ==
  CASE op = "confirm" -> "confirmed"
    [] op = "deny"    -> "denied"
    [] op = "retract" -> "retracted"

Settle(c) ==
  /\ call[c].step = "settle"
  /\ UpdateStatus(c, SettledStatus(call[c].op))
  /\ IF call[c].op = "confirm"
       THEN call' = [call EXCEPT ![c].step = "execute"]
       ELSE Return(c)
  /\ UNCHANGED <<time, issued, tokenHistory>>

\* The confirm handler dispatches on the action of the request it holds.  An
\* action it does not know is an error, and the token is spent all the same.
Execute(c) ==
  LET t == call[c].token IN
  /\ call[c].step = "execute"
  /\ runs' = [runs EXCEPT ![t] = @ + (IF call[c].seen.action = call[c].via THEN 1 ELSE 0)]
  /\ Return(c)
  /\ UNCHANGED <<time, issued, documents, notBefore, failures>>

-----------------------------------------------------------------------------
CallStep(c) ==
  \/ \E t \in Tokens, op \in Ops, via \in Services, secretOK \in BOOLEAN :
       StartCall(c, t, op, via, secretOK)
  \/ ValidateMiss(c)
  \/ ValidateExpired(c)
  \/ WriteExpired(c)
  \/ GuardCooldown(c)
  \/ GuardPass(c)
  \/ GuardMismatch(c)
  \/ ApplyBackoff(c)
  \/ ValidateHit(c)
  \/ Settle(c)
  \/ Execute(c)
  \/ Die(c)

TokensNext ==
  \/ Tick
  \/ \E t \in Tokens, action \in Services, cooldown \in {0, InitialCooldown} :
       CreateRequest(t, action, cooldown)
  \/ \E c \in Callers : CallStep(c)

TokensSpec == TokensInit /\ [][TokensNext]_tokenVars

-----------------------------------------------------------------------------
(* Properties *)

\* Every document and every handler's snapshot keeps its shape.
TokensTypeOK ==
  /\ time \in Nat
  /\ issued \in SUBSET Tokens
  /\ documents \in [Tokens -> Document]
  /\ call \in [Callers -> Call]
  /\ notBefore \in [Tokens -> Nat]
  /\ runs \in [Tokens -> Nat]
  /\ failures \in [Tokens -> Nat]

\* A settled request never becomes pending again, whatever the handlers that
\* read it while it was pending still write: every update merges single fields
\* (updateStatus, updateRequestFields), none writes a snapshot back.
NoResurrection ==
  [][\A t \in issued :
       documents[t].status # "pending" => documents'[t].status # "pending"]_tokenVars

\* A request that is still pending has failed attempts left, although the
\* counter is computed from a snapshot another handler may have overtaken.
PendingHasAttemptsLeft ==
  \A t \in issued :
    documents[t].status = "pending" => documents[t].failed_attempts < MaxFailedAttempts

\* A handler that was called after the request was settled (confirmed, denied,
\* expired or retracted) never gets to settle or execute it.
NoLateSettlement ==
  \A c \in Callers : call[c].step \in {"settle", "execute"} => ~ call[c].late

\* The validation a settlement rests on read the clock before the expiry and,
\* behind the guard, not before the cooldown the request was created with.
SettledInWindow ==
  \A c \in Callers :
    call[c].step \in {"settle", "execute"} =>
      /\ call[c].at <= call[c].seen.expires_at
      /\ FirstStep(call[c].op, call[c].via) = "guard" =>
           notBefore[call[c].token] <= call[c].at

\* "Tokens are one-time use": the operation a token stands for runs at most once.
\* Two overlapping confirms break it; with one caller it follows from
\* ImplementsOneTimeToken.
OneTimeUse == \A t \in Tokens : runs[t] <= 1

\* "After this many failures, token is permanently expired": a request that has
\* been charged the configured number of failed attempts is not pending any more.
ExpiredAfterMaxFailures ==
  \A t \in issued :
    failures[t] >= MaxFailedAttempts => documents[t].status # "pending"

\* The abstract token this service implements when its handlers do not overlap.
Outcome(t) ==
  IF t \notin issued THEN "unissued"
  ELSE IF documents[t].status = "pending" THEN "open"
  ELSE IF documents[t].status = "confirmed" THEN "used"
  ELSE "closed"

Abstract ==
  INSTANCE OneTimeToken WITH
    outcome <- [t \in Tokens |-> Outcome(t)],
    executed <- {t \in Tokens : runs[t] > 0}

\* With one handler at a time the service is a one-time token: it is settled
\* once, and its operation runs at most once and only after it was confirmed.
ImplementsOneTimeToken == Abstract!AbstractSpec

=============================================================================
