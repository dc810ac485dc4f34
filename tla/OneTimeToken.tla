----------------------------- MODULE OneTimeToken -----------------------------
(***************************************************************************)
(* What a confirmation token promises its user, with no storage and no     *)
(* concurrency in it: a token is issued open, it leaves the open state     *)
(* once and for good, and the operation it stands for runs at most once    *)
(* and only when the token was used.  ConfirmationTokens.tla is the        *)
(* service that should implement this.                                     *)
(***************************************************************************)
CONSTANT Tokens

VARIABLES
  outcome,   \* outcome[t]: "unissued", "open", "used" or "closed"
  executed   \* the tokens whose operation has been executed

abstractVars == <<outcome, executed>>

AbstractInit ==
  /\ outcome = [t \in Tokens |-> "unissued"]
  /\ executed = {}

IssueToken(t) ==
  /\ outcome[t] = "unissued"
  /\ outcome' = [outcome EXCEPT ![t] = "open"]
  /\ UNCHANGED executed

UseToken(t) ==
  /\ outcome[t] = "open"
  /\ outcome' = [outcome EXCEPT ![t] = "used"]
  /\ UNCHANGED executed

CloseToken(t) ==
  /\ outcome[t] = "open"
  /\ outcome' = [outcome EXCEPT ![t] = "closed"]
  /\ UNCHANGED executed

ExecuteToken(t) ==
  /\ outcome[t] = "used"
  /\ t \notin executed
  /\ executed' = executed \cup {t}
  /\ UNCHANGED outcome

AbstractNext ==
  \E t \in Tokens : IssueToken(t) \/ UseToken(t) \/ CloseToken(t) \/ ExecuteToken(t)

AbstractSpec == AbstractInit /\ [][AbstractNext]_abstractVars

=============================================================================
