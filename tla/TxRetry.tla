------------------------------ MODULE TxRetry ------------------------------
(***************************************************************************)
(* Transaction and TransactionRetry (tx.go): one call of TransactionRetry, *)
(* whose fn has one effect in the database, against an engine that may     *)
(* refuse or lose any step and a caller who may cancel the context at any  *)
(* moment.                                                                 *)
(*                                                                         *)
(* Errors are told apart by what the code does with them: IsRetryable      *)
(* (deadlock, serialization failure) or not.                               *)
(***************************************************************************)
EXTENDS Naturals

CONSTANT Policies       \* the values of RetryPolicy.Max considered

ASSUME PoliciesAssumption == Policies \subseteq Nat

VARIABLES
  max,          \* RetryPolicy.Max
  backoff,      \* RetryPolicy.Backoff is set
  cancelled,    \* ctx.Done() is closed
  pc,           \* where the call is
  attempt,      \* the loop variable of TransactionRetry
  err,          \* the error in hand: of fn, of Begin or of Commit
  open,         \* the attempt's transaction holds a connection
  effect,       \* fn's effect is in the open transaction
  applied,      \* how many times fn's effect has become durable
  answered      \* the engine answered every COMMIT it was sent

retryVars == <<max, backoff, cancelled, pc, attempt, err, open, effect, applied,
          answered>>

Errors == {"nil", "retryable", "fatal", "ctx", "panic"}

RetryInit ==
  /\ max \in Policies
  /\ backoff \in BOOLEAN
  /\ cancelled = FALSE
  /\ pc = "begin"
  /\ attempt = 1
  /\ err = "nil"
  /\ open = FALSE
  /\ effect = FALSE
  /\ applied = 0
  /\ answered = TRUE

call == <<max, backoff, attempt>>

\* The caller cancels: database/sql and pgx roll an open transaction back.
Cancel ==
  /\ ~cancelled /\ pc # "done"
  /\ cancelled' = TRUE
  /\ effect' = FALSE
  /\ UNCHANGED <<call, pc, err, open, applied, answered>>

BeginIgnoresCtx ==                  \* mutant: the context is not passed on
  /\ pc = "begin"
  /\ \/ pc' = "fn" /\ open' = TRUE /\ err' = "nil"
     \/ pc' = "decide" /\ UNCHANGED open /\ err' \in {"retryable", "fatal"}
  /\ UNCHANGED <<call, cancelled, effect, applied, answered>>

\* db.Begin(ctx): a connection from the pool, or an error.  With a cancelled
\* context there is only the error.
BeginAttempt ==
  /\ pc = "begin"
  /\ \/ /\ ~cancelled
        /\ pc' = "fn" /\ open' = TRUE /\ err' = "nil"
     \/ /\ pc' = "decide" /\ UNCHANGED open
        /\ err' \in IF cancelled THEN {"ctx"} ELSE {"retryable", "fatal"}
  /\ UNCHANGED <<call, cancelled, effect, applied, answered>>

\* fn(tx) returns nil, an error or a panic, its statements executed or not; a
\* statement on a cancelled transaction is an error, which fn may swallow.
Fn ==
  /\ pc = "fn"
  /\ \/ err' = "nil" /\ effect' = ~cancelled /\ pc' = "commit"
     \/ /\ err' \in {"retryable", "fatal", "panic"} \cup {e \in {"ctx"} : cancelled}
        /\ effect' \in {FALSE, ~cancelled}
        /\ pc' = "rollback"
  /\ UNCHANGED <<call, cancelled, open, applied, answered>>

RollbackOnErrorOnly ==              \* mutant: no deferred recover
  /\ pc = "rollback"
  /\ IF err = "panic" THEN UNCHANGED <<open, effect>>
                      ELSE open' = FALSE /\ effect' = FALSE
  /\ pc' = IF err = "panic" THEN "done" ELSE "decide"
  /\ UNCHANGED <<call, cancelled, err, applied, answered>>

\* tx.Rollback(ctx), its error ignored; a panic goes on to the caller of
\* TransactionRetry.
RollbackAttempt ==
  /\ pc = "rollback"
  /\ open' = FALSE
  /\ effect' = FALSE
  /\ pc' = IF err = "panic" THEN "done" ELSE "decide"
  /\ UNCHANGED <<call, cancelled, err, applied, answered>>

CommitErrorDropped ==               \* mutant: the error of Commit is ignored
  /\ pc = "commit"
  /\ pc' = "decide"
  /\ open' = FALSE
  /\ effect' = FALSE
  /\ err' = "nil"
  /\ applied' \in {applied, applied + 1}
  /\ UNCHANGED <<call, cancelled, answered>>

\* tx.Commit(ctx).  Whatever it returns, the transaction is over: made durable,
\* refused by the engine, or lost on the way there or on the way back.
CommitAttempt ==
  /\ pc = "commit"
  /\ pc' = "decide"
  /\ open' = FALSE
  /\ effect' = FALSE
  /\ \/ /\ ~cancelled /\ err' = "nil" /\ applied' = applied + 1
        /\ UNCHANGED answered
     \/ /\ ~cancelled /\ err' = "fatal" /\ applied' = applied + 1
        /\ answered' = FALSE
     \/ /\ err' \in IF cancelled THEN {"ctx"} ELSE {"retryable", "fatal"}
        /\ UNCHANGED <<applied, answered>>
  /\ UNCHANGED <<call, cancelled>>

IsRetryable(e) == e = "retryable"

DecideRetriesAll ==                 \* mutant: any error is retried
  /\ pc = "decide"
  /\ IF err # "nil" /\ attempt < max
     THEN attempt' = attempt + 1 /\ pc' = "begin"
     ELSE pc' = "done" /\ UNCHANGED attempt
  /\ UNCHANGED <<max, backoff, cancelled, err, open, effect, applied, answered>>

DecideUnbounded ==                  \* mutant: the counter is never advanced
  /\ pc = "decide"
  /\ pc' = IF err = "retryable" THEN "begin" ELSE "done"
  /\ UNCHANGED <<call, cancelled, err, open, effect, applied, answered>>

Attempts == IF max = 0 THEN 1 ELSE max

\* After each attempt: return, or go round at once, or wait.
Decide ==
  /\ pc = "decide"
  /\ IF ~IsRetryable(err) \/ attempt >= Attempts
     THEN pc' = "done" /\ UNCHANGED attempt
     ELSE /\ pc' = IF backoff THEN "wait" ELSE "begin"
          /\ attempt' = IF backoff THEN attempt ELSE attempt + 1
  /\ UNCHANGED <<max, backoff, cancelled, err, open, effect, applied, answered>>

\* select: the context or the timer, either when both are ready.
Wait ==
  /\ pc = "wait"
  /\ \/ cancelled /\ pc' = "done" /\ err' = "ctx" /\ UNCHANGED attempt
     \/ pc' = "begin" /\ attempt' = attempt + 1 /\ UNCHANGED err
  /\ UNCHANGED <<max, backoff, cancelled, open, effect, applied, answered>>

Step == BeginAttempt \/ Fn \/ RollbackAttempt \/ CommitAttempt \/ Decide \/ Wait

RetryNext == Cancel \/ Step

\* The code runs until it returns: fn returns, the timer fires and database
\* calls are answered or fail.  Nobody has to cancel.
RetrySpec == RetryInit /\ [][RetryNext]_retryVars /\ WF_retryVars(Step)

(***************************************************************************)
(* Properties.                                                             *)
(***************************************************************************)
\* Types; the loop variable stays within the policy (a Max of 0 means one).
RetryTypeOK ==
  /\ max \in Policies
  /\ backoff \in BOOLEAN
  /\ cancelled \in BOOLEAN
  /\ pc \in {"begin", "fn", "rollback", "commit", "decide", "wait", "done"}
  /\ attempt \in 1 .. Attempts
  /\ err \in Errors
  /\ open \in BOOLEAN
  /\ effect \in BOOLEAN
  /\ applied \in Nat
  /\ answered \in BOOLEAN

\* However many attempts are made, fn's effect becomes durable at most once:
\* nothing that may have been committed is run again.
AppliedAtMostOnce == applied <= 1

\* What the caller is told is what happened: nil means applied, and an error or
\* a panic means not applied, unless the engine never answered the COMMIT.
OutcomeIsHonest ==
  pc = "done" => /\ err = "nil" => applied = 1
                 /\ err # "nil" /\ answered => applied = 0

\* Every way out of TransactionRetry gives its connection back, a panic of fn
\* included, and two attempts never hold one at the same time.
ConnectionReturned == open => pc \in {"fn", "rollback", "commit"}

\* The call returns, and "a cancelled context stops the wait between attempts"
\* (TransactionRetry): fn is not started again once the context is cancelled.
Returns ==
  /\ <>(pc = "done")
  /\ [][cancelled => ~(pc # "fn" /\ pc' = "fn")]_retryVars
=============================================================================
