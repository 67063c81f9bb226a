---------------------------- MODULE RetryExecutor ----------------------------
(***************************************************************************)
(* should_retry_api_exception and retry_with_backoff of perf_run.py as     *)
(* operators over what the wrapped call answers at each attempt: a value  *)
(* ("ok"), an ApiException with a status and a body, or an exception of  *)
(* another class (which the loop does not catch).  A body is abstracted  *)
(* to the one transient marker it contains ("Internal error occurred",    *)
(* "failed calling webhook", "EOF") or to none ("").  Sleeps are recorded  *)
(* as the delays slept, in seconds.                                        *)
(***************************************************************************)
EXTENDS Naturals, Sequences

(* `for attempt in range(1, 7)` *)
MaxRetryAttempts == 6

Markers == {"Internal error occurred", "failed calling webhook", "EOF"}

(* should_retry_api_exception: 429 and 500, or a transient marker in the body. *)
ShouldRetryApiException(e) == e.status \in {429, 500} \/ e.body \in Markers

(* What the loop ends with: the value or the exception it raised (a kind  *)
(* "none" when it ran out of iterations with neither), the calls made and *)
(* the delays slept.                                                       *)
Outcome(res, calls, sleeps) == [result |-> res, calls |-> calls, sleeps |-> sleeps]

(* Seeded fault: the attempt bound checked with <=, so the last retryable *)
(* failure is slept on and the loop falls off its end.                    *)
RECURSIVE RetryLoopInclusive(_, _, _, _)
RetryLoopInclusive(answers, attempt, delay, sleeps) ==
  IF attempt > MaxRetryAttempts THEN Outcome([kind |-> "none"], attempt - 1, sleeps)
  ELSE LET a == answers[attempt] IN
       IF a.kind # "api" THEN Outcome(a, attempt, sleeps)
       ELSE IF ShouldRetryApiException(a) /\ attempt <= MaxRetryAttempts
       THEN RetryLoopInclusive(answers, attempt + 1, IF delay * 2 < 16 THEN delay * 2 ELSE 16,
                               Append(sleeps, delay))
       ELSE Outcome(a, attempt, sleeps)

(* The loop from `attempt` on with the current `delay`: a value or a non- *)
(* ApiException ends it; a retryable ApiException with attempts left       *)
(* sleeps `delay`, doubles it up to 16 and goes on; any other ApiException *)
(* is re-raised unchanged.                                                 *)
RECURSIVE RetryLoop(_, _, _, _)
RetryLoop(answers, attempt, delay, sleeps) ==
  IF attempt > MaxRetryAttempts THEN Outcome([kind |-> "none"], attempt - 1, sleeps)
  ELSE LET a == answers[attempt] IN
       IF a.kind # "api" THEN Outcome(a, attempt, sleeps)
       ELSE IF ShouldRetryApiException(a) /\ attempt < MaxRetryAttempts
       THEN RetryLoop(answers, attempt + 1, IF delay * 2 < 16 THEN delay * 2 ELSE 16,
                      Append(sleeps, delay))
       ELSE Outcome(a, attempt, sleeps)

(* retry_with_backoff(fn): answers[j] is what the j-th call of fn answers. *)
RetryWithBackoff(answers) == RetryLoop(answers, 1, 1, <<>>)
=============================================================================
