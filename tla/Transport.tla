------------------------------ MODULE Transport ------------------------------
(***************************************************************************)
(* HttpTransport::call (src/rpc/client.rs) against a node that may answer, *)
(* refuse, hang up, break off or stay silent, and whose chain moves while  *)
(* a request is under way: the rate limiter, the attempts, the pause       *)
(* before a retry, the timeout and the reading of the response.            *)
(*                                                                         *)
(* Time is counted in ticks.  A duration that nothing tells from a longer  *)
(* one stops at Horizon, so that no variable grows without bound.          *)
(***************************************************************************)
EXTENDS Integers

CONSTANTS
  MaxAttempts,  \* MAX_ATTEMPTS
  Interval,     \* RateLimiter::minimum_interval, in ticks
  Backoff,      \* RETRY_BACKOFF
  Timeout,      \* --timeout-seconds
  Horizon,      \* the longest duration told apart
  Views,        \* what the node may hold
  NoView        \* nothing read

ASSUME AttemptsAssumption == MaxAttempts \in Nat \ {0}
ASSUME DurationAssumption ==
  /\ Interval \in Nat /\ Backoff \in Nat /\ Timeout \in Nat /\ Horizon \in Nat
  /\ Interval <= Horizon
  /\ Timeout <= Horizon
  /\ \A n \in 1 .. MaxAttempts : Backoff * n <= Horizon
ASSUME ViewAssumption == NoView \notin Views

VARIABLES
  view,     \* what the node holds now
  reply,    \* what has come back for the attempt under way
  pc,       \* where the call stands
  attempt,  \* the attempt under way, counted from one
  sleep,    \* ticks this thread still sleeps
  elapsed,  \* ticks since the limiter's `last_request`
  outcome,  \* what the last call returned
  gap,      \* ticks since a request last went out
  sent      \* requests that went out for this call

clientVars == <<pc, attempt, sleep, elapsed, outcome>>
history == <<gap, sent>>
vars == <<view, reply, clientVars, history>>

-----------------------------------------------------------------------------
\* What may come back for one attempt.  "result" is a success status over a
\* JSON-RPC response with a result; "rejected" one with an error member, with
\* neither, or that cannot be read; "refused" a status that is neither a
\* success nor a server error; "broken" a connection not made or broken off, or
\* a body that is cut short or too large.
Kinds == {"result", "rejected", "refused", "serverError", "broken"}

Reply == [kind : Kinds, view : Views]
NoReply == [kind |-> "none", view |-> NoView]

\* Attempt::retryable and Attempt::final_failure.
Retryable(kind) == kind \in {"serverError", "broken", "timeout"}

NoOutcome == [kind |-> "none", view |-> NoView, attempts |-> 0]
Answered(v) == [kind |-> "result", view |-> v, attempts |-> 0]
Failed(kind, n) == [kind |-> kind, view |-> NoView, attempts |-> n]

\* Slip: the subtraction does not stop at zero.
PauseUnsaturated == Interval - elapsed

\* RateLimiter::wait: what is left of the interval since the previous request.
Pause == IF elapsed < Interval THEN Interval - elapsed ELSE 0

Later(t) == IF t < Horizon THEN t + 1 ELSE t

Init ==
  /\ view \in Views
  /\ reply = NoReply
  /\ pc = "idle"
  /\ attempt = 0
  /\ sleep = 0
  /\ elapsed = Horizon
  /\ outcome = NoOutcome
  /\ gap = Horizon
  /\ sent = 0

-----------------------------------------------------------------------------
\* The node, of which nothing is assumed.

\* A block is added, or the chain is reorganised.
Move ==
  /\ view' \in Views \ {view}
  /\ UNCHANGED <<reply, clientVars, history>>

\* The attempt comes to something: what the node reads for it, it reads now.
Serve ==
  /\ pc = "waiting"
  /\ reply = NoReply
  /\ \E kind \in Kinds : reply' = [kind |-> kind, view |-> view]
  /\ UNCHANGED <<view, clientVars, history>>

-----------------------------------------------------------------------------
\* The client: one blocking call at a time.

Call ==
  /\ pc = "idle"
  /\ pc' = "pacing"
  /\ attempt' = 1
  /\ sleep' = Pause
  /\ outcome' = NoOutcome
  /\ sent' = 0
  /\ UNCHANGED <<view, reply, elapsed, gap>>

\* Slip: the connection is kept, and with it what was left of an abandoned attempt.
SendOnSameConnection ==
  /\ pc = "pacing"
  /\ sleep = 0
  /\ pc' = "waiting"
  /\ elapsed' = 0
  /\ gap' = 0
  /\ sent' = sent + 1
  /\ UNCHANGED <<view, reply, attempt, sleep, outcome>>

\* The limiter lets the request through and starts its interval anew; what
\* comes back is read from the connection of this attempt.
Send ==
  /\ pc = "pacing"
  /\ sleep = 0
  /\ pc' = "waiting"
  /\ reply' = NoReply
  /\ elapsed' = 0
  /\ gap' = 0
  /\ sent' = sent + 1
  /\ UNCHANGED <<view, attempt, sleep, outcome>>

\* The result member is handed to the caller.
Accept ==
  /\ pc = "waiting"
  /\ reply.kind = "result"
  /\ pc' = "idle"
  /\ outcome' = Answered(reply.view)
  /\ UNCHANGED <<view, reply, attempt, sleep, elapsed, history>>

\* Slip: the last attempt is followed by another.
RetryOnceMore(kind) ==
  /\ Retryable(kind)
  /\ attempt <= MaxAttempts
  /\ pc' = "backoff"
  /\ sleep' = Backoff * attempt
  /\ UNCHANGED <<view, reply, attempt, elapsed, outcome, history>>

\* The attempt failed in a way that repeating may mend, and one is left.
Retry(kind) ==
  /\ Retryable(kind)
  /\ attempt < MaxAttempts
  /\ pc' = "backoff"
  /\ sleep' = Backoff * attempt
  /\ UNCHANGED <<view, reply, attempt, elapsed, outcome, history>>

\* The attempt failed for good, or was the last one.
GiveUp(kind) ==
  /\ ~ Retryable(kind) \/ attempt >= MaxAttempts
  /\ pc' = "idle"
  /\ outcome' = Failed(kind, attempt)
  /\ UNCHANGED <<view, reply, attempt, sleep, elapsed, history>>

AttemptFails ==
  /\ pc = "waiting"
  /\ reply.kind \notin {"none", "result"}
  /\ Retry(reply.kind) \/ GiveUp(reply.kind)

\* Slip: the timeout of reading only, which starts when something has come.
TimeOutOnceServed ==
  /\ pc = "waiting"
  /\ reply # NoReply
  /\ gap >= Timeout
  /\ Retry("timeout") \/ GiveUp("timeout")

\* The timeout of the whole exchange, whatever has come back by then.
TimeOut ==
  /\ pc = "waiting"
  /\ gap >= Timeout
  /\ Retry("timeout") \/ GiveUp("timeout")

\* Slip: the limiter is asked once a call.
ResumeAtOnce ==
  /\ pc = "backoff"
  /\ sleep = 0
  /\ pc' = "pacing"
  /\ attempt' = attempt + 1
  /\ sleep' = 0
  /\ UNCHANGED <<view, reply, elapsed, outcome, history>>

\* The pause before the retry is over; the limiter is asked again.
Resume ==
  /\ pc = "backoff"
  /\ sleep = 0
  /\ pc' = "pacing"
  /\ attempt' = attempt + 1
  /\ sleep' = Pause
  /\ UNCHANGED <<view, reply, elapsed, outcome, history>>

\* Time passes.  A thread may sleep longer than it asked to.
Tick ==
  /\ sleep' = IF sleep > 0 THEN sleep - 1 ELSE 0
  /\ elapsed' = Later(elapsed)
  /\ gap' = Later(gap)
  /\ UNCHANGED <<view, reply, pc, attempt, outcome, sent>>

Client == Call \/ Send \/ Accept \/ AttemptFails \/ TimeOut \/ Resume

Next == Client \/ Move \/ Serve \/ Tick

\* Time goes on and the client's thread is scheduled; the caller need never
\* call again, and of the node nothing is expected.
Fairness ==
  /\ WF_vars(Tick)
  /\ WF_vars(Send)
  /\ WF_vars(Accept \/ AttemptFails \/ TimeOut)
  /\ WF_vars(Resume)

Spec == Init /\ [][Next]_vars
FairSpec == Spec /\ Fairness

-----------------------------------------------------------------------------
\* Where the call stands, in values the program can be in.
TypeOK ==
  /\ view \in Views
  /\ reply \in Reply \cup {NoReply}
  /\ pc \in {"idle", "pacing", "waiting", "backoff"}
  /\ attempt \in 0 .. MaxAttempts
  /\ sleep \in 0 .. Horizon
  /\ elapsed \in 0 .. Horizon
  /\ outcome \in {NoOutcome} \cup {Answered(v) : v \in Views}
                   \cup {Failed(k, n) : k \in (Kinds \ {"result"}) \cup {"timeout"},
                                        n \in 1 .. MaxAttempts}
  /\ gap \in 0 .. Horizon
  /\ sent \in 0 .. MaxAttempts

\* Any two requests are the limiter's interval apart, whether they are attempts
\* of one call or of two, and a retry also waits out its growing pause:
\* RateLimiter::wait and the loop of `call` (src/rpc/client.rs:79, :204).
Paced ==
  [][sent' = sent + 1 => gap >= Interval /\ gap >= Backoff * sent]_vars

\* A call that fails says how many attempts it made, has made as many requests,
\* never more than MAX_ATTEMPTS, and has used them all up whenever repeating
\* could have mended it (src/rpc/client.rs:201-216).
GivesUpHonestly ==
  outcome.attempts > 0 =>
    /\ outcome.attempts = sent
    /\ sent <= MaxAttempts
    /\ Retryable(outcome.kind) => sent = MaxAttempts

\* A call is one read of the node: what is returned is what the node held at
\* one moment of this very call, although every request carries the same
\* identifier (src/rpc/dto.rs:19) and an abandoned one may still be answered.
Contract == INSTANCE RemoteRead WITH
  asked <- pc # "idle",
  looked <- IF pc = "waiting" /\ reply.kind = "result" THEN reply.view ELSE NoView,
  answer <- outcome.view

AnswersAreReads == Contract!Spec

\* No node can keep a call from returning (src/rpc/client.rs:112, :204).
CallReturns == (pc # "idle") ~> (pc = "idle")
=============================================================================
