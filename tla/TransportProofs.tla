--------------------------- MODULE TransportProofs ---------------------------
(***************************************************************************)
(* The transport for every number of attempts and every interval, pause    *)
(* and timeout: its state is typed, its requests are paced, a failed call  *)
(* made the attempts it reports, and a call is one read of the node.       *)
(***************************************************************************)
EXTENDS Transport, TLAPS

\* The limiter's clock is the time since a request last went out, and what is
\* still to be slept makes up for what the interval or the pause lacks.
Pacing ==
  /\ elapsed = gap
  /\ pc = "pacing" => /\ sleep + gap >= Interval
                      /\ sleep + gap >= Backoff * sent
  /\ pc = "backoff" => sleep + gap >= Backoff * sent

\* The attempts made are the requests sent.
Counting ==
  /\ sent <= MaxAttempts
  /\ pc = "pacing" => attempt = sent + 1
  /\ pc \in {"waiting", "backoff"} => attempt = sent /\ sent >= 1
  /\ pc = "backoff" => sent < MaxAttempts
  /\ outcome # NoOutcome => pc = "idle"

Inv == TypeOK /\ Pacing /\ Counting /\ GivesUpHonestly

\* The pause the limiter asks for fits a duration, and completes the interval.
LEMMA PauseCompletes ==
  ASSUME elapsed \in 0 .. Horizon
  PROVE /\ Pause \in 0 .. Horizon
        /\ Pause + elapsed >= Interval
BY DurationAssumption, SMT DEF Pause

\* The pause before a retry fits a duration.
LEMMA BackoffFits ==
  ASSUME attempt \in 1 .. MaxAttempts
  PROVE Backoff * attempt \in 0 .. Horizon
<1>1. Backoff * attempt <= Horizon
  BY DurationAssumption
<1>2. Backoff * attempt \in Nat
  BY DurationAssumption, AttemptsAssumption, SMT
<1> QED
  BY <1>1, <1>2, DurationAssumption, SMT

\* The outcomes differ by their kind.
LEMMA OutcomesDiffer ==
  /\ NoOutcome.attempts = 0
  /\ \A v : Answered(v).attempts = 0 /\ Answered(v) # NoOutcome
  /\ \A k, n : Failed(k, n).attempts = n /\ Failed(k, n).kind = k
BY DEF NoOutcome, Answered, Failed

LEMMA InitInv == Init => Inv
<1> SUFFICES ASSUME Init PROVE Inv
  OBVIOUS
<1>1. TypeOK
  BY DurationAssumption, AttemptsAssumption DEF Init, TypeOK
<1>2. Pacing
  BY DurationAssumption DEF Init, Pacing
<1>3. Counting
  BY AttemptsAssumption DEF Init, Counting
<1>4. GivesUpHonestly
  BY OutcomesDiffer DEF Init, GivesUpHonestly
<1> QED
  BY <1>1, <1>2, <1>3, <1>4 DEF Inv

LEMMA CallInv == Inv /\ Call => Inv'
<1> SUFFICES ASSUME Inv, Call PROVE Inv'
  OBVIOUS
<1>1. Pause \in 0 .. Horizon /\ Pause + elapsed >= Interval
  BY PauseCompletes DEF Inv, TypeOK
<1>2. TypeOK'
  BY <1>1, AttemptsAssumption DEF Inv, TypeOK, Call
<1>3. Backoff * 0 = 0
  BY DurationAssumption, SMT
<1>4. Pacing'
  BY <1>1, <1>3 DEF Inv, TypeOK, Pacing, Call
<1>5. Counting'
  BY AttemptsAssumption DEF Inv, Counting, Call
<1>6. GivesUpHonestly'
  BY OutcomesDiffer DEF Call, GivesUpHonestly
<1> QED
  BY <1>2, <1>4, <1>5, <1>6 DEF Inv

LEMMA SendInv == Inv /\ Send => Inv'
<1> SUFFICES ASSUME Inv, Send PROVE Inv'
  OBVIOUS
<1>1. outcome = NoOutcome
  BY DEF Inv, Counting, Send
<1>2. sent + 1 \in 0 .. MaxAttempts /\ attempt = sent + 1
  BY DEF Inv, TypeOK, Counting, Send
<1>3. TypeOK'
  BY <1>2, DurationAssumption DEF Inv, TypeOK, Send
<1>4. Pacing'
  BY DEF Pacing, Send
<1>5. Counting'
  BY <1>1, <1>2, AttemptsAssumption DEF Inv, TypeOK, Counting, Send
<1>6. GivesUpHonestly'
  BY <1>1, OutcomesDiffer DEF Send, GivesUpHonestly
<1> QED
  BY <1>3, <1>4, <1>5, <1>6 DEF Inv

LEMMA AcceptInv == Inv /\ Accept => Inv'
<1> SUFFICES ASSUME Inv, Accept PROVE Inv'
  OBVIOUS
<1>1. reply.view \in Views
  BY DEF Inv, TypeOK, Accept, Reply, NoReply
<1>2. TypeOK'
  BY <1>1 DEF Inv, TypeOK, Accept, history
<1>3. Pacing' /\ Counting'
  BY DEF Inv, Pacing, Counting, Accept, history
<1>4. GivesUpHonestly'
  BY OutcomesDiffer DEF Accept, GivesUpHonestly
<1> QED
  BY <1>2, <1>3, <1>4 DEF Inv

LEMMA RetryInv ==
  ASSUME Inv, pc = "waiting", NEW kind, Retry(kind)
  PROVE Inv'
<1>1. attempt \in 1 .. MaxAttempts /\ attempt = sent /\ sent < MaxAttempts
  BY DEF Inv, TypeOK, Counting, Retry
<1>2. Backoff * attempt \in 0 .. Horizon
  BY <1>1, BackoffFits
<1>3. TypeOK'
  BY <1>2 DEF Inv, TypeOK, Retry, history
<1>4. Pacing'
  BY <1>1, <1>2 DEF Inv, TypeOK, Pacing, Retry, history
<1>5. Counting'
  BY <1>1 DEF Inv, Counting, Retry, history
<1>6. GivesUpHonestly'
  BY DEF Inv, GivesUpHonestly, Retry, history
<1> QED
  BY <1>3, <1>4, <1>5, <1>6 DEF Inv

LEMMA GiveUpInv ==
  ASSUME Inv, pc = "waiting",
         NEW kind \in (Kinds \ {"result"}) \cup {"timeout"}, GiveUp(kind)
  PROVE Inv'
<1>1. attempt \in 1 .. MaxAttempts /\ attempt = sent
  BY DEF Inv, TypeOK, Counting
<1>2. TypeOK'
  BY <1>1 DEF Inv, TypeOK, GiveUp, history
<1>3. Pacing' /\ Counting'
  BY DEF Inv, Pacing, Counting, GiveUp, history
<1>4. GivesUpHonestly'
  <2>1. outcome'.attempts = attempt /\ outcome'.kind = kind /\ sent' = sent
    BY OutcomesDiffer DEF GiveUp, history
  <2>2. Retryable(kind) => attempt = MaxAttempts
    BY <1>1, AttemptsAssumption DEF GiveUp
  <2> QED
    BY <1>1, <2>1, <2>2 DEF GivesUpHonestly, Retryable
<1> QED
  BY <1>2, <1>3, <1>4 DEF Inv

LEMMA ResumeInv == Inv /\ Resume => Inv'
<1> SUFFICES ASSUME Inv, Resume PROVE Inv'
  OBVIOUS
<1>1. Pause \in 0 .. Horizon /\ Pause + elapsed >= Interval
  BY PauseCompletes DEF Inv, TypeOK
<1>2. attempt = sent /\ sent < MaxAttempts
  BY DEF Inv, Counting, Resume
<1>3. TypeOK'
  BY <1>1, <1>2, AttemptsAssumption DEF Inv, TypeOK, Resume, history
<1>4. Pacing'
  <2>1. gap >= Backoff * sent
    BY DEF Inv, TypeOK, Pacing, Resume
  <2>2. Backoff * sent \in Int
    BY DurationAssumption DEF Inv, TypeOK
  <2>3. Pause + gap >= Interval /\ Pause + gap >= Backoff * sent
    BY <1>1, <2>1, <2>2, SMT DEF Inv, TypeOK, Pacing
  <2> QED
    BY <2>3 DEF Inv, Pacing, Resume, history
<1>5. Counting'
  BY <1>2 DEF Inv, TypeOK, Counting, Resume, history
<1>6. GivesUpHonestly'
  BY DEF Inv, GivesUpHonestly, Resume, history
<1> QED
  BY <1>3, <1>4, <1>5, <1>6 DEF Inv

LEMMA TickInv == Inv /\ Tick => Inv'
<1> SUFFICES ASSUME Inv, Tick PROVE Inv'
  OBVIOUS
<1>1. TypeOK'
  BY DurationAssumption DEF Inv, TypeOK, Tick, Later
<1>2. Pacing'
  <2>1. sleep \in 0 .. Horizon /\ gap \in 0 .. Horizon /\ elapsed = gap
    BY DEF Inv, TypeOK, Pacing
  <2>2. sent \in 0 .. MaxAttempts
    BY DEF Inv, TypeOK
  <2>3. Backoff * sent \in Int /\ Backoff * sent <= Horizon
    <3>1. CASE sent = 0
      BY <3>1, DurationAssumption, SMT
    <3>2. CASE sent # 0
      BY <2>2, <3>2, DurationAssumption, AttemptsAssumption, SMT
    <3> QED
      BY <3>1, <3>2
  <2>4. ASSUME NEW bound \in Int, bound <= Horizon, sleep + gap >= bound
        PROVE sleep' + gap' >= bound
    BY <2>1, <2>4, DurationAssumption, SMT DEF Tick, Later
  <2>5. elapsed' = gap'
    BY <2>1 DEF Tick
  <2> QED
    BY <2>3, <2>4, <2>5, DurationAssumption DEF Inv, Pacing, Tick
<1>3. Counting'
  BY DEF Inv, Counting, Tick
<1>4. GivesUpHonestly'
  BY DEF Inv, GivesUpHonestly, Tick
<1> QED
  BY <1>1, <1>2, <1>3, <1>4 DEF Inv

\* The node's own steps touch nothing of the client.
LEMMA NodeInv == Inv /\ (Move \/ Serve) => Inv'
<1> SUFFICES ASSUME Inv, Move \/ Serve PROVE Inv'
  OBVIOUS
<1>1. TypeOK'
  BY DEF Inv, TypeOK, Move, Serve, Reply, clientVars, history
<1>2. Pacing' /\ Counting' /\ GivesUpHonestly'
  BY DEF Inv, Pacing, Counting, GivesUpHonestly, Move, Serve, clientVars, history
<1> QED
  BY <1>1, <1>2 DEF Inv

\* What comes back for an attempt that failed is a failure.
LEMMA FailureKinds ==
  ASSUME TypeOK, reply.kind \notin {"none", "result"}
  PROVE reply.kind \in (Kinds \ {"result"}) \cup {"timeout"}
BY DEF TypeOK, Reply, NoReply

LEMMA NextInv == Inv /\ [Next]_vars => Inv'
<1> SUFFICES ASSUME Inv, [Next]_vars PROVE Inv'
  OBVIOUS
<1>1. CASE Call
  BY <1>1, CallInv
<1>2. CASE Send
  BY <1>2, SendInv
<1>3. CASE Accept
  BY <1>3, AcceptInv
<1>4. CASE AttemptFails
  <2>1. reply.kind \in (Kinds \ {"result"}) \cup {"timeout"} /\ pc = "waiting"
    BY <1>4, FailureKinds DEF Inv, AttemptFails
  <2> QED
    BY <1>4, <2>1, RetryInv, GiveUpInv DEF AttemptFails
<1>5. CASE TimeOut
  BY <1>5, RetryInv, GiveUpInv DEF TimeOut
<1>6. CASE Resume
  BY <1>6, ResumeInv
<1>7. CASE Tick
  BY <1>7, TickInv
<1>8. CASE Move \/ Serve
  BY <1>8, NodeInv
<1>9. CASE UNCHANGED vars
  BY <1>9 DEF Inv, TypeOK, Pacing, Counting, GivesUpHonestly, vars, clientVars, history
<1> QED
  BY <1>1, <1>2, <1>3, <1>4, <1>5, <1>6, <1>7, <1>8, <1>9 DEF Next, Client

LEMMA Invariance == Spec => []Inv
<1>1. Init => Inv
  BY InitInv
<1>2. Inv /\ [Next]_vars => Inv'
  BY NextInv
<1> QED
  BY <1>1, <1>2, PTL DEF Spec

\* Whatever the node does, the state of the transport is typed.
THEOREM TypeCorrect == Spec => []TypeOK
<1>1. Inv => TypeOK
  BY DEF Inv
<1> QED
  BY <1>1, Invariance, PTL

\* A failed call made as many requests as it reports, within the bound, and all
\* of them when repeating could help (src/rpc/client.rs:201-216).
THEOREM FailuresHonest == Spec => []GivesUpHonestly
<1>1. Inv => GivesUpHonestly
  BY DEF Inv
<1> QED
  BY <1>1, Invariance, PTL

\* Any two requests are the interval apart and every retry waits out its pause
\* (src/rpc/client.rs:79, :204).
THEOREM RequestsPaced == Spec => Paced
<1>1. ASSUME Inv, [Next]_vars, sent' = sent + 1
      PROVE gap >= Interval /\ gap >= Backoff * sent
  <2>1. sent \in Nat
    BY <1>1 DEF Inv, TypeOK
  <2>2. sent' # sent /\ sent' # 0
    BY <1>1, <2>1
  <2>3. Send
    BY <1>1, <2>2 DEF Next, Client, Call, Accept, AttemptFails, TimeOut, Retry, GiveUp,
                      Resume, Tick, Move, Serve, vars, clientVars, history
  <2> QED
    BY <1>1, <2>1, <2>3 DEF Inv, TypeOK, Pacing, Send
<1>2. Inv /\ [Next]_vars =>
        [sent' = sent + 1 => gap >= Interval /\ gap >= Backoff * sent]_vars
  BY <1>1
<1> QED
  BY <1>2, Invariance, PTL DEF Spec, Paced
-----------------------------------------------------------------------------
\* The caller's view of the transport: see Contract.
Asked == pc # "idle"
Looked == IF pc = "waiting" /\ reply.kind = "result" THEN reply.view ELSE NoView

\* What an outcome says of the node.
LEMMA OutcomeViews ==
  /\ NoOutcome.view = NoView
  /\ \A v : Answered(v).view = v
  /\ \A k, n : Failed(k, n).view = NoView
BY DEF NoOutcome, Answered, Failed

\* A read that has come back is of something the node held.
LEMMA LookedIsView ==
  ASSUME TypeOK, pc = "waiting", reply.kind = "result"
  PROVE Looked = reply.view /\ Looked # NoView
BY ViewAssumption DEF TypeOK, Reply, NoReply, Looked

LEMMA NothingAnswered ==
  ASSUME Inv, pc # "idle" PROVE outcome.view = NoView
BY OutcomeViews DEF Inv, Counting

\* A failed attempt either ends the call or waits for the next one.
LEMMA FailureMaps ==
  ASSUME Inv, pc = "waiting", NEW kind, Retry(kind) \/ GiveUp(kind)
  PROVE Contract!Forget \/ Contract!Fail
<1>1. outcome.view = NoView
  BY NothingAnswered
<1>2. CASE Retry(kind)
  BY <1>2 DEF Retry, Contract!Forget, history
<1>3. CASE GiveUp(kind)
  <2>1. outcome'.view = NoView
    BY <1>3, OutcomeViews DEF GiveUp
  <2> QED
    BY <1>1, <1>3, <2>1 DEF GiveUp, Contract!Fail, history
<1> QED
  BY <1>2, <1>3

LEMMA NextMaps == Inv /\ [Next]_vars => [Contract!Next]_(Contract!vars)
<1> SUFFICES ASSUME Inv, [Next]_vars
             PROVE Contract!Next \/ UNCHANGED Contract!vars
  BY DEF Contract!vars
<1> USE DEF Contract!vars
<1>1. CASE Call
  <2>1. outcome'.view = NoView
    BY <1>1, OutcomeViews DEF Call
  <2> QED
    BY <1>1, <2>1 DEF Call, Contract!Next, Contract!Ask
<1>2. CASE Send
  BY <1>2 DEF Send, NoReply
<1>3. CASE Accept
  <2>1. outcome'.view = reply.view
    BY <1>3, OutcomeViews DEF Accept
  <2>2. Looked = reply.view /\ Looked # NoView
    BY <1>3, LookedIsView DEF Inv, Accept
  <2> QED
    BY <1>3, <2>1, <2>2 DEF Accept, Looked, history, Contract!Next, Contract!Return
<1>4. CASE AttemptFails
  BY <1>4, FailureMaps DEF AttemptFails, Contract!Next
<1>5. CASE TimeOut
  BY <1>5, FailureMaps DEF TimeOut, Contract!Next
<1>6. CASE Resume
  BY <1>6 DEF Resume, history
<1>7. CASE Tick
  BY <1>7 DEF Tick
<1>8. CASE Move
  BY <1>8 DEF Move, clientVars, history, Contract!Next, Contract!Move
<1>9. CASE Serve
  <2>1. PICK kind \in Kinds : reply' = [kind |-> kind, view |-> view]
    BY <1>9 DEF Serve
  <2>2. pc = "waiting" /\ pc' = pc /\ view' = view /\ outcome' = outcome
    BY <1>9 DEF Serve, clientVars, history
  <2>3. CASE kind = "result"
    BY <2>1, <2>2, <2>3 DEF Contract!Next, Contract!Look
  <2>4. CASE kind # "result"
    BY <1>9, <2>1, <2>2, <2>4 DEF Serve, NoReply
  <2> QED
    BY <2>3, <2>4
<1>10. CASE UNCHANGED vars
  BY <1>10 DEF vars, clientVars, history
<1> QED
  BY <1>1, <1>2, <1>3, <1>4, <1>5, <1>6, <1>7, <1>8, <1>9, <1>10 DEF Next, Client

\* Every call is one read of the node at a moment of that call, whatever is
\* lost, repeated or late (src/rpc/client.rs:192, src/rpc/dto.rs:19).
THEOREM CallsAreReads == Spec => AnswersAreReads
<1>1. Init => Contract!Init
  BY OutcomeViews DEF Init, Contract!Init
<1>2. Inv /\ [Next]_vars => [Contract!Next]_(Contract!vars)
  BY NextMaps
<1> QED
  BY <1>1, <1>2, Invariance, PTL DEF Spec, AnswersAreReads, Contract!Spec
=============================================================================
