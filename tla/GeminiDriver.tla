---------------------------- MODULE GeminiDriver ----------------------------
(***************************************************************************)
(* GeminiDriver.run of src/arena/drivers/gemini.py: ask the model, run the *)
(* tool calls of its answer, ask again; wait when the API throttles; stop  *)
(* at the turn budget or, between two rounds, at the deadline.             *)
(*                                                                         *)
(* pc is the place in the loop:                                            *)
(*   check    its head, where the clock is compared with the deadline      *)
(*   request  generate_content has been called                             *)
(*   wait     sleeping before the next attempt                             *)
(*   act      in the loop over function_calls                              *)
(*   done, raised                                                          *)
(* The clock starts at 0 and the deadline is at MaxSeconds.                *)
(***************************************************************************)
EXTENDS Driver, FiniteSets

CONSTANTS
    MaxRetries,             \* MAX_RATE_LIMIT_RETRIES
    RequestSeconds,         \* the HTTP timeout of one request
    Fallback,               \* FALLBACK_BACKOFF_SECONDS
    Hints,                  \* "retry in ..s": figures the API may give
    MaxBatch                \* bound: function calls in one answer

ASSUME GeminiAssumption ==
    /\ MaxRetries \in Nat /\ RequestSeconds \in Nat
    /\ Fallback \in Nat /\ Hints \subseteq Nat /\ IsFiniteSet(Hints)
    /\ MaxBatch \in Nat \ {0}

VARIABLES
    attempt,        \* the retry under way
    contents,       \* the conversation: turns with how many parts they have
    pending,        \* function calls of the answer not yet handled
    responses,      \* function responses gathered for it
    asked,          \* history: function calls the model has made in all
    answer          \* history: how the last request ended

conversation == <<attempt, contents, pending, responses, asked, answer>>

Turn == [by : {"user", "model"}, parts : Nat]
User(n) == [by |-> "user", parts |-> n]
Model(n) == [by |-> "model", parts |-> n]

ConversationInit ==
    /\ attempt = 0
    /\ contents = <<User(1)>>
    /\ pending = 0 /\ responses = 0
    /\ asked = 0 /\ answer = "none"

-----------------------------------------------------------------------------
\* Slips the runs must notice; nothing below uses them.
RetriesOnceMore == attempt <= MaxRetries
NeverOutOfTime == FALSE
CountsOnly(failed) ==           \* a failed call has no answer for the model
    /\ calls' = Append(calls, failed)
    /\ responses' = IF failed THEN responses ELSE responses + 1
KeepsAsking ==      \* `continue` where there was no response
    /\ pc = "request" /\ answer' \in {"daily", "error"} /\ pc' = "check"
    /\ UNCHANGED <<now, attempt, calls, stop_reason, contents, pending,
                   responses, asked>>
-----------------------------------------------------------------------------

OutOfTime == now >= MaxSeconds
MayRetry == attempt < MaxRetries

\* retry_after: the API's figure and a second, or exponential backoff.
retry_after == {h + 1 : h \in Hints} \cup {Fallback * 2^attempt}

\* The head of the loop.
Check ==
    /\ pc = "check"
    /\ \/ OutOfTime /\ pc' = "done" /\ stop_reason' = "timeout"
       \/ ~OutOfTime /\ pc' = "request" /\ UNCHANGED stop_reason
    /\ attempt' = 0
    /\ UNCHANGED <<now, calls, contents, pending, responses, asked, answer>>

\* A request that took some time ended as `how`.
Ended(how) ==
    /\ pc = "request"
    /\ answer' = how
    /\ \E took \in 0..RequestSeconds : now' = now + took
    /\ UNCHANGED <<attempt, calls>>

\* An answer without function calls, be it a text, empty or blocked, is taken
\* for the model's closing word.
Text ==
    /\ Ended("text")
    /\ pc' = "done"
    /\ UNCHANGED <<stop_reason, contents, pending, responses, asked>>

\* An answer with function calls; the model's turn is kept verbatim.
FunctionCalls ==
    /\ Ended("calls")
    /\ \E n \in 1..MaxBatch :
        /\ contents' = Append(contents, Model(n))
        /\ pending' = n /\ asked' = asked + n
    /\ responses' = 0
    /\ pc' = "act"
    /\ UNCHANGED stop_reason

\* Throttled: sleep and try again with the same contents, a limited number of
\* times.
Throttled ==
    /\ Ended("throttled") /\ MayRetry
    /\ pc' = "wait"
    /\ UNCHANGED <<stop_reason, contents, pending, responses, asked>>

\* The daily quota, throttling once too often or any other exception.
Fails ==
    /\ \E how \in {"throttled", "daily", "error"} :
        Ended(how) /\ (how = "throttled" => ~MayRetry)
    /\ pc' = "done" /\ stop_reason' = "error"
    /\ UNCHANGED <<contents, pending, responses, asked>>

\* The sleep is over; the for loop has another turn, or leaves without response.
Wait ==
    /\ pc = "wait"
    /\ \E s \in retry_after : now' = now + s
    /\ attempt' = attempt + 1
    /\ pc' = IF attempt < MaxRetries THEN "request" ELSE "done"
    /\ UNCHANGED <<calls, stop_reason, contents, pending, responses, asked,
                   answer>>

\* calls.append and responses.append
Recorded(failed) ==
    calls' = Append(calls, failed) /\ responses' = responses + 1

\* The next function call: malformed arguments are an answer of the driver's
\* own, the rest goes to the surface.
Call(kind) ==
    /\ pc = "act" /\ pending > 0 /\ ~TurnsSpent
    /\ \/ /\ kind = "malformed" /\ Recorded(TRUE)
          /\ pc' = "act" /\ UNCHANGED now
       \/ /\ kind \in Commands
          /\ \E r \in invoke(kind) :
              /\ now' = now + r.took
              /\ \/ r.ends = "raised" /\ pc' = "raised"
                    /\ UNCHANGED <<calls, responses>>
                 \/ /\ r.ends # "raised" /\ pc' = "act"
                    /\ Recorded(r.ends = "failed")
    /\ pending' = pending - 1
    /\ UNCHANGED <<attempt, stop_reason, contents, asked, answer>>

\* Out of the loop over function_calls, at its end or at the turn budget;
\* what responses there are go back to the model.
Respond ==
    /\ pc = "act"
    /\ \/ pending = 0 /\ pc' = "check" /\ UNCHANGED stop_reason
       \/ /\ pending > 0 /\ TurnsSpent
          /\ pc' = "done" /\ stop_reason' = "budget_exhausted"
    /\ contents' = IF responses > 0 THEN Append(contents, User(responses))
                   ELSE contents
    /\ UNCHANGED <<now, attempt, calls, pending, responses, asked, answer>>

GeminiNext ==
    \/ Check \/ Text \/ FunctionCalls \/ Throttled \/ Fails \/ Wait
    \/ \E kind \in Calls : Call(kind)
    \/ Respond

-----------------------------------------------------------------------------
ConversationTypeOK ==
    /\ attempt \in 0..MaxRetries
    /\ contents \in Seq(Turn)
    /\ pending \in 0..MaxBatch /\ responses \in Nat /\ asked \in Nat
    /\ answer \in {"none", "text", "calls", "throttled", "daily", "error"}

\* A transcript says "finished" exactly when the model had the last word: an
\* API that fails or throttles to the end never passes for a model that
\* declined to act (preflight: "every row reads as a model failure").
LastWord ==
    pc = "done" => (stop_reason = "finished" <=> answer = "text")

\* Every call the model made is recorded, unless the turn budget cut it off,
\* and then exactly max_turns are (test_gemini: "dropping the extras would
\* silently lose work").
AllRecorded ==
    pc = "done" =>
        IF stop_reason = "budget_exhausted"
        THEN Len(calls) = MaxTurns /\ asked > MaxTurns
        ELSE Len(calls) = asked

\* Whenever the model is asked, its turns and the harness's alternate and each
\* of its function calls has got a response.
Answered(turns) ==
    /\ Len(turns) % 2 = 1
    /\ \A i \in 1..Len(turns) :
           turns[i].by = IF i % 2 = 1 THEN "user" ELSE "model"
    /\ \A i \in 2..Len(turns) : i % 2 = 0 => turns[i + 1].parts = turns[i].parts

HistoryWellFormed == pc = "request" => Answered(contents)

\* The wall-clock budget is overrun by less than the longest round: all the
\* attempts, the waits between them, and max_turns commands.  A scripted run,
\* which has no deadline, never takes longer than that.
LongestWait(a) ==
    LET waits == {h + 1 : h \in Hints} \cup {Fallback * 2^a}
    IN  CHOOSE w \in waits : \A v \in waits : v <= w

Waits[n \in 0..MaxRetries] ==
    IF n = 0 THEN 0 ELSE Waits[n - 1] + LongestWait(n - 1)

LongestRound ==
    (MaxRetries + 1) * RequestSeconds + Waits[MaxRetries]
        + MaxTurns * CallSeconds

OverrunBounded == now < MaxSeconds + LongestRound
=============================================================================
