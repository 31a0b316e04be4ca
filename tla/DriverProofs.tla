---------------------------- MODULE DriverProofs ----------------------------
(***************************************************************************)
(* Proofs about Drivers for every budget, retry limit, timeout, script and *)
(* number of function calls in an answer.                                  *)
(***************************************************************************)
EXTENDS Drivers, SetInduction

Types == RunTypeOK /\ ConversationTypeOK

\* While the Gemini driver runs, nothing has set stop_reason and the model has
\* not closed; the books of calls made, recorded and to be handled balance.
Running == pc \notin {"done", "raised"}
Books ==
    /\ pc # "replay"
    /\ pc # "done" => stop_reason = "finished" /\ answer # "text"
    /\ pc = "wait" => MayRetry
    /\ Running => Len(calls) + pending = asked
    /\ pc \in {"check", "request", "wait"} => pending = 0
    /\ pc = "done" /\ stop_reason # "budget_exhausted" => Len(calls) = asked
    /\ pc = "done" /\ stop_reason = "budget_exhausted" => asked > Len(calls)
    /\ pc = "done" /\ stop_reason = "budget_exhausted" => Len(calls) = MaxTurns
    /\ Len(calls) <= MaxTurns
    /\ LastWord

\* The scripted drivers' counterpart.
Progress ==
    /\ pc \in {"replay", "done", "raised"}
    /\ pc # "done" => stop_reason = "finished"
    /\ pc = "done" => stop_reason \in {"finished", "budget_exhausted"}
    /\ Len(calls) <= MaxTurns /\ Len(calls) <= Len(commands)
    /\ Replayed

Inv ==
    /\ TypeOK
    /\ driver = "gemini" => Books
    /\ driver # "gemini" => Progress

LEMMA InitInv == Init => Inv
<1> SUFFICES ASSUME Init PROVE Inv
  OBVIOUS
<1>1. User(1) \in Turn
  BY DEF User, Turn
<1>2. <<>> \in Seq(BOOLEAN) /\ <<User(1)>> \in Seq(Turn) /\ <<>> \in Seq(Commands)
  BY <1>1
<1>3. 0 \in 0..MaxRetries /\ 0 \in 0..MaxBatch
  BY GeminiAssumption
<1>4. ConversationTypeOK
  BY <1>2, <1>3 DEF Init, ConversationInit, ConversationTypeOK
<1>5. PICK kind \in Kinds : _make_driver(kind)
  BY DEF Init
<1>6. ASSUME NEW start \in {"check", "replay"}, RunInit(start)
      PROVE  RunTypeOK /\ Len(calls) = 0 /\ Len(calls) <= MaxTurns
  <2>1. calls = <<>> /\ pc = start /\ now = 0 /\ stop_reason = "finished"
    BY <1>6 DEF RunInit
  <2> QED BY <1>2, <2>1, BudgetAssumption DEF RunTypeOK
<1>7. CASE kind = "gemini"
  <2>1. RunInit("check") /\ commands = <<>> /\ driver = "gemini"
    BY <1>5, <1>7 DEF _make_driver
  <2>2. Books
    BY <1>6, <2>1 DEF Init, ConversationInit, RunInit, Books, Running, LastWord
  <2> QED BY <1>2, <1>4, <1>5, <1>6, <1>7, <2>1, <2>2 DEF Inv, TypeOK
<1>8. CASE kind # "gemini"
  <2>1. \E script \in Seq(Commands) : ScriptedInit(script)
    <3>1. CASE kind = "noop"
      BY <1>2, <1>5, <3>1 DEF _make_driver
    <3>2. CASE kind = "solution"
      <4>1. PICK script \in Solutions : ScriptedInit(script)
        BY <1>5, <3>2 DEF _make_driver
      <4>2. \A n \in 1..MaxScript : [1..n -> Commands] \subseteq Seq(Commands)
        OBVIOUS
      <4>3. script \in Seq(Commands)
        BY <4>1, <4>2 DEF Solutions
      <4> QED BY <4>1, <4>3
    <3> QED BY <1>8, <3>1, <3>2, KindsAssumption
  <2>2. PICK script \in Seq(Commands) : ScriptedInit(script)
    BY <2>1
  <2>3. RunInit("replay") /\ commands \in Seq(Commands)
    BY <2>2 DEF ScriptedInit
  <2>4. driver = kind /\ kind \in Kinds
    BY <1>5 DEF _make_driver
  <2>5. Progress
    <3>1. Len(calls) <= MaxTurns /\ Len(calls) = 0 /\ Len(commands) \in Nat
      BY <1>6, <2>3
    <3> QED BY <2>3, <3>1 DEF Progress, Replayed, RunInit
  <2> QED BY <1>4, <1>6, <1>8, <2>3, <2>4, <2>5 DEF Inv, TypeOK
<1> QED BY <1>7, <1>8

\* 2^n is a natural number: it is how many subsets 1..n has.
LEMMA PowerType == ASSUME NEW n \in Nat PROVE 2^n \in Nat
<1>1. IsFiniteSet(1..n) /\ Cardinality(1..n) = n
  BY FS_Interval
<1>2. IsFiniteSet(SUBSET (1..n)) /\ Cardinality(SUBSET (1..n)) = 2^n
  BY <1>1, FS_SUBSET
<1> QED BY <1>2, FS_CardinalityType

LEMMA RecordedTypes ==
    ASSUME RunTypeOK, responses \in Nat, NEW f \in BOOLEAN, Recorded(f)
    PROVE  /\ calls' \in Seq(BOOLEAN) /\ responses' \in Nat
           /\ Len(calls') = Len(calls) + 1
  BY DEF RunTypeOK, Recorded

LEMMA SurfaceTypes ==
    ASSUME NEW kind \in Commands, NEW r \in invoke(kind)
    PROVE  r.took \in 0..CallSeconds /\ r.took \in Nat
<1>1. CASE kind \in {"refused", "unfit"}
  <2>1. \E e \in {"failed", "raised"} : r = [ends |-> e, took |-> 0]
    BY <1>1 DEF invoke
  <2>2. r.took = 0
    BY <2>1
  <2> QED BY <2>2, SurfaceAssumption
<1>2. CASE kind = "runs"
  BY <1>2, SurfaceAssumption DEF invoke
<1> QED BY <1>1, <1>2 DEF Commands

\* Every step of the Gemini driver keeps its books.
LEMMA GeminiStep ==
    ASSUME Types, Books, GeminiNext
    PROVE  Types' /\ Books'
<1> DEFINE Good == Types /\ Books
<1> USE BudgetAssumption, GeminiAssumption DEF Types, RunTypeOK, ConversationTypeOK
<1>1. CASE Check
  BY <1>1 DEF Check, Types, Books, Running, LastWord, MayRetry
<1>2. CASE Text
  <2>1. now' \in Nat
    BY <1>2 DEF Text, Ended, Types
  <2> QED BY <1>2, <2>1 DEF Text, Ended, Types, Books, Running, LastWord
<1>3. CASE FunctionCalls
  <2>1. now' \in Nat
    BY <1>3 DEF FunctionCalls, Ended, Types
  <2>2. PICK n \in 1..MaxBatch :
          /\ contents' = Append(contents, Model(n))
          /\ pending' = n /\ asked' = asked + n
    BY <1>3 DEF FunctionCalls
  <2>3. contents' \in Seq(Turn)
    BY <2>2 DEF Types, Turn, Model
  <2> QED BY <1>3, <2>1, <2>2, <2>3
          DEF FunctionCalls, Ended, Types, Books, Running, LastWord
<1>4. CASE Throttled
  <2>1. now' \in Nat
    BY <1>4 DEF Throttled, Ended, Types
  <2> QED BY <1>4, <2>1
          DEF Throttled, Ended, Types, Books, Running, LastWord, MayRetry
<1>5. CASE Fails
  <2>1. now' \in Nat
    BY <1>5 DEF Fails, Ended, Types
  <2> QED BY <1>5, <2>1 DEF Fails, Ended, Types, Books, Running, LastWord
<1>6. CASE Wait
  <2>1. attempt < MaxRetries
    BY <1>6 DEF Wait, Books, MayRetry
  <2>2. now' \in Nat
    <3>1. retry_after \subseteq Nat
      BY PowerType DEF Types, retry_after
    <3> QED BY <1>6, <3>1 DEF Wait, Types
  <2> QED BY <1>6, <2>1, <2>2
          DEF Wait, Types, Books, Running, LastWord, MayRetry
<1>7. ASSUME NEW kind \in Calls, Call(kind) PROVE Good'
  <2> DEFINE Handled(f) == Recorded(f) /\ now' \in Nat /\ pc' = "act"
  <2>0. ASSUME NEW f \in BOOLEAN, Handled(f) PROVE Good'
    <3>1. /\ calls' \in Seq(BOOLEAN) /\ responses' \in Nat
          /\ Len(calls') = Len(calls) + 1
      BY <2>0, RecordedTypes
    <3>2. Len(calls) \in Nat /\ pending \in Nat /\ asked \in Nat
      BY DEF Types
    <3>3. Types'
      BY <1>7, <2>0, <3>1 DEF Call, Types
    <3>4. Len(calls') + pending' = asked' /\ Len(calls') <= MaxTurns
      BY <1>7, <2>0, <3>1, <3>2 DEF Call, Books, Running, TurnsSpent
    <3>5. Books'
      BY <1>7, <2>0, <3>4 DEF Call, Books, Running, LastWord
    <3> QED BY <3>3, <3>5
  <2>1. CASE Recorded(TRUE) /\ pc' = "act" /\ UNCHANGED now
    BY <2>0, <2>1 DEF Types
  <2>2. ASSUME kind \in Commands, NEW r \in invoke(kind), now' = now + r.took,
               \/ r.ends = "raised" /\ pc' = "raised" /\ UNCHANGED <<calls, responses>>
               \/ r.ends # "raised" /\ pc' = "act" /\ Recorded(r.ends = "failed")
        PROVE  Good'
    <3>1. now' \in Nat
      BY <2>2, SurfaceTypes DEF Types
    <3>2. CASE pc' = "act" /\ Recorded(r.ends = "failed")
      <4>1. (r.ends = "failed") \in BOOLEAN
        OBVIOUS
      <4> QED BY <2>0, <3>1, <3>2, <4>1
    <3>3. CASE pc' = "raised" /\ UNCHANGED <<calls, responses>>
      BY <1>7, <3>1, <3>3 DEF Call, Types, Books, Running, LastWord
    <3> QED BY <2>2, <3>2, <3>3
  <2> QED BY <1>7, <2>1, <2>2 DEF Call
<1>8. CASE Respond
  <2>1. contents' \in Seq(Turn)
    <3>1. User(responses) \in Turn
      BY DEF Types, Turn, User
    <3> QED BY <1>8, <3>1 DEF Respond, Types
  <2> QED BY <1>8, <2>1
          DEF Respond, Types, Books, Running, LastWord, TurnsSpent
<1> QED BY <1>1, <1>2, <1>3, <1>4, <1>5, <1>6, <1>7, <1>8 DEF GeminiNext

\* Every step of a scripted driver follows its script.
LEMMA ScriptedStep ==
    ASSUME RunTypeOK, commands \in Seq(Commands), Progress, ScriptedNext
    PROVE  RunTypeOK' /\ Progress' /\ commands' = commands
<1>1. Len(calls) \in Nat /\ Len(commands) \in Nat /\ MaxTurns \in Nat
  BY BudgetAssumption DEF RunTypeOK
<1>2. CASE Finish
  BY <1>1, <1>2 DEF Finish, Progress, Replayed, RunTypeOK, OutOfCommands, TurnsSpent
<1>3. CASE Replay
  <2> DEFINE command == commands[Len(calls) + 1]
  <2>1. pc = "replay" /\ UNCHANGED <<commands, stop_reason>>
    BY <1>3 DEF Replay
  <2>2. Len(calls) + 1 <= MaxTurns /\ Len(calls) + 1 <= Len(commands)
    BY <1>1, <1>3 DEF Replay, Progress, OutOfCommands, TurnsSpent
  <2>3. PICK r \in invoke(command) :
          /\ now' = now + r.took
          /\ \/ r.ends = "raised" /\ pc' = "raised" /\ UNCHANGED calls
             \/ r.ends # "raised" /\ UNCHANGED pc /\ calls' = Append(calls, r.ends = "failed")
    BY <1>3 DEF Replay
  <2>4. now' \in Nat
    <3>1. command \in Commands
      BY <1>1, <2>2
    <3> QED BY <2>3, <3>1, SurfaceTypes DEF RunTypeOK
  <2>5. CASE pc' = "raised" /\ UNCHANGED calls
    BY <2>1, <2>4, <2>5 DEF RunTypeOK, Progress, Replayed
  <2>6. CASE UNCHANGED pc /\ calls' = Append(calls, r.ends = "failed")
    <3>1. (r.ends = "failed") \in BOOLEAN
      OBVIOUS
    <3>2. calls' \in Seq(BOOLEAN) /\ Len(calls') = Len(calls) + 1
      BY <2>6, <3>1 DEF RunTypeOK
    <3>3. RunTypeOK'
      BY <2>1, <2>4, <2>6, <3>2 DEF RunTypeOK
    <3> QED BY <2>1, <2>2, <2>6, <3>2, <3>3 DEF Progress, Replayed
  <2> QED BY <2>1, <2>3, <2>5, <2>6
<1> QED BY <1>2, <1>3 DEF ScriptedNext

LEMMA NextInv == Inv /\ [Next]_vars => Inv'
<1> SUFFICES ASSUME Inv, [Next]_vars PROVE Inv'
  OBVIOUS
<1>1. CASE UNCHANGED vars
  BY <1>1 DEF vars, run, conversation, Inv, TypeOK, RunTypeOK, ConversationTypeOK,
     Books, Running, LastWord, MayRetry, Progress, Replayed
<1>2. CASE driver = "gemini" /\ GeminiNext /\ UNCHANGED <<commands, driver>>
  BY <1>2, GeminiStep DEF Inv, TypeOK, Types
<1>3. CASE driver # "gemini" /\ ScriptedNext /\ UNCHANGED <<conversation, driver>>
  <2>1. ConversationTypeOK'
    BY <1>3 DEF Inv, TypeOK, ConversationTypeOK, conversation
  <2>2. RunTypeOK' /\ Progress' /\ commands' = commands
    BY <1>3, ScriptedStep DEF Inv, TypeOK
  <2> QED BY <1>3, <2>1, <2>2 DEF Inv, TypeOK
<1> QED BY <1>1, <1>2, <1>3 DEF Next

LEMMA InvHolds == Spec => []Inv
<1> QED BY InitInv, NextInv, PTL DEF Spec

\* Every variable keeps its type, the clock included.
THEOREM TypesHold == Spec => []TypeOK
<1>1. Inv => TypeOK
  BY DEF Inv
<1> QED BY <1>1, InvHolds, PTL

\* "finished" means that the model had the last word, for any retry limit.
THEOREM FinishedMeansAnswered == Spec => []NoSilentFailure
<1>1. Inv => NoSilentFailure
  BY DEF Inv, Books, NoSilentFailure
<1> QED BY <1>1, InvHolds, PTL

\* No function call is dropped but those past the turn budget.
THEOREM CallsAreRecorded == Spec => []NothingDropped
<1>1. Inv => NothingDropped
  BY DEF Inv, Books, NothingDropped, AllRecorded
<1> QED BY <1>1, InvHolds, PTL

\* A solution is replayed whole or up to the turn budget, whatever fails in it.
THEOREM SolutionsAreReplayed == Spec => []WholeScript
<1>1. Inv => WholeScript
  BY DEF Inv, Progress, WholeScript
<1> QED BY <1>1, InvHolds, PTL

\* Each of the drivers is an AgentDriver: it records what it is asked for, call
\* by call and never beyond max_turns; "timeout" is said only past the deadline,
\* "budget_exhausted" only with max_turns calls recorded and another one asked
\* for, and when it says anything else nothing it was asked for is missing.
THEOREM DriversImplementAgent == Spec => ImplementsAgent
<1> USE DEF Running
<1>1. Inv /\ Init => Agent!Init
  <2> SUFFICES ASSUME Inv, Init PROVE Agent!Init
    OBVIOUS
  <2>1. PICK kind \in Kinds : _make_driver(kind)
    BY DEF Init
  <2>2. \E start \in {"check", "replay"} : RunInit(start)
    BY <2>1, KindsAssumption DEF _make_driver, ScriptedInit
  <2>3. asked \in Nat /\ Len(commands) \in Nat
    BY DEF Inv, TypeOK, ConversationTypeOK
  <2> QED BY <2>2, <2>3 DEF RunInit, Agent!Init
<1>2. Inv /\ Inv' /\ [Next]_vars => [Agent!Next]_(Agent!agent)
  <2> SUFFICES ASSUME Inv, Inv', [Next]_vars
               PROVE  Agent!Next \/ UNCHANGED Agent!agent
    OBVIOUS
  <2> DEFINE wanted == IF driver = "gemini" THEN asked ELSE Len(commands)
  <2>t. /\ now \in Nat /\ now' \in Nat
        /\ wanted \in Nat /\ wanted' \in Nat
        /\ Len(calls) \in Nat /\ Len(calls') \in Nat /\ MaxTurns \in Nat
    <3>1. Len(commands) \in Nat /\ Len(commands') \in Nat
      BY DEF Inv, TypeOK
    <3> QED BY <3>1, BudgetAssumption DEF Inv, TypeOK, RunTypeOK, ConversationTypeOK
  <2>1. CASE UNCHANGED vars
    BY <2>1 DEF vars, run, conversation, Agent!agent
  <2>2. ASSUME calls' = calls, Running, Running', now' >= now, wanted' >= wanted
        PROVE  Agent!Next
    BY <2>2, <2>t DEF Agent!Next, Agent!Want, Agent!Running
  <2>3. ASSUME calls' = calls, wanted' = wanted, Running, now' >= now,
               NEW reason \in Agent!Reasons, Agent!Holds(reason)',
               \/ pc' = "done" /\ stop_reason' = reason
               \/ pc' = "raised" /\ reason = "raised",
               reason = "timeout" => now' = now
        PROVE  Agent!Next
    <3>1. Agent!Holds(reason)
      BY <2>3 DEF Agent!Holds
    <3>2. Agent!Stop(reason)
      BY <2>3, <2>t, <3>1 DEF Agent!Stop, Agent!Running, Agent!Reasons
    <3> QED BY <3>2 DEF Agent!Next
  <2>4. ASSUME NEW f \in BOOLEAN, calls' = Append(calls, f), Running, Running',
               ~TurnsSpent, Len(calls) < wanted, wanted' = wanted, now' >= now
        PROVE  Agent!Next
    <3>1. Len(calls') = Len(calls) + 1
      BY <2>4 DEF Inv, TypeOK, RunTypeOK
    <3>2. Len(calls) < MaxTurns
      BY <2>4, <2>t DEF TurnsSpent
    <3>3. Agent!Take
      BY <2>4, <2>t, <3>1, <3>2 DEF Agent!Take, Agent!Running
    <3> QED BY <3>3 DEF Agent!Next
  <2>5. CASE driver = "gemini" /\ GeminiNext /\ UNCHANGED <<commands, driver>>
    <3>d. driver = "gemini" /\ driver' = "gemini" /\ wanted = asked /\ wanted' = asked'
      BY <2>5
    <3>b. Books /\ Books' /\ Types
      BY <3>d DEF Inv, TypeOK, Types
    <3>p. asked \in Nat /\ pending \in Nat /\ pending' \in Nat
      BY DEF Inv, TypeOK, ConversationTypeOK
    <3>1. CASE Check
      <4>1. CASE OutOfTime /\ pc' = "done" /\ stop_reason' = "timeout"
        <5>1. Agent!Holds("timeout")'
          BY <2>t, <3>1, <3>b, <3>d, <3>p, <4>1
             DEF Check, Books, OutOfTime, Agent!Holds
        <5> QED BY <2>3, <2>t, <3>1, <3>d, <4>1, <5>1 DEF Check, Agent!Reasons
      <4>2. CASE pc' = "request"
        BY <2>2, <2>t, <3>1, <3>d, <4>2 DEF Check
      <4> QED BY <3>1, <4>1, <4>2 DEF Check
    <3>2. ASSUME NEW how, Ended(how) PROVE now' >= now /\ calls' = calls /\ pc = "request"
      BY <2>t, <3>2 DEF Ended
    <3>3. CASE Text
      <4>1. Agent!Holds("finished")'
        BY <3>3, <3>b, <3>d DEF Text, Ended, Books, Agent!Holds
      <4> QED BY <2>3, <3>2, <3>3, <3>b, <3>d, <4>1 DEF Text, Books, Agent!Reasons
    <3>4. CASE FunctionCalls
      <4>1. asked' >= asked
        BY <3>4, <3>p, GeminiAssumption DEF FunctionCalls
      <4> QED BY <2>2, <3>2, <3>4, <3>d, <4>1 DEF FunctionCalls
    <3>5. CASE Throttled
      BY <2>2, <2>t, <3>2, <3>5, <3>d DEF Throttled
    <3>6. CASE Fails
      <4>1. Agent!Holds("error")'
        BY <3>6, <3>b, <3>d DEF Fails, Ended, Books, Agent!Holds
      <4> QED BY <2>3, <3>2, <3>6, <3>d, <4>1 DEF Fails, Agent!Reasons
    <3>7. CASE Wait
      <4>1. attempt < MaxRetries /\ pc' = "request"
        BY <3>7, <3>b DEF Wait, Books, MayRetry
      <4>2. now' >= now
        <5>1. retry_after \subseteq Nat
          BY PowerType, GeminiAssumption DEF Inv, TypeOK, ConversationTypeOK, retry_after
        <5> QED BY <2>t, <3>7, <5>1 DEF Wait
      <4> QED BY <2>2, <2>t, <3>7, <3>d, <4>1, <4>2 DEF Wait
    <3>8. ASSUME NEW kind \in Calls, Call(kind) PROVE Agent!Next
      <4>1. Len(calls) < asked /\ asked' = asked /\ pc = "act" /\ ~TurnsSpent
        BY <2>t, <3>8, <3>b, <3>p DEF Call, Books
      <4>2. ASSUME pc' = "raised", calls' = calls, now' >= now PROVE Agent!Next
        <5>1. Agent!Holds("raised")'
          BY <3>d, <4>1, <4>2 DEF Agent!Holds
        <5> QED BY <2>3, <3>d, <4>1, <4>2, <5>1 DEF Agent!Reasons
      <4>3. ASSUME NEW f \in BOOLEAN, Recorded(f), pc' = "act", now' >= now
            PROVE  Agent!Next
        BY <2>4, <3>d, <4>1, <4>3 DEF Recorded
      <4>4. CASE Recorded(TRUE) /\ pc' = "act" /\ UNCHANGED now
        <5>1. now' >= now
          BY <2>t, <4>4
        <5>2. TRUE \in BOOLEAN
          OBVIOUS
        <5> QED BY <4>3, <4>4, <5>1, <5>2
      <4>5. ASSUME kind \in Commands, NEW r \in invoke(kind), now' = now + r.took,
                   \/ r.ends = "raised" /\ pc' = "raised" /\ UNCHANGED <<calls, responses>>
                   \/ r.ends # "raised" /\ pc' = "act" /\ Recorded(r.ends = "failed")
            PROVE  Agent!Next
        <5>1. now' >= now
          BY <2>t, <4>5, SurfaceTypes
        <5>2. (r.ends = "failed") \in BOOLEAN
          OBVIOUS
        <5> QED BY <4>2, <4>3, <4>5, <5>1, <5>2
      <4> QED BY <3>8, <4>4, <4>5 DEF Call
    <3>9. CASE Respond
      <4>1. CASE pc' = "check"
        BY <2>2, <2>t, <3>9, <3>d, <4>1 DEF Respond
      <4>2. CASE pc' = "done" /\ stop_reason' = "budget_exhausted"
        <5>1. Agent!Holds("budget_exhausted")'
          BY <2>t, <3>9, <3>b, <3>d, <4>2 DEF Respond, Books, Agent!Holds
        <5> QED BY <2>3, <2>t, <3>9, <3>d, <4>2, <5>1 DEF Respond, Agent!Reasons
      <4> QED BY <3>9, <4>1, <4>2 DEF Respond
    <3> QED BY <2>5, <3>1, <3>3, <3>4, <3>5, <3>6, <3>7, <3>8, <3>9 DEF GeminiNext
  <2>6. CASE driver # "gemini" /\ ScriptedNext /\ UNCHANGED <<conversation, driver>>
    <3>d. driver # "gemini" /\ driver' # "gemini" /\ Progress /\ Progress'
          /\ wanted = Len(commands) /\ wanted' = Len(commands')
      BY <2>6 DEF Inv
    <3>1. CASE Finish
      <4>1. PICK reason \in {"finished", "budget_exhausted"} :
              stop_reason' = reason /\ pc' = "done" /\ commands' = commands
        BY <3>1, <3>d DEF Finish, Progress
      <4>2. Agent!Holds(reason)'
        BY <2>t, <3>d, <4>1 DEF Progress, Replayed, Agent!Holds
      <4> QED BY <2>3, <2>t, <3>1, <3>d, <4>1, <4>2 DEF Finish, Agent!Reasons
    <3>2. CASE Replay
      <4>1. /\ pc = "replay" /\ ~TurnsSpent /\ Len(calls) < Len(commands)
            /\ commands' = commands
        BY <2>t, <3>2, <3>d DEF Replay, Progress, OutOfCommands
      <4>2. commands[Len(calls) + 1] \in Commands
        BY <2>t, <4>1 DEF Inv, TypeOK
      <4>3. PICK r \in invoke(commands[Len(calls) + 1]) :
              /\ now' = now + r.took
              /\ \/ r.ends = "raised" /\ pc' = "raised" /\ UNCHANGED calls
                 \/ r.ends # "raised" /\ UNCHANGED pc
                    /\ calls' = Append(calls, r.ends = "failed")
        BY <3>2 DEF Replay
      <4>4. now' >= now
        BY <2>t, <4>2, <4>3, SurfaceTypes
      <4>5. CASE pc' = "raised" /\ UNCHANGED calls
        <5>1. Agent!Holds("raised")'
          BY <2>t, <3>d, <4>1, <4>5 DEF Agent!Holds
        <5> QED BY <2>3, <3>d, <4>1, <4>4, <4>5, <5>1 DEF Agent!Reasons
      <4>6. CASE UNCHANGED pc /\ calls' = Append(calls, r.ends = "failed")
        <5>1. (r.ends = "failed") \in BOOLEAN
          OBVIOUS
        <5> QED BY <2>4, <3>d, <4>1, <4>4, <4>6, <5>1
      <4> QED BY <4>3, <4>5, <4>6
    <3> QED BY <2>6, <3>1, <3>2 DEF ScriptedNext
  <2> QED BY <2>1, <2>5, <2>6 DEF Next
<1> QED BY <1>1, <1>2, InvHolds, PTL DEF Spec, ImplementsAgent, Agent!Spec

-----------------------------------------------------------------------------
\* The conversation: fit to be sent, or ending in an answer whose function
\* calls are as many as those pending and those responded to.
Owed(turns, n) ==
    \E sent \in Seq(Turn) :
        Answered(sent) /\ n > 0 /\ turns = Append(sent, Model(n))

History ==
    driver = "gemini" =>
        /\ pc \in {"check", "request", "wait"} => Answered(contents)
        /\ pc = "act" => Owed(contents, responses + pending)

\* Once every function call of an answer has its response, it can be sent.
LEMMA RoundIsAnswered ==
    ASSUME NEW sent \in Seq(Turn), Answered(sent), NEW n \in Nat
    PROVE  Answered(Append(Append(sent, Model(n)), User(n)))
<1> DEFINE turns == Append(Append(sent, Model(n)), User(n))
<1>1. Model(n) \in Turn /\ User(n) \in Turn /\ Len(sent) \in Nat
  BY DEF Model, User, Turn
<1>2. /\ Len(turns) = Len(sent) + 2
      /\ turns[Len(sent) + 1] = Model(n) /\ turns[Len(sent) + 2] = User(n)
      /\ \A i \in 1..Len(sent) : turns[i] = sent[i]
  BY <1>1
<1>3. Len(sent) % 2 = 1 /\ Len(turns) % 2 = 1 /\ (Len(sent) + 1) % 2 = 0
  BY <1>1, <1>2 DEF Answered
<1>4. ASSUME NEW i \in 1..Len(turns)
      PROVE  turns[i].by = IF i % 2 = 1 THEN "user" ELSE "model"
  <2>1. CASE i \in 1..Len(sent)
    BY <1>2, <2>1 DEF Answered
  <2>2. CASE i = Len(sent) + 1
    BY <1>2, <1>3, <2>2 DEF Model
  <2>3. CASE i = Len(sent) + 2
    BY <1>2, <1>3, <2>3 DEF User
  <2> QED BY <1>1, <1>2, <2>1, <2>2, <2>3
<1>5. ASSUME NEW i \in 2..Len(turns), i % 2 = 0
      PROVE  turns[i + 1].parts = turns[i].parts
  <2>1. CASE i \in 2..Len(sent)
    <3>1. i # Len(sent) /\ i + 1 \in 1..Len(sent) /\ i \in 1..Len(sent)
      BY <1>1, <1>3, <1>5, <2>1
    <3> QED BY <1>2, <1>5, <2>1, <3>1 DEF Answered
  <2>2. CASE i = Len(sent) + 1
    BY <1>1, <1>2, <2>2 DEF Model, User
  <2>3. i # Len(sent) + 2
    BY <1>1, <1>2, <1>3, <1>5
  <2> QED BY <1>1, <1>2, <2>1, <2>2, <2>3
<1> QED BY <1>3, <1>4, <1>5 DEF Answered

LEMMA InitHistory == Init => History
<1> SUFFICES ASSUME Init, driver = "gemini" PROVE History
  BY DEF History
<1>1. pc = "check" /\ contents = <<User(1)>>
  BY DEF Init, ConversationInit, _make_driver, RunInit
<1>2. Answered(<<User(1)>>)
  BY DEF Answered, User
<1> QED BY <1>1, <1>2 DEF History

LEMMA NextHistory == Inv /\ History /\ [Next]_vars => History'
<1> SUFFICES ASSUME Inv, History, [Next]_vars PROVE History'
  OBVIOUS
<1>1. CASE UNCHANGED vars
  BY <1>1 DEF vars, run, conversation, History, Answered, Owed
<1>2. CASE driver # "gemini"
  <2>1. driver' # "gemini"
    BY <1>2 DEF Next, vars
  <2> QED BY <2>1 DEF History
<1>3. CASE driver = "gemini" /\ GeminiNext /\ UNCHANGED <<commands, driver>>
  <2>1. CASE Check \/ Throttled \/ Wait
    BY <1>3, <2>1 DEF Check, Throttled, Wait, Ended, History, Answered
  <2>2. CASE Text \/ Fails
    BY <2>2 DEF Text, Fails, Ended, History
  <2>3. CASE FunctionCalls
    <3>1. PICK n \in 1..MaxBatch : contents' = Append(contents, Model(n)) /\ pending' = n
      BY <2>3 DEF FunctionCalls
    <3>2. contents \in Seq(Turn) /\ Answered(contents)
      BY <1>3, <2>3 DEF FunctionCalls, Ended, History, Inv, TypeOK, ConversationTypeOK
    <3>3. pc' = "act" /\ responses' + pending' = n /\ n > 0
      BY <2>3, <3>1, GeminiAssumption DEF FunctionCalls
    <3> QED BY <3>1, <3>2, <3>3 DEF Owed, History
  <2>4. ASSUME NEW kind \in Calls, Call(kind) PROVE History'
    <3>1. CASE pc' = "raised"
      BY <3>1 DEF History
    <3>2. CASE pc' # "raised"
      <4>1. pc = "act" /\ responses' + pending' = responses + pending
        <5>1. pc = "act" /\ responses' = responses + 1 /\ pending' = pending - 1
          BY <2>4, <3>2 DEF Call, Recorded
        <5>2. responses \in Nat /\ pending \in Nat
          BY GeminiAssumption DEF Inv, TypeOK, ConversationTypeOK
        <5> QED BY <5>1, <5>2
      <4>2. contents' = contents /\ pc' = "act"
        BY <2>4, <3>2 DEF Call
      <4> QED BY <1>3, <4>1, <4>2 DEF History, Owed
    <3> QED BY <3>1, <3>2
  <2>5. CASE Respond
    <3>1. CASE pending = 0
      <4>1. PICK sent \in Seq(Turn) :
              Answered(sent) /\ responses > 0 /\ contents = Append(sent, Model(responses))
        BY <1>3, <2>5, <3>1 DEF Respond, History, Owed, Inv, TypeOK, ConversationTypeOK
      <4>2. contents' = Append(Append(sent, Model(responses)), User(responses))
        BY <2>5, <4>1 DEF Respond
      <4>3. Answered(contents')
        BY <4>1, <4>2, RoundIsAnswered DEF Inv, TypeOK, ConversationTypeOK
      <4>4. pc' = "check"
        BY <2>5, <3>1 DEF Respond
      <4> QED BY <4>3, <4>4 DEF History, Answered
    <3>2. CASE pending # 0
      BY <2>5, <3>2 DEF Respond, History
    <3> QED BY <3>1, <3>2
  <2> QED BY <1>3, <2>1, <2>2, <2>3, <2>4, <2>5 DEF GeminiNext
<1> QED BY <1>1, <1>2, <1>3 DEF Next

\* Whatever the model sends and however its calls fail, each of its function
\* calls has a response before the model is asked again.
THEOREM HistoriesAreWellFormed == Spec => []HistoryWellFormed
<1>1. Inv /\ History => HistoryWellFormed
  BY DEF Inv, Progress, History, HistoryWellFormed
<1> QED BY <1>1, InitHistory, NextHistory, InvHolds, PTL DEF Spec

-----------------------------------------------------------------------------
\* The clock.  No wait before the attempt after a is longer than LongestWait(a).
LEMMA LongestWaitIsLongest ==
    ASSUME NEW a \in Nat
    PROVE  /\ LongestWait(a) \in Nat
           /\ \A s \in {h + 1 : h \in Hints} \cup {Fallback * 2^a} : s <= LongestWait(a)
<1> DEFINE waits == {h + 1 : h \in Hints} \cup {Fallback * 2^a}
<1>1. waits \in SUBSET Nat /\ waits # {}
  BY PowerType, GeminiAssumption
<1>2. IsFiniteSet(waits)
  <2>1. IsFiniteSet({h + 1 : h \in Hints})
    <3> DEFINE f == [h \in Hints |-> h + 1]
    <3>1. f \in Surjection(Hints, {h + 1 : h \in Hints})
      BY DEF Surjection
    <3> QED BY <3>1, FS_Surjection, GeminiAssumption
  <2> QED BY <2>1, FS_AddElement
<1>3. \E w \in waits : \A v \in waits : v <= w
  <2> HIDE DEF waits
  <2> QED BY <1>1, <1>2, FiniteMaximum
<1>4. LongestWait(a) \in waits /\ \A v \in waits : v <= LongestWait(a)
  BY <1>3 DEF LongestWait
<1> QED BY <1>1, <1>4

\* Waits is defined by recursion over the attempts.
LEMMA WaitsIsRecursive ==
    Waits = [n \in 0..MaxRetries |->
                IF n = 0 THEN 0 ELSE Waits[n - 1] + LongestWait(n - 1)]
<1> DEFINE Eq(g, N) == g = [n \in 0..N |->
                IF n = 0 THEN 0 ELSE g[n - 1] + LongestWait(n - 1)]
           S == {N \in Nat : \E g : Eq(g, N)}
<1>1. 0 \in S
  <2>1. Eq([n \in 0..0 |-> 0], 0)
    OBVIOUS
  <2> QED BY <2>1
<1>2. ASSUME NEW N \in Nat, N \in S PROVE N + 1 \in S
  <2>1. PICK g : Eq(g, N)
    BY <1>2
  <2> DEFINE h == [n \in 0..(N + 1) |->
                IF n = 0 THEN 0 ELSE g[n - 1] + LongestWait(n - 1)]
  <2>2. \A n \in 0..N : h[n] = g[n]
    BY <2>1
  <2>3. \A n \in 0..(N + 1) : h[n] = IF n = 0 THEN 0 ELSE h[n - 1] + LongestWait(n - 1)
    <3>1. \A n \in 0..(N + 1) : n # 0 => n - 1 \in 0..N
      OBVIOUS
    <3> QED BY <2>2, <3>1
  <2>4. Eq(h, N + 1)
    BY <2>3
  <2> HIDE DEF Eq, h
  <2>5. \E k : Eq(k, N + 1)
    BY <2>4
  <2> QED BY <2>5
<1>3. Nat \subseteq S
  <2> HIDE DEF S
  <2> QED BY <1>1, <1>2, NaturalInduction
<1>4. \E g : Eq(g, MaxRetries)
  BY <1>3, GeminiAssumption
<1>5. Waits = CHOOSE g : Eq(g, MaxRetries)
  BY DEF Waits
<1>6. Eq(Waits, MaxRetries)
  <2> HIDE DEF Eq
  <2> QED BY <1>4, <1>5
<1> QED BY <1>6

\* The waits add up, attempt by attempt, and never shrink.
LEMMA WaitsAddUp ==
    /\ Waits[0] = 0
    /\ \A n \in 0..MaxRetries : Waits[n] \in Nat /\ Waits[n] <= Waits[MaxRetries]
    /\ \A n \in 0..(MaxRetries - 1) : Waits[n + 1] = Waits[n] + LongestWait(n)
<1> USE GeminiAssumption
<1>1. Waits[0] = 0
  BY WaitsIsRecursive
<1>2. ASSUME NEW n \in 0..(MaxRetries - 1)
      PROVE  Waits[n + 1] = Waits[n] + LongestWait(n)
  <2>1. n + 1 \in 0..MaxRetries /\ n + 1 # 0 /\ (n + 1) - 1 = n
    OBVIOUS
  <2> QED BY <2>1, WaitsIsRecursive
<1>3. 0..MaxRetries \subseteq {n \in Nat : Waits[n] \in Nat}
  <2> DEFINE S == {n \in Nat : Waits[n] \in Nat}
  <2>1. 0 \in S
    BY <1>1
  <2>2. \A n \in 0..(MaxRetries - 1) : n \in S => n + 1 \in S
    BY <1>2, LongestWaitIsLongest
  <2>3. 0..MaxRetries \subseteq S
    <3> HIDE DEF S
    <3> QED BY <2>1, <2>2, BoundedInduction
  <2> QED BY <2>3
<1>4. 0..MaxRetries \subseteq {n \in Nat : Waits[MaxRetries - n] <= Waits[MaxRetries]}
  <2> DEFINE S == {n \in Nat : Waits[MaxRetries - n] <= Waits[MaxRetries]}
  <2>1. 0 \in S
    <3>1. Waits[MaxRetries] \in Nat
      BY <1>3
    <3> QED BY <3>1
  <2>2. ASSUME NEW n \in 0..(MaxRetries - 1), n \in S PROVE n + 1 \in S
    <3> DEFINE m == MaxRetries - (n + 1)
    <3>1. m \in 0..(MaxRetries - 1) /\ m + 1 = MaxRetries - n /\ m \in Nat
      OBVIOUS
    <3>2. Waits[m + 1] = Waits[m] + LongestWait(m) /\ LongestWait(m) \in Nat
      BY <1>2, <3>1, LongestWaitIsLongest
    <3>3. Waits[m] \in Nat /\ Waits[MaxRetries] \in Nat
      BY <1>3, <3>1
    <3>4. Waits[m + 1] <= Waits[MaxRetries]
      BY <2>2, <3>1
    <3> HIDE DEF m
    <3>5. Waits[m] <= Waits[MaxRetries]
      BY <3>2, <3>3, <3>4
    <3> QED BY <3>5 DEF m
  <2>3. 0..MaxRetries \subseteq S
    <3> HIDE DEF S
    <3> QED BY <2>1, <2>2, BoundedInduction
  <2> QED BY <2>3
<1>5. ASSUME NEW n \in 0..MaxRetries PROVE Waits[n] <= Waits[MaxRetries]
  <2>1. MaxRetries - n \in 0..MaxRetries /\ MaxRetries - (MaxRetries - n) = n
    OBVIOUS
  <2> QED BY <1>4, <2>1
<1> QED BY <1>1, <1>2, <1>3, <1>5

\* What the attempts of a round and the waits between them can take.
Attempts == (MaxRetries + 1) * RequestSeconds + Waits[MaxRetries]

\* Where the clock can be: a round begins before the deadline, and then each
\* attempt, wait and command adds no more than its own limit.
Punctual ==
    /\ OverrunBounded
    /\ driver = "gemini" =>
        /\ pc = "request" =>
            now < MaxSeconds + (attempt * RequestSeconds + Waits[attempt])
        /\ pc = "wait" =>
            now < MaxSeconds + ((attempt + 1) * RequestSeconds + Waits[attempt])
        /\ pc = "act" =>
            /\ now < MaxSeconds + (Attempts + responses * CallSeconds)
            /\ responses <= Len(calls)
    /\ driver # "gemini" /\ pc # "raised" => now <= Len(calls) * CallSeconds

LEMMA Products ==
    ASSUME NEW a \in Nat, NEW b \in Nat, NEW c \in Nat
    PROVE  /\ a * c \in Nat
           /\ (a + 1) * c = a * c + c
           /\ a <= b => a * c <= b * c
<1>1. a * c \in Nat /\ (a + 1) * c = a * c + c
  OBVIOUS
<1>2. ASSUME a <= b PROVE a * c <= b * c
  <2>1. PICK d \in Nat : b = a + d
    <3>1. b - a \in Nat /\ b = a + (b - a)
      BY <1>2
    <3> QED BY <3>1
  <2>2. b * c = a * c + d * c /\ d * c \in Nat
    BY <2>1
  <2> QED BY <1>1, <2>2
<1> QED BY <1>1, <1>2

\* What a round has taken before its commands never exceeds Attempts, and a
\* round with at most max_turns of them stays under LongestRound.
LEMMA RoundLimits ==
    /\ Attempts \in Nat /\ LongestRound \in Nat
    /\ \A a \in 0..MaxRetries :
        /\ a * RequestSeconds \in Nat /\ Waits[a] \in Nat
        /\ (a + 1) * RequestSeconds = a * RequestSeconds + RequestSeconds
        /\ (a + 1) * RequestSeconds + Waits[a] <= Attempts
    /\ \A n \in Nat : /\ n * CallSeconds \in Nat
                      /\ (n + 1) * CallSeconds = n * CallSeconds + CallSeconds
    /\ \A n \in 0..MaxTurns : Attempts + n * CallSeconds <= LongestRound
<1> USE GeminiAssumption, SurfaceAssumption, BudgetAssumption
<1>1. \A n \in 0..MaxRetries : Waits[n] \in Nat /\ Waits[n] <= Waits[MaxRetries]
  BY WaitsAddUp
<1>2. (MaxRetries + 1) * RequestSeconds \in Nat /\ Waits[MaxRetries] \in Nat
  BY <1>1, Products
<1>3. ASSUME NEW a \in 0..MaxRetries
      PROVE  /\ a * RequestSeconds \in Nat /\ Waits[a] \in Nat
             /\ (a + 1) * RequestSeconds = a * RequestSeconds + RequestSeconds
             /\ (a + 1) * RequestSeconds + Waits[a] <= Attempts
  <2>1. (a + 1) * RequestSeconds <= (MaxRetries + 1) * RequestSeconds
    BY Products
  <2>2. a * RequestSeconds \in Nat
        /\ (a + 1) * RequestSeconds = a * RequestSeconds + RequestSeconds
    BY Products
  <2> QED BY <1>1, <1>2, <2>1, <2>2 DEF Attempts
<1>4. \A n \in Nat : /\ n * CallSeconds \in Nat
                     /\ (n + 1) * CallSeconds = n * CallSeconds + CallSeconds
  BY Products
<1>5. \A n \in 0..MaxTurns : n * CallSeconds <= MaxTurns * CallSeconds
  BY Products
<1>6. MaxTurns * CallSeconds \in Nat
  BY Products
<1>7. LongestRound = Attempts + MaxTurns * CallSeconds
  BY DEF LongestRound, Attempts
<1> QED BY <1>2, <1>3, <1>4, <1>5, <1>6, <1>7 DEF Attempts

LEMMA InitPunctual == Init => Punctual
<1> SUFFICES ASSUME Init PROVE Punctual
  OBVIOUS
<1>1. PICK kind \in Kinds : _make_driver(kind)
  BY DEF Init
<1>2. \E start \in {"check", "replay"} : RunInit(start)
  BY <1>1, KindsAssumption DEF _make_driver, ScriptedInit
<1>3. now = 0 /\ Len(calls) = 0 /\ pc \in {"check", "replay"}
  BY <1>2 DEF RunInit
<1> QED BY <1>3, RoundLimits, BudgetAssumption, SurfaceAssumption
        DEF Punctual, OverrunBounded

\* Every step of the Gemini driver adds to the clock what its limit allows.
LEMMA GeminiPunctual ==
    ASSUME Types, Books, Punctual, driver = "gemini", driver' = driver, GeminiNext
    PROVE  Punctual'
<1> USE GeminiAssumption, SurfaceAssumption, BudgetAssumption, RoundLimits
<1>t. /\ now \in Nat /\ attempt \in 0..MaxRetries /\ attempt \in Nat
      /\ responses \in Nat /\ Len(calls) \in Nat
  BY DEF Types, RunTypeOK, ConversationTypeOK
<1>1. CASE Check
  <2>1. OverrunBounded'
    BY <1>1 DEF Check, Punctual, OverrunBounded, LongestRound
  <2>2. CASE pc' = "done"
    BY <2>1, <2>2 DEF Punctual
  <2>3. CASE pc' = "request"
    <3>1. now' < MaxSeconds /\ attempt' = 0 /\ Waits[0] = 0 /\ 0 * RequestSeconds = 0
      BY <1>1, <1>t, <2>3, WaitsAddUp DEF Check, OutOfTime
    <3> QED BY <2>1, <2>3, <3>1 DEF Punctual
  <2> QED BY <1>1, <2>2, <2>3 DEF Check
<1>2. CASE \E how \in {"text", "calls", "throttled", "daily", "error"} : Ended(how)
  <2>1. PICK took \in 0..RequestSeconds : now' = now + took
    BY <1>2 DEF Ended
  <2>2. now < MaxSeconds + (attempt * RequestSeconds + Waits[attempt])
    BY <1>2 DEF Ended, Punctual
  <2>3. now' < MaxSeconds + ((attempt + 1) * RequestSeconds + Waits[attempt])
    BY <1>t, <2>1, <2>2
  <2>4. now' < MaxSeconds + Attempts /\ Attempts <= LongestRound
    <3>1. 0 * CallSeconds = 0
      OBVIOUS
    <3>2. Attempts + 0 * CallSeconds <= LongestRound
      OBVIOUS
    <3> QED BY <1>t, <2>1, <2>3, <3>1, <3>2
  <2>5. OverrunBounded'
    BY <1>t, <2>1, <2>4 DEF OverrunBounded, LongestRound
  <2>6. attempt' = attempt /\ calls' = calls
    BY <1>2 DEF Ended
  <2>7. CASE Text \/ Fails
    BY <2>5, <2>7 DEF Text, Fails, Punctual
  <2>8. CASE Throttled
    BY <2>3, <2>5, <2>6, <2>8 DEF Throttled, Punctual
  <2>9. CASE FunctionCalls
    <3>1. pc' = "act" /\ responses' = 0 /\ 0 * CallSeconds = 0
      BY <2>9 DEF FunctionCalls
    <3>2. now' < MaxSeconds + (Attempts + responses' * CallSeconds)
      BY <2>1, <2>4, <3>1
    <3>3. responses' <= Len(calls')
      BY <1>t, <2>6, <3>1
    <3> QED BY <2>5, <3>1, <3>2, <3>3 DEF Punctual, Attempts
  <2> QED BY <1>2, <2>7, <2>8, <2>9
          DEF Ended, GeminiNext, Check, Wait, Call, Respond
<1>3. CASE Wait
  <2>1. attempt < MaxRetries /\ pc = "wait"
    BY <1>3 DEF Wait, Books, MayRetry
  <2>2. PICK s \in retry_after : now' = now + s
    BY <1>3 DEF Wait
  <2>3. s <= LongestWait(attempt) /\ s \in Nat /\ LongestWait(attempt) \in Nat
    <3>1. \A v \in retry_after : v <= LongestWait(attempt)
      BY <1>t, LongestWaitIsLongest DEF retry_after
    <3>2. LongestWait(attempt) \in Nat
      BY <1>t, LongestWaitIsLongest
    <3>3. retry_after \subseteq Nat
      BY <1>t, PowerType DEF retry_after
    <3> QED BY <2>2, <3>1, <3>2, <3>3
  <2>4. attempt' = attempt + 1 /\ pc' = "request"
    BY <1>3, <2>1 DEF Wait
  <2>5. attempt \in 0..(MaxRetries - 1) /\ attempt + 1 \in 0..MaxRetries
    BY <1>t, <2>1
  <2>6. Waits[attempt + 1] = Waits[attempt] + LongestWait(attempt)
    BY <2>5, WaitsAddUp
  <2>7. now < MaxSeconds + ((attempt + 1) * RequestSeconds + Waits[attempt])
    BY <2>1 DEF Punctual
  <2>8. now' < MaxSeconds + ((attempt + 1) * RequestSeconds + Waits[attempt + 1])
    <3> DEFINE spent == (attempt + 1) * RequestSeconds
               waited == Waits[attempt]
               longest == LongestWait(attempt)
    <3>1. spent \in Nat /\ waited \in Nat /\ longest \in Nat
      BY <2>3, <2>5
    <3>2. now < MaxSeconds + (spent + waited)
      BY <2>7
    <3> HIDE DEF spent, waited, longest
    <3>3. now + s < MaxSeconds + (spent + (waited + longest))
      BY <1>t, <2>3, <3>1, <3>2 DEF longest
    <3> QED BY <2>2, <2>6, <3>3 DEF spent, waited, longest
  <2>9. OverrunBounded'
    <3>1. ((attempt + 1) + 1) * RequestSeconds + Waits[attempt + 1] <= Attempts
      BY <2>5
    <3>2. (attempt + 1) * RequestSeconds \in Nat /\ Waits[attempt + 1] \in Nat
          /\ ((attempt + 1) + 1) * RequestSeconds
                = (attempt + 1) * RequestSeconds + RequestSeconds
      BY <2>5
    <3>3. Attempts + 0 * CallSeconds <= LongestRound /\ 0 * CallSeconds = 0
      OBVIOUS
    <3>4. now' \in Nat
      BY <1>t, <2>2, <2>3
    <3> QED BY <2>8, <3>1, <3>2, <3>3, <3>4 DEF OverrunBounded, LongestRound
  <2> QED BY <2>4, <2>8, <2>9 DEF Punctual
<1>4. ASSUME NEW kind \in Calls, Call(kind) PROVE Punctual'
  <2>1. /\ pc = "act" /\ responses <= Len(calls) /\ Len(calls) < MaxTurns
        /\ now < MaxSeconds + (Attempts + responses * CallSeconds)
    BY <1>4, <1>t DEF Call, Punctual, TurnsSpent
  <2>2. ASSUME NEW t \in 0..CallSeconds, now' = now + t, pc' = "raised"
        PROVE  Punctual'
    <3>1. responses + 1 \in 0..MaxTurns
      BY <1>t, <2>1
    <3>2. /\ responses * CallSeconds \in Nat
          /\ (responses + 1) * CallSeconds = responses * CallSeconds + CallSeconds
          /\ Attempts + (responses + 1) * CallSeconds <= LongestRound
      BY <1>t, <3>1
    <3>3. OverrunBounded'
      <4> DEFINE handled == responses * CallSeconds
      <4>1. /\ handled \in Nat /\ now < MaxSeconds + (Attempts + handled)
            /\ Attempts + (handled + CallSeconds) <= LongestRound
        BY <2>1, <3>2
      <4> HIDE DEF handled
      <4>2. now' < MaxSeconds + LongestRound
        BY <1>t, <2>2, <4>1
      <4> QED BY <4>2 DEF OverrunBounded, LongestRound
    <3> QED BY <2>2, <3>3 DEF Punctual
  <2>3. ASSUME NEW f \in BOOLEAN, Recorded(f), NEW t \in 0..CallSeconds,
               now' = now + t, pc' = "act"
        PROVE  Punctual'
    <3>1. Len(calls') = Len(calls) + 1 /\ responses' = responses + 1
      BY <2>3, RecordedTypes DEF Recorded, Types, ConversationTypeOK
    <3>2. now' < MaxSeconds + (Attempts + responses' * CallSeconds)
      BY <1>t, <2>1, <2>3, <3>1
    <3>3. responses' <= Len(calls') /\ responses' \in 0..MaxTurns
      BY <1>t, <2>1, <3>1
    <3>4. Attempts + responses' * CallSeconds <= LongestRound
      BY <3>3
    <3>5. OverrunBounded'
      <4> DEFINE handled == responses' * CallSeconds
      <4>1. handled \in Nat /\ now' \in Nat
        <5>1. responses' \in Nat
          BY <3>3
        <5>2. now' \in Nat
          BY <1>t, <2>3
        <5> QED BY <5>1, <5>2, Products
      <4>2. now' < MaxSeconds + (Attempts + handled)
            /\ Attempts + handled <= LongestRound
        BY <3>2, <3>4
      <4> HIDE DEF handled
      <4>3. now' < MaxSeconds + LongestRound
        <5>1. MaxSeconds \in Nat /\ Attempts \in Nat /\ LongestRound \in Nat
          OBVIOUS
        <5> QED BY <4>1, <4>2, <5>1
      <4> QED BY <4>3 DEF OverrunBounded, LongestRound
    <3> QED BY <2>3, <3>2, <3>3, <3>5 DEF Punctual, Attempts
  <2>4. CASE Recorded(TRUE) /\ pc' = "act" /\ UNCHANGED now
    <3>1. 0 \in 0..CallSeconds /\ now' = now + 0
      BY <1>t, <2>4
    <3> QED BY <2>3, <2>4, <3>1
  <2>5. ASSUME kind \in Commands, NEW r \in invoke(kind), now' = now + r.took,
               \/ r.ends = "raised" /\ pc' = "raised" /\ UNCHANGED <<calls, responses>>
               \/ r.ends # "raised" /\ pc' = "act" /\ Recorded(r.ends = "failed")
        PROVE  Punctual'
    <3>1. r.took \in 0..CallSeconds /\ (r.ends = "failed") \in BOOLEAN
      BY <2>5, SurfaceTypes
    <3> QED BY <2>2, <2>3, <2>5, <3>1
  <2> QED BY <1>4, <2>4, <2>5 DEF Call
<1>5. CASE Respond
  BY <1>5 DEF Respond, Punctual, OverrunBounded, LongestRound
<1> QED BY <1>1, <1>2, <1>3, <1>4, <1>5
        DEF GeminiNext, Text, FunctionCalls, Throttled, Fails

\* A scripted run takes no longer than its commands.
LEMMA ScriptedPunctual ==
    ASSUME RunTypeOK, commands \in Seq(Commands), Progress, Punctual,
           driver # "gemini", driver' = driver, ScriptedNext
    PROVE  Punctual'
<1> USE SurfaceAssumption, BudgetAssumption, RoundLimits
<1>1. /\ now \in Nat /\ Len(calls) \in Nat /\ Len(commands) \in Nat
      /\ pc # "raised" => now <= Len(calls) * CallSeconds
      /\ pc = "replay"
  BY DEF RunTypeOK, Punctual, ScriptedNext, Finish, Replay
<1>2. ASSUME now' \in Nat, NEW n \in 0..MaxTurns, now' <= n * CallSeconds,
             pc' = "raised" \/ n = Len(calls')
      PROVE  Punctual'
  <2>1. n * CallSeconds \in Nat /\ Attempts + n * CallSeconds <= LongestRound
    BY <1>2
  <2>2. OverrunBounded'
    BY <1>2, <2>1 DEF OverrunBounded, LongestRound
  <2> QED BY <1>2, <2>2 DEF Punctual
<1>3. CASE Finish
  <2>1. calls' = calls /\ now' = now
    BY <1>3 DEF Finish
  <2> QED BY <1>1, <1>2, <2>1 DEF Progress
<1>4. CASE Replay
  <2>1. Len(calls) + 1 <= MaxTurns /\ Len(calls) + 1 <= Len(commands)
    BY <1>1, <1>4 DEF Replay, Progress, OutOfCommands, TurnsSpent
  <2>2. commands[Len(calls) + 1] \in Commands
    BY <1>1, <2>1
  <2>3. PICK r \in invoke(commands[Len(calls) + 1]) :
          /\ now' = now + r.took
          /\ \/ r.ends = "raised" /\ pc' = "raised" /\ UNCHANGED calls
             \/ r.ends # "raised" /\ UNCHANGED pc
                /\ calls' = Append(calls, r.ends = "failed")
    BY <1>4 DEF Replay
  <2>4. r.took \in 0..CallSeconds /\ (r.ends = "failed") \in BOOLEAN
    BY <2>2, <2>3, SurfaceTypes
  <2>5. now' \in Nat /\ now' <= (Len(calls) + 1) * CallSeconds
        /\ Len(calls) + 1 \in 0..MaxTurns
    BY <1>1, <2>1, <2>3, <2>4
  <2>6. pc' = "raised" \/ Len(calls') = Len(calls) + 1
    BY <2>3, <2>4 DEF RunTypeOK
  <2> QED BY <1>2, <2>5, <2>6
<1> QED BY <1>3, <1>4 DEF ScriptedNext

LEMMA NextPunctual == Inv /\ Punctual /\ [Next]_vars => Punctual'
<1> SUFFICES ASSUME Inv, Punctual, [Next]_vars PROVE Punctual'
  OBVIOUS
<1>1. CASE UNCHANGED vars
  BY <1>1 DEF vars, run, conversation, Punctual, OverrunBounded, LongestRound
<1>2. CASE driver = "gemini" /\ GeminiNext /\ UNCHANGED <<commands, driver>>
  BY <1>2, GeminiPunctual DEF Inv, TypeOK, Types
<1>3. CASE driver # "gemini" /\ ScriptedNext /\ UNCHANGED <<conversation, driver>>
  BY <1>3, ScriptedPunctual DEF Inv, TypeOK
<1> QED BY <1>1, <1>2, <1>3 DEF Next

\* Whatever the API and the surface do, a run is over less than one round after
\* its deadline: all the attempts, the waits between them, and the commands.
THEOREM OverrunsAreBounded == Spec => []OverrunBounded
<1>1. Punctual => OverrunBounded
  BY DEF Punctual
<1> QED BY <1>1, InitPunctual, NextPunctual, InvHolds, PTL DEF Spec
=============================================================================
