--------------------------- MODULE CommandProofs ---------------------------
(***************************************************************************)
(* Proofs about Command for any environments, .env files, command lines,   *)
(* scenario files and outcomes of runs.                                    *)
(***************************************************************************)
EXTENDS Command, SetInduction

-----------------------------------------------------------------------------
\* Scenario files.  Of a sequence of outcomes the earliest wrong one decides,
\* and there is one as soon as any is wrong.
LEMMA EarliestIsOk ==
    ASSUME NEW outcomes, DOMAIN outcomes \subseteq Nat
    PROVE  Earliest(outcomes) = "ok"
               <=> \A i \in DOMAIN outcomes : outcomes[i] = "ok"
<1> DEFINE wrong == {i \in DOMAIN outcomes : outcomes[i] # "ok"}
<1>1. CASE wrong = {}
  BY <1>1 DEF Earliest
<1>2. CASE wrong # {}
  <2> DEFINE first == CHOOSE i \in wrong : \A j \in wrong : i <= j
  <2>1. \E i \in wrong : \A j \in wrong : i <= j
    <3>1. wrong \in SUBSET Nat
      OBVIOUS
    <3> HIDE DEF wrong
    <3> QED BY <1>2, <3>1, LeastNatural
  <2>2. first \in wrong
    <3> HIDE DEF wrong
    <3> QED BY <2>1
  <2>3. Earliest(outcomes) = outcomes[first]
    BY <1>2 DEF Earliest
  <2> HIDE DEF first
  <2> QED BY <1>2, <2>2, <2>3
<1> QED BY <1>1, <1>2

LEMMA RequireIsSound ==
    ASSUME NEW data, NEW key
    PROVE  _require(data, key) = "ok" <=> Sound(data, key)
  BY DEF _require, Sound, Given, Crash

LEMMA RequireAllIsSound ==
    ASSUME NEW data, NEW keys
    PROVE  RequireAll(data, keys) = "ok"
               <=> \A k \in 1..Len(keys) : Sound(data, keys[k])
<1>1. DOMAIN [i \in 1..Len(keys) |-> _require(data, keys[i])] \subseteq Nat
  OBVIOUS
<1> QED BY <1>1, EarliestIsOk, RequireIsSound DEF RequireAll

LEMMA BuildCheckIsExact ==
    ASSUME NEW spec
    PROVE  BuildCheck(spec) = "ok" <=>
            /\ Given(spec, "type") /\ spec.type \in DOMAIN Required
            /\ \A k \in 1..Len(Required[spec.type]) :
                Sound(spec, Required[spec.type][k])
<1>1. \A t \in DOMAIN Required : t \notin {"null", ""}
  BY DEF Required
<1> QED BY <1>1, RequireAllIsSound DEF BuildCheck, Given

\* A file loads exactly when it is well formed.
LEMMA ParseIsExact ==
    ASSUME NEW data
    PROVE  _parse(data) = "ok" <=> WellFormed(data)
<1> DEFINE
      head == RequireAll(data, <<"id", "namespace", "task">>)
      checks == BuildEach(data.verify, BuildCheck)
      scope == BuildEach(data.in_scope, LAMBDA e : _require(e, "name"))
      steps == BuildEach(data.solution, LAMBDA s : _require(s, "args"))
      all == <<head, checks, BuildVerification(data), scope, steps, Timeout(data)>>
<1>1. head = "ok" <=> \A key \in {"id", "namespace", "task"} : Given(data, key)
  <2>1. head = "ok" <=> \A k \in 1..3 : Sound(data, <<"id", "namespace", "task">>[k])
    BY RequireAllIsSound
  <2> QED BY <2>1 DEF Sound, Converted
<1>2. checks = "ok" <=> \A i \in 1..Len(data.verify) :
        /\ data.verify[i] # NotMapping /\ Given(data.verify[i], "type")
        /\ data.verify[i].type \in DOMAIN Required
        /\ \A k \in 1..Len(Required[data.verify[i].type]) :
            Sound(data.verify[i], Required[data.verify[i].type][k])
  <2> DEFINE outcomes == [i \in 1..Len(data.verify) |->
                IF data.verify[i] = NotMapping THEN Crash ELSE BuildCheck(data.verify[i])]
  <2>1. checks = Earliest(outcomes) /\ DOMAIN outcomes \subseteq Nat
    BY DEF BuildEach
  <2>2. checks = "ok" <=> \A i \in DOMAIN outcomes : outcomes[i] = "ok"
    <3> HIDE DEF outcomes, checks
    <3> QED BY <2>1, EarliestIsOk
  <2> HIDE DEF checks
  <2> QED BY <2>2, BuildCheckIsExact DEF Crash
<1>3. scope = "ok" <=> \A i \in 1..Len(data.in_scope) :
        data.in_scope[i] # NotMapping /\ Sound(data.in_scope[i], "name")
  <2> DEFINE outcomes == [i \in 1..Len(data.in_scope) |->
                IF data.in_scope[i] = NotMapping THEN Crash
                ELSE _require(data.in_scope[i], "name")]
  <2>1. scope = Earliest(outcomes) /\ DOMAIN outcomes \subseteq Nat
    BY DEF BuildEach
  <2>2. scope = "ok" <=> \A i \in DOMAIN outcomes : outcomes[i] = "ok"
    <3> HIDE DEF outcomes, scope
    <3> QED BY <2>1, EarliestIsOk
  <2> HIDE DEF scope
  <2> QED BY <2>2, RequireIsSound DEF Crash
<1>4. steps = "ok" <=> \A i \in 1..Len(data.solution) :
        data.solution[i] # NotMapping /\ Sound(data.solution[i], "args")
  <2> DEFINE outcomes == [i \in 1..Len(data.solution) |->
                IF data.solution[i] = NotMapping THEN Crash
                ELSE _require(data.solution[i], "args")]
  <2>1. steps = Earliest(outcomes) /\ DOMAIN outcomes \subseteq Nat
    BY DEF BuildEach
  <2>2. steps = "ok" <=> \A i \in DOMAIN outcomes : outcomes[i] = "ok"
    <3> HIDE DEF outcomes, steps
    <3> QED BY <2>1, EarliestIsOk
  <2> HIDE DEF steps
  <2> QED BY <2>2, RequireIsSound DEF Crash
<1>5. Earliest(all) = "ok" <=>
        /\ head = "ok" /\ checks = "ok" /\ BuildVerification(data) = "ok"
        /\ scope = "ok" /\ steps = "ok" /\ Timeout(data) = "ok"
  <2> HIDE DEF head, checks, scope, steps
  <2>1. DOMAIN all = 1..6
    OBVIOUS
  <2> QED BY <2>1, EarliestIsOk
<1>6. data # NotYaml => _parse(data) = Earliest(all)
  BY DEF _parse
<1> HIDE DEF head, checks, scope, steps, all
<1> QED BY <1>1, <1>2, <1>3, <1>4, <1>5, <1>6
        DEF _parse, WellFormed, BuildVerification, Timeout, Crash

LEMMA DiscoverIsExact ==
    ASSUME NEW fs
    PROVE  discover(fs) = "ok" <=>
                fs # NoDirectory /\ \A i \in 1..Len(fs) : WellFormed(fs[i])
<1>1. DOMAIN [i \in 1..Len(fs) |-> _parse(fs[i])] \subseteq Nat
  OBVIOUS
<1> QED BY <1>1, EarliestIsOk, ParseIsExact DEF discover

-----------------------------------------------------------------------------
\* The .env file.  Its settings after each line.
LEMMA SettingsRecursion ==
    ASSUME NEW lines, Len(lines) \in Nat
    PROVE  \E settings :
             /\ settings = [n \in 0..Len(lines) |->
                    IF n = 0 THEN <<>> ELSE assign(settings[n - 1], lines[n])]
             /\ parse_dotenv(lines) = settings[Len(lines)]
<1> DEFINE Eq(g, N) == g = [n \in 0..N |->
                IF n = 0 THEN <<>> ELSE assign(g[n - 1], lines[n])]
           S == {N \in Nat : \E g : Eq(g, N)}
<1>1. 0 \in S
  <2>1. Eq([n \in 0..0 |-> <<>>], 0)
    OBVIOUS
  <2> QED BY <2>1
<1>2. ASSUME NEW N \in Nat, N \in S PROVE N + 1 \in S
  <2>1. PICK g : Eq(g, N)
    BY <1>2
  <2> DEFINE h == [n \in 0..(N + 1) |->
                IF n = 0 THEN <<>> ELSE assign(g[n - 1], lines[n])]
  <2>2. \A n \in 0..N : h[n] = g[n]
    BY <2>1
  <2>3. \A n \in 0..(N + 1) :
            h[n] = IF n = 0 THEN <<>> ELSE assign(h[n - 1], lines[n])
    <3>1. \A n \in 0..(N + 1) : n # 0 => n - 1 \in 0..N
      OBVIOUS
    <3> QED BY <2>2, <3>1
  <2>4. Eq(h, N + 1)
    BY <2>3
  <2> HIDE DEF Eq, h
  <2>5. \E k : Eq(k, N + 1)
    BY <2>4
  <2> QED BY <2>5
<1>3. Nat \subseteq S
  <2> HIDE DEF S
  <2> QED BY <1>1, <1>2, NaturalInduction
<1>4. \E g : Eq(g, Len(lines))
  BY <1>3
<1> DEFINE settings == CHOOSE g : Eq(g, Len(lines))
<1>5. parse_dotenv(lines) = settings[Len(lines)]
  BY DEF parse_dotenv
<1>6. Eq(settings, Len(lines))
  <2> HIDE DEF Eq
  <2> QED BY <1>4
<1> HIDE DEF settings
<1> QED BY <1>5, <1>6

\* A setting made more than once has the value it was given last.
LEMMA LastSettingCounts ==
    ASSUME NEW lines, Len(lines) \in Nat
    PROVE  LET set == {i \in 1..Len(lines) : lines[i].name = KeyName}
           IN  KeyName \in DOMAIN parse_dotenv(lines) =>
                \E i \in set :
                    /\ \A j \in set : j <= i
                    /\ parse_dotenv(lines)[KeyName] = unquoted(lines[i].value)
<1> DEFINE N == Len(lines)
           set(n) == {i \in 1..n : lines[i].name = KeyName}
<1>1. PICK settings :
        /\ settings = [n \in 0..N |->
                IF n = 0 THEN <<>> ELSE assign(settings[n - 1], lines[n])]
        /\ parse_dotenv(lines) = settings[N]
  BY SettingsRecursion
<1> DEFINE Last(n) == KeyName \in DOMAIN settings[n] =>
                \E i \in set(n) :
                    /\ \A j \in set(n) : j <= i
                    /\ settings[n][KeyName] = unquoted(lines[i].value)
           S == {n \in 0..N : Last(n)}
<1>2. 0 \in S
  <2>1. settings[0] = <<>>
    BY <1>1
  <2> QED BY <2>1
<1>3. ASSUME NEW n \in 0..(N - 1), n \in S PROVE n + 1 \in S
  <2>1. settings[n + 1] = assign(settings[n], lines[n + 1])
    BY <1>1
  <2>2. CASE lines[n + 1].name = KeyName
    <3>1. KeyName # ""
      BY DEF KeyName
    <3>2. settings[n + 1][KeyName] = unquoted(lines[n + 1].value)
      BY <2>1, <2>2, <3>1 DEF assign
    <3>3. n + 1 \in set(n + 1) /\ \A j \in set(n + 1) : j <= n + 1
      BY <2>2
    <3> QED BY <3>2, <3>3
  <2>3. CASE lines[n + 1].name # KeyName
    <3>1. set(n + 1) = set(n)
      BY <2>3
    <3>2. /\ KeyName \in DOMAIN settings[n + 1] => KeyName \in DOMAIN settings[n]
          /\ KeyName \in DOMAIN settings[n] =>
                settings[n + 1][KeyName] = settings[n][KeyName]
      BY <2>1, <2>3 DEF assign
    <3>3. Last(n)
      BY <1>3
    <3> HIDE DEF set
    <3> QED BY <3>1, <3>2, <3>3
  <2> QED BY <2>2, <2>3
<1>4. Last(N)
  <2> HIDE DEF S
  <2>1. 0..N \subseteq S
    BY <1>2, <1>3, BoundedInduction
  <2> QED BY <2>1 DEF S
<1> QED BY <1>1, <1>4

\* A usable, accepted key is the exported one, unquoted, or else the last one
\* in .env, which may be in straight quotes.
LEMMA KeyComesFrom ==
    ASSUME NEW sh, NEW lines \in DotEnvs,
           Usable(load_dotenv(sh, parse_dotenv(lines))),
           load_dotenv(sh, parse_dotenv(lines))[KeyName].text \in ValidKeys
    PROVE  LET set == {i \in 1..Len(lines) : lines[i].name = KeyName}
           IN IF KeyName \in DOMAIN sh
              THEN sh[KeyName].text \in ValidKeys /\ sh[KeyName].quote = "none"
              ELSE \E i \in set :
                    /\ \A j \in set : j <= i
                    /\ lines[i].value.text \in ValidKeys
                    /\ lines[i].value.quote # "curly"
<1> DEFINE settings == parse_dotenv(lines)
           key == load_dotenv(sh, settings)[KeyName]
           set == {i \in 1..Len(lines) : lines[i].name = KeyName}
<1>1. /\ KeyName \in DOMAIN sh \/ KeyName \in DOMAIN settings
      /\ key = IF KeyName \in DOMAIN sh THEN sh[KeyName] ELSE settings[KeyName]
      /\ key.text \in ValidKeys /\ key.quote = "none"
  BY DEF load_dotenv, Usable
<1>2. CASE KeyName \in DOMAIN sh
  BY <1>1, <1>2
<1>3. CASE KeyName \notin DOMAIN sh
  <2>1. Len(lines) \in Nat
    BY CommandAssumption DEF IsSequence
  <2>2. PICK i \in set : /\ \A j \in set : j <= i
                         /\ settings[KeyName] = unquoted(lines[i].value)
    BY <1>1, <1>3, <2>1, LastSettingCounts
  <2>3. lines[i].value \in [text : STRING, quote : {"none", "straight", "curly"}]
    BY CommandAssumption
  <2>4. /\ lines[i].value.text = unquoted(lines[i].value).text
        /\ unquoted(lines[i].value).quote = "none" => lines[i].value.quote # "curly"
    BY <2>3 DEF unquoted
  <2> HIDE DEF settings
  <2> QED BY <1>1, <1>3, <2>2, <2>4
<1> QED BY <1>2, <1>3

-----------------------------------------------------------------------------
\* Rows.  The notes of a group name each of its incidents once.
LEMMA IncidentsAreNoted ==
    ASSUME NEW runs, IsFiniteSet(DOMAIN runs)
    PROVE  LET notes == _incidents(runs)
               Count(reason) == IF reason \in DOMAIN notes THEN notes[reason] ELSE 0
           IN  Cardinality({i \in DOMAIN runs :
                        runs[i].stop_reason \in _INCIDENT_REASONS}) =
                    Count("timeout") + Count("error") + Count("harness_error")
<1> DEFINE notes == _incidents(runs)
           Count(reason) == IF reason \in DOMAIN notes THEN notes[reason] ELSE 0
           Of(reason) == {i \in DOMAIN runs : runs[i].stop_reason = reason}
<1>1. ASSUME NEW reason \in _INCIDENT_REASONS
      PROVE  Count(reason) = Cardinality(Of(reason)) /\ IsFiniteSet(Of(reason))
  <2>1. CASE reason \in DOMAIN notes
    BY <2>1, FS_Subset DEF _incidents
  <2>2. CASE reason \notin DOMAIN notes
    <3>1. Of(reason) = {}
      BY <1>1, <2>2 DEF _incidents
    <3> QED BY <2>2, <3>1, FS_EmptySet
  <2> QED BY <2>1, <2>2
<1> DEFINE A == Of("timeout")
           B == Of("error")
           C == Of("harness_error")
<1>2. A \cap B = {} /\ (A \cup B) \cap C = {}
  OBVIOUS
<1>3. {i \in DOMAIN runs : runs[i].stop_reason \in _INCIDENT_REASONS}
        = (A \cup B) \cup C
  BY DEF _INCIDENT_REASONS
<1>4. IsFiniteSet(A) /\ IsFiniteSet(B) /\ IsFiniteSet(C)
  BY <1>1 DEF _INCIDENT_REASONS
<1>5. Count("timeout") = Cardinality(A) /\ Count("error") = Cardinality(B)
        /\ Count("harness_error") = Cardinality(C)
  <2> HIDE DEF Count, Of
  <2> QED BY <1>1 DEF _INCIDENT_REASONS
<1> HIDE DEF A, B, C
<1>6. IsFiniteSet(A \cup B) /\ Cardinality(A \cup B) = Cardinality(A) + Cardinality(B)
  <2>1. Cardinality(A \cap B) = 0
    BY <1>2, FS_EmptySet
  <2>2. /\ IsFiniteSet(A \cup B)
        /\ Cardinality(A \cup B) = Cardinality(A) + Cardinality(B) - Cardinality(A \cap B)
    BY <1>4, FS_Union
  <2> QED BY <1>4, <2>1, <2>2, FS_CardinalityType
<1>7. Cardinality((A \cup B) \cup C) = Cardinality(A \cup B) + Cardinality(C)
  <2>1. Cardinality((A \cup B) \cup C) = Cardinality(A \cup B) + Cardinality(C) - 0
    BY <1>2, <1>4, <1>6, FS_Union, FS_EmptySet
  <2> QED BY <1>4, <1>6, <2>1, FS_CardinalityType
<1> QED BY <1>3, <1>5, <1>6, <1>7

\* n scenarios of r runs each, one after another: the place of each run.
LEMMA PlaceOfRun ==
    ASSUME NEW n \in Nat, NEW r \in Nat, NEW i \in 1..n, NEW j \in 0..(r - 1)
    PROVE  /\ (i - 1) * r + j + 1 \in 1..(n * r)
           /\ ((i - 1) * r + j) \div r = i - 1
           /\ ((i - 1) * r + j) % r = j
<1>1. r > 0 /\ n * r \in Nat
  OBVIOUS
<1>2. (i - 1) * r \in Nat /\ (i - 1) * r + r <= n * r
  <2>1. (i - 1) * r + r = i * r
    OBVIOUS
  <2>2. i * r <= n * r
    OBVIOUS
  <2> QED BY <1>1, <2>1, <2>2
<1> QED BY <1>1, <1>2

LEMMA FirstPlace ==
    ASSUME NEW n \in Nat, NEW r \in Nat \ {0}, NEW i \in 1..n
    PROVE  (i - 1) * r + 1 \in 1..(n * r) /\ ((i - 1) * r) \div r = i - 1
<1>1. 0 \in 0..(r - 1)
  OBVIOUS
<1>2. (i - 1) * r + 0 + 1 \in 1..(n * r) /\ ((i - 1) * r + 0) \div r = i - 1
  BY <1>1, PlaceOfRun
<1>3. (i - 1) * r + 0 = (i - 1) * r
  OBVIOUS
<1> QED BY <1>2, <1>3

\* A scenario that occurs among
\* them has r runs for each time it does.
LEMMA EveryRunHasItsScenario ==
    ASSUME NEW n \in Nat, NEW r \in Nat, NEW I \in SUBSET (1..n)
    PROVE  LET K == {k \in 1..(n * r) : ((k - 1) \div r) + 1 \in I}
           IN  IsFiniteSet(K) /\ Cardinality(K) = r * Cardinality(I)
<1> DEFINE K == {k \in 1..(n * r) : ((k - 1) \div r) + 1 \in I}
           R == 0..(r - 1)
           f == [x \in I \X R |-> (x[1] - 1) * r + x[2] + 1]
<1>0. n * r \in Nat /\ (\A i \in I : i \in Int) /\ (\A j \in R : j \in Int)
  OBVIOUS
<1>1. IsFiniteSet(I) /\ IsFiniteSet(R) /\ Cardinality(R) = r
  <2>1. IsFiniteSet(1..n)
    BY FS_Interval
  <2>2. IsFiniteSet(R) /\ Cardinality(R) = r
    BY FS_Interval
  <2> QED BY <2>1, <2>2, FS_Subset
<1>2. IsFiniteSet(I \X R) /\ Cardinality(I \X R) = Cardinality(I) * r
  <2> HIDE DEF R
  <2> QED BY <1>1, FS_Product
<1>3. ASSUME NEW i \in I, NEW j \in R
      PROVE  /\ (i - 1) * r + j + 1 \in 1..(n * r)
             /\ ((i - 1) * r + j) \div r = i - 1
             /\ ((i - 1) * r + j) % r = j
  BY PlaceOfRun
<1>4. ASSUME NEW k \in K
      PROVE  \E x \in I \X R : f[x] = k
  <2>1. k - 1 \in Nat /\ r > 0
    BY <1>0
  <2>2. k - 1 = r * ((k - 1) \div r) + ((k - 1) % r) /\ (k - 1) % r \in R
    BY <2>1
  <2>3. ((k - 1) \div r) + 1 \in I
    OBVIOUS
  <2> DEFINE q == (k - 1) \div r
  <2>4. q \in Nat
    BY <2>1
  <2>5. <<q + 1, (k - 1) % r>> \in I \X R
    BY <2>2, <2>3
  <2>6. f[<<q + 1, (k - 1) % r>>] = q * r + ((k - 1) % r) + 1
    <3>1. (q + 1) - 1 = q
      BY <2>4
    <3> HIDE DEF q
    <3> QED BY <2>5, <3>1
  <2>7. q * r + ((k - 1) % r) + 1 = k
    BY <2>1, <2>2, <2>4
  <2> QED BY <2>5, <2>6, <2>7
<1>5. f \in Bijection(I \X R, K)
  <2>1. ASSUME NEW x \in I \X R
        PROVE  /\ x = <<x[1], x[2]>> /\ x[1] \in I /\ x[2] \in R
               /\ f[x] \in K
               /\ (f[x] - 1) \div r = x[1] - 1 /\ (f[x] - 1) % r = x[2]
    <3>1. x = <<x[1], x[2]>> /\ x[1] \in I /\ x[2] \in R
      <4> HIDE DEF R
      <4> QED OBVIOUS
    <3> DEFINE i == x[1]
               j == x[2]
    <3>2. f[x] = (i - 1) * r + j + 1
      OBVIOUS
    <3> HIDE DEF f, R
    <3>i. i \in Int /\ j \in Int
      BY <1>0, <3>1, Zenon
    <3> HIDE DEF i, j
    <3>3. (i - 1) * r + j \in Int /\ i - 1 \in Int
      BY <3>i
    <3>4. f[x] - 1 = (i - 1) * r + j
      BY <3>2, <3>3
    <3>5. f[x] \in 1..(n * r) /\ (f[x] - 1) \div r = i - 1 /\ (f[x] - 1) % r = j
      BY <1>3, <3>1, <3>2, <3>4 DEF i, j
    <3>6. (i - 1) + 1 = i
      BY <3>i
    <3>7. f[x] \in K
      BY <3>1, <3>5, <3>6 DEF i
    <3> QED BY <3>1, <3>5, <3>7 DEF i, j
  <2>2. ASSUME NEW x \in I \X R, NEW y \in I \X R, f[x] = f[y] PROVE x = y
    <3> HIDE DEF f, K, R
    <3>1. x[1] - 1 = y[1] - 1 /\ x[2] = y[2]
      BY <2>1, <2>2
    <3>2. x[1] \in Int /\ y[1] \in Int
      BY <1>0, <2>1
    <3>3. x[1] = y[1]
      BY <3>1, <3>2
    <3>4. x = <<x[1], x[2]>> /\ y = <<y[1], y[2]>>
      BY <2>1
    <3> QED BY <3>1, <3>3, <3>4
  <2>3. f \in [I \X R -> K]
    BY <2>1
  <2> HIDE DEF f, K, R
  <2> QED BY <1>4, <2>2, <2>3 DEF Bijection, Injection, Surjection, IsInjective
<1>6. IsFiniteSet(K) /\ Cardinality(K) = Cardinality(I) * r
  <2> HIDE DEF K, R, f
  <2> QED BY <1>2, <1>5, FS_Bijection DEF ExistsBijection
<1>7. Cardinality(I) * r = r * Cardinality(I)
  BY <1>1, FS_CardinalityType
<1> QED BY <1>6, <1>7

-----------------------------------------------------------------------------
\* The invocation.  What a command has got to, stage by stage.
InSweep(k) == scenarios[((k - 1) \div argv.repeats) + 1]
RunRecords == [scenario : Ids, passed : BOOLEAN,
               stop_reason : {o.stop_reason : o \in Outcomes}, blast_score : Nat]
Sweeping == pc \in {"run", "running", "written"} \/ begun > 0
AnyPassed == \E i \in 1..Len(results) : results[i].passed

\* Runs land one by one, each as a run of the scenario whose turn it is.
InOrder ==
    /\ IsSequence(scenarios)
    /\ results \in Seq(RunRecords)
    /\ \A k \in 1..Len(results) : results[k].scenario = InSweep(k).id
    /\ pc \in {"env", "discover", "probe"} => begun = 0 /\ results = <<>>
    /\ pc = "running" => Len(results) = begun - 1

\* The environment is read once; a sweep has bounds, files that load and a key
\* that was tried.
Admitted ==
    /\ environ = IF pc = "env" \/ ~Decodes(dotenv) THEN shell
                 ELSE load_dotenv(shell, parse_dotenv(dotenv))
    /\ Sweeping \/ pc \in {"discover", "probe"} => Decodes(dotenv)
    /\ Sweeping \/ pc = "probe" =>
            argv.command = "run" /\ argv.positive /\ discover(files) = "ok"
    /\ argv.driver = "gemini" =>
            (Sweeping => Accepted) /\ (begun > 0 => Usable(environ))

\* What is written is the whole sweep, and the status says what it holds.
Reported ==
    /\ pc \in {"env", "discover", "probe", "run", "running"} => ~written
    /\ written => /\ begun = Total /\ Len(results) = Total
                  /\ rows = aggregate(results) /\ argv.command = "run"
    /\ pc = "written" => written
    /\ exit \in {"0", "1"} =>
        exit = IF IF argv.command = "run" THEN written /\ AnyPassed
                  ELSE Decodes(dotenv) /\ discover(files) = "ok"
               THEN "0" ELSE "1"

\* The inductive invariant behind the theorems below.
Inv == TypeOK /\ InOrder /\ Admitted /\ Reported

\* The steps by what they do: the ways to leave, and one step of each stage.
Ends ==
    /\ pc # "exited" /\ (pc = "env" => ~Decodes(dotenv))
    /\ \E status \in {"0", "1", "130"} :
        /\ Leave(status)
        /\ status \in {"0", "1"} =>
            status = IF IF argv.command = "run" THEN pc = "written" /\ AnyPassed
                        ELSE Decodes(dotenv) /\ discover(files) = "ok"
                     THEN "0" ELSE "1"
Loads ==
    /\ pc = "env" /\ Decodes(dotenv) /\ pc' = "discover"
    /\ environ' = load_dotenv(environ, parse_dotenv(dotenv))
    /\ UNCHANGED <<started, argv, files, scenarios, begun, results, rows, written,
                   exit>>
Selects ==
    /\ pc = "discover" /\ argv.command = "run" /\ argv.positive
    /\ discover(files) = "ok"
    /\ scenarios' = Asked /\ pc' = "probe"
    /\ UNCHANGED <<started, environ, argv, files, begun, results, rows, written, exit>>
Starts ==
    /\ pc = "probe" /\ pc' = "run" /\ (argv.driver = "gemini" => Accepted)
    /\ UNCHANGED <<started, environ, argv, files, scenarios, begun, results, rows,
                   written, exit>>
Begins ==
    /\ pc = "run" /\ begun < Total /\ (argv.driver = "gemini" => Usable(environ))
    /\ begun' = begun + 1 /\ pc' = "running"
    /\ UNCHANGED <<started, environ, argv, files, scenarios, results, rows, written,
                   exit>>

LEMMA Steps ==
    ASSUME Inv, Next
    PROVE  Ends \/ Loads \/ Selects \/ Starts \/ Begins \/ Land \/ WriteResults
<1>1. pc \in {"probe", "run", "running", "written"} => argv.command = "run"
  BY DEF Inv, Admitted, Sweeping
<1>d. pc = "discover" => Decodes(dotenv)
  BY DEF Inv, Admitted
<1>e. CASE LoadDotenv
  BY <1>e DEF LoadDotenv, Ends, Loads, Inv, Reported
<1>2. CASE ListOrValidate
  BY <1>2, <1>d DEF ListOrValidate, Ends
<1>3. CASE Discover
  BY <1>3 DEF Discover, Ends, Selects
<1>4. CASE Probe
  BY <1>1, <1>4 DEF Probe, Ends, Starts
<1>5. CASE BeginRun
  BY <1>1, <1>5 DEF BeginRun, MoreRuns, Makes, Ends, Begins
<1>6. CASE RunRaises \/ WriteFails \/ Interrupt
  BY <1>1, <1>6 DEF RunRaises, WriteFails, Interrupt, Ends
<1>7. CASE Return
  BY <1>1, <1>7 DEF Return, Ends, AnyPassed
<1> QED BY <1>e, <1>2, <1>3, <1>4, <1>5, <1>6, <1>7 DEF Next

-----------------------------------------------------------------------------
LEMMA Counts ==
    ASSUME Inv
    PROVE  /\ Len(scenarios) \in Nat /\ argv.repeats \in Nat /\ Total \in Nat
           /\ Total = Len(scenarios) * argv.repeats
<1>1. Len(scenarios) \in Nat /\ argv.repeats \in Nat
  BY CommandAssumption DEF Inv, InOrder, TypeOK, IsSequence
<1> QED BY <1>1 DEF Total

\* Among finitely many numbers there is a k-th, for each k up to their number.
LEMMA RankIsTaken ==
    ASSUME NEW n \in Nat, NEW S \in SUBSET (1..n), NEW k \in 1..Cardinality(S)
    PROVE  \E i \in S : Cardinality({j \in S : j <= i}) = k
<1> DEFINE Upto(m) == {j \in S : j <= m}
           T == {m \in Nat : k <= Cardinality(Upto(m))}
<1>1. IsFiniteSet(S) /\ Cardinality(S) \in Nat
  <2>1. IsFiniteSet(1..n)
    BY FS_Interval
  <2> QED BY <2>1, FS_Subset, FS_CardinalityType
<1>2. \A m \in Nat : IsFiniteSet(Upto(m)) /\ Cardinality(Upto(m)) \in Nat
  <2> SUFFICES ASSUME NEW m \in Nat
               PROVE  IsFiniteSet(Upto(m)) /\ Cardinality(Upto(m)) \in Nat
    OBVIOUS
  <2>1. Upto(m) \subseteq S
    OBVIOUS
  <2> HIDE DEF Upto
  <2>2. IsFiniteSet(Upto(m))
    BY <1>1, <2>1, FS_Subset
  <2> QED BY <2>2, FS_CardinalityType
<1>0. \A j \in S : j \in Int /\ ~(j <= 0) /\ j <= n
  OBVIOUS
<1>3. Upto(0) = {} /\ Upto(n) = S
  BY <1>0, Zenon
<1>4. T \in SUBSET Nat /\ T # {}
  <2>1. n \in T
    BY <1>1, <1>3
  <2> QED BY <2>1
<1>5. PICK m \in T : \A y \in T : m <= y
  <2> HIDE DEF T
  <2> QED BY <1>4, LeastNatural
<1>6. m \in Nat /\ k <= Cardinality(Upto(m)) /\ Cardinality(Upto(m)) \in Nat
  BY <1>2
<1>7. m # 0
  <2>1. Cardinality(Upto(0)) = 0
    BY <1>3, FS_EmptySet
  <2> HIDE DEF Upto, T
  <2> QED BY <1>6, <2>1
<1>8. m - 1 \in Nat /\ Cardinality(Upto(m - 1)) < k
  <2>1. m - 1 \in Nat /\ ~(m <= m - 1)
    BY <1>6, <1>7
  <2>2. m - 1 \notin T
    <3> HIDE DEF T
    <3> QED BY <1>5, <2>1
  <2>3. ~(k <= Cardinality(Upto(m - 1))) /\ Cardinality(Upto(m - 1)) \in Nat
    BY <1>2, <2>1, <2>2
  <2> HIDE DEF Upto, T
  <2> QED BY <1>1, <2>1, <2>3
<1>9. m \in S
  <2> SUFFICES ASSUME m \notin S PROVE Upto(m) = Upto(m - 1)
    <3> HIDE DEF Upto, T
    <3> QED BY <1>2, <1>6, <1>8
  <2>1. ASSUME NEW j \in S PROVE j <= m <=> j <= m - 1
    <3>1. j # m /\ j \in Int
      BY <1>0
    <3> QED BY <1>6, <3>1
  <2> QED BY <2>1, Zenon
<1>10. Upto(m) = Upto(m - 1) \cup {m} /\ m \notin Upto(m - 1)
  <2>1. ASSUME NEW j \in S PROVE j <= m <=> j <= m - 1 \/ j = m
    BY <1>0, <1>6
  <2>2. ~(m <= m - 1) /\ m <= m
    BY <1>6
  <2> QED BY <1>9, <2>1, <2>2, Zenon
<1>11. Cardinality(Upto(m)) = Cardinality(Upto(m - 1)) + 1
  <2> HIDE DEF Upto, T
  <2> QED BY <1>2, <1>8, <1>10, FS_AddElement
<1>12. Cardinality(Upto(m)) = k
  <2> HIDE DEF Upto, T
  <2> QED BY <1>2, <1>6, <1>8, <1>11
<1> QED BY <1>9, <1>12

\* What is asked for is among the files found.
LEMMA AskedAreFiles ==
    ASSUME files \in Directories
    PROVE  /\ IsSequence(Asked)
           /\ \A k \in 1..Len(Asked) : \E i \in 1..Len(files) :
                Asked[k] = files[i] /\ Wanted(files[i])
<1> DEFINE at == {i \in 1..Len(files) : Wanted(files[i])}
           place(k) == CHOOSE i \in at : Cardinality({j \in at : j <= i}) = k
<1>1. Len(files) \in Nat
  BY CommandAssumption DEF IsSequence
<1>2. Cardinality(at) \in Nat /\ at \in SUBSET (1..Len(files))
  <2>1. IsFiniteSet(1..Len(files)) /\ at \subseteq 1..Len(files)
    BY <1>1, FS_Interval
  <2> HIDE DEF at
  <2>2. IsFiniteSet(at)
    BY <2>1, FS_Subset
  <2> QED BY <2>1, <2>2, FS_CardinalityType
<1>3. Asked = [k \in 1..Cardinality(at) |-> files[place(k)]]
  BY DEF Asked
<1>4. \A i \in at : Wanted(files[i])
  OBVIOUS
<1>5. \A k \in 1..Cardinality(at) : place(k) \in at
  <2> HIDE DEF at
  <2>1. \A k \in 1..Cardinality(at) :
          \E i \in at : Cardinality({j \in at : j <= i}) = k
    BY <1>1, <1>2, RankIsTaken
  <2> QED BY <2>1
<1> HIDE DEF at, place
<1>6. \A k \in DOMAIN Asked : Asked[k] \in Range(Asked)
  BY DEF Range
<1>7. IsSequence(Asked)
  BY <1>2, <1>3, <1>6 DEF IsSequence
<1>8. DOMAIN Asked = 1..Len(Asked)
  BY <1>7 DEF IsSequence
<1> QED BY <1>2, <1>3, <1>4, <1>5, <1>7, <1>8

\* The turn of the k-th run is one of the scenarios'.
LEMMA TurnIsAScenario ==
    ASSUME NEW n \in Nat, NEW r \in Nat, NEW k \in 1..(n * r)
    PROVE  ((k - 1) \div r) + 1 \in 1..n
<1>1. r > 0 /\ n * r \in Nat /\ k - 1 \in Nat
  OBVIOUS
<1> DEFINE q == (k - 1) \div r
<1>2. q \in Nat /\ q * r <= k - 1
  BY <1>1
<1>3. q < n
  <2> SUFFICES ASSUME q >= n PROVE FALSE
    BY <1>2
  <2> HIDE DEF q
  <2>1. q * r >= n * r
    BY <1>1, <1>2
  <2> QED BY <1>1, <1>2, <2>1
<1> HIDE DEF q
<1>4. q + 1 \in 1..n
  BY <1>2, <1>3
<1> QED BY <1>4 DEF q

LEMMA InitInv == Init => Inv
<1> SUFFICES ASSUME Init PROVE Inv
  OBVIOUS
<1>1. /\ pc = "env" /\ scenarios = <<>> /\ results = <<>> /\ begun = 0
      /\ written = FALSE /\ exit = "none" /\ environ = shell
      /\ shell \in Shells /\ dotenv \in DotEnvs /\ argv \in Arguments
      /\ files \in Directories
  BY DEF Init
<1>2. Total = 0
  <2>1. argv.repeats \in Nat
    BY <1>1, CommandAssumption
  <2> QED BY <1>1, <2>1 DEF Total
<1>3. TypeOK
  <2>1. Len(results) = 0 /\ begun \in 0..Total
    BY <1>1, <1>2
  <2> QED BY <1>1, <2>1 DEF TypeOK
<1>4. InOrder
  BY <1>1 DEF InOrder, IsSequence
<1>5. Admitted /\ Reported
  BY <1>1 DEF Admitted, Sweeping, Reported
<1> QED BY <1>3, <1>4, <1>5 DEF Inv

LEMMA NextInv == Inv /\ [Next]_vars => Inv'
<1> SUFFICES ASSUME Inv, [Next]_vars PROVE Inv'
  OBVIOUS
<1>n. /\ Len(scenarios) \in Nat /\ argv.repeats \in Nat /\ Total \in Nat
      /\ Total = Len(scenarios) * argv.repeats
  BY Counts
<1>l. Len(results) \in Nat /\ begun \in Nat /\ begun <= Total
  BY <1>n DEF Inv, InOrder, TypeOK
<1>1. CASE UNCHANGED vars
  <2> USE <1>1 DEF vars, started
  <2>1. TypeOK'
    BY DEF Inv, TypeOK, Total
  <2>2. InOrder'
    BY DEF Inv, InOrder, RunRecords, Ids, InSweep
  <2>3. Admitted'
    BY DEF Inv, Admitted, Sweeping, Accepted
  <2>4. Reported'
    BY DEF Inv, Reported, Total, AnyPassed
  <2> QED BY <2>1, <2>2, <2>3, <2>4 DEF Inv
<1>2. CASE Ends
  <2>1. /\ pc' = "exited" /\ exit' \in {"0", "1", "130"}
        /\ UNCHANGED <<started, environ, argv, files, scenarios, begun, results,
                       rows, written>>
        /\ exit' \in {"0", "1"} =>
            exit' = IF IF argv.command = "run" THEN pc = "written" /\ AnyPassed
                       ELSE Decodes(dotenv) /\ discover(files) = "ok"
                    THEN "0" ELSE "1"
    BY <1>2 DEF Ends, Leave
  <2>2. pc # "exited" /\ (pc = "env" => ~Decodes(dotenv))
    BY <1>2 DEF Ends
  <2>3. pc = "written" <=> written
    BY <2>2 DEF Inv, TypeOK, Reported
  <2>4. TypeOK'
    BY <2>1 DEF started, Inv, TypeOK, Total
  <2>5. InOrder'
    BY <2>1 DEF started, Inv, InOrder, RunRecords, Ids, InSweep
  <2>6. Admitted'
    BY <2>1, <2>2 DEF started, Inv, Admitted, Sweeping, Accepted
  <2>7. Reported'
    BY <2>1, <2>3 DEF started, Inv, Reported, Total, AnyPassed
  <2> QED BY <2>4, <2>5, <2>6, <2>7 DEF Inv
<1>3. CASE Loads
  <2> USE <1>3 DEF Loads, started
  <2>1. TypeOK'
    BY DEF Inv, TypeOK, Total
  <2>2. InOrder'
    BY DEF Inv, InOrder, RunRecords, Ids, InSweep
  <2>3. Admitted'
    BY DEF Inv, InOrder, Admitted, Sweeping
  <2>4. Reported'
    BY DEF Inv, Reported, TypeOK
  <2> QED BY <2>1, <2>2, <2>3, <2>4 DEF Inv
<1>4. CASE Selects
  <2> USE <1>4 DEF Selects, started
  <2>1. begun = 0 /\ results = <<>> /\ ~written
    BY DEF Inv, InOrder, Reported
  <2>2. IsSequence(scenarios') /\ Total' \in Nat
    <3>1. IsSequence(Asked)
      BY AskedAreFiles DEF Inv, TypeOK
    <3>2. Len(scenarios') \in Nat
      BY <3>1 DEF IsSequence
    <3> QED BY <1>n, <3>1, <3>2 DEF Total
  <2>3. TypeOK'
    BY <2>1, <2>2 DEF Inv, TypeOK
  <2>4. InOrder'
    BY <2>1, <2>2 DEF InOrder
  <2>5. Admitted'
    BY <2>1 DEF Inv, Admitted, Sweeping
  <2>6. Reported'
    BY <2>1 DEF Inv, Reported, TypeOK
  <2> QED BY <2>3, <2>4, <2>5, <2>6 DEF Inv
<1>5. CASE Starts
  <2> USE <1>5 DEF Starts, started
  <2>1. TypeOK'
    BY DEF Inv, InOrder, TypeOK, Total
  <2>2. InOrder'
    BY DEF Inv, InOrder, RunRecords, Ids, InSweep
  <2>3. Admitted'
    BY DEF Inv, InOrder, Admitted, Sweeping, Accepted
  <2>4. Reported'
    BY DEF Inv, Reported, TypeOK
  <2> QED BY <2>1, <2>2, <2>3, <2>4 DEF Inv
<1>6. CASE Begins
  <2> USE <1>6 DEF Begins, started
  <2>1. Len(results) = begun /\ begun' \in 0..Total /\ begun' - 1 = begun
    BY <1>n, <1>l DEF Inv, TypeOK
  <2>2. TypeOK'
    BY <2>1 DEF Inv, TypeOK, Total
  <2>3. InOrder'
    BY <2>1 DEF Inv, InOrder, RunRecords, Ids, InSweep
  <2>4. Admitted'
    BY DEF Inv, Admitted, Sweeping, Accepted
  <2>5. Reported'
    BY DEF Inv, Reported, TypeOK
  <2> QED BY <2>2, <2>3, <2>4, <2>5 DEF Inv
<1>7. CASE Land
  <2>1. PICK o \in Outcomes :
          results' = Append(results, Result(ThisScenario.id, o))
    BY <1>7 DEF Land
  <2>2. /\ pc = "running" /\ pc' = "run"
        /\ UNCHANGED <<started, environ, argv, files, scenarios, begun, rows,
                       written, exit>>
    BY <1>7 DEF Land
  <2> USE <2>2 DEF started
  <2>3. /\ Len(results) = begun - 1 /\ begun \in 1..Total
        /\ ~written
    BY <1>l, <1>n DEF Inv, InOrder, TypeOK, Reported
  <2>4. ThisScenario = InSweep(begun) /\ ThisScenario.id \in Ids
    <3>1. ((begun - 1) \div argv.repeats) + 1 \in 1..Len(scenarios)
      BY <1>n, <2>3, TurnIsAScenario
    <3> QED BY <3>1 DEF ThisScenario, InSweep, Ids
  <2> DEFINE r == Result(ThisScenario.id, o)
  <2>5. r \in RunRecords /\ r.scenario = InSweep(begun).id
    BY <2>4, CommandAssumption DEF RunRecords, Result
  <2> HIDE DEF r
  <2>6. /\ results' \in Seq(RunRecords) /\ Len(results') = begun
        /\ \A k \in 1..(begun - 1) : results'[k] = results[k]
        /\ results'[begun] = r
    BY <2>1, <2>3, <2>5 DEF Inv, InOrder, r
  <2>7. TypeOK'
    BY <2>6 DEF Inv, TypeOK, Total
  <2>8. InOrder'
    <3>1. \A k \in 1..begun : results'[k].scenario = InSweep(k).id
      BY <2>3, <2>5, <2>6 DEF Inv, InOrder
    <3> QED BY <2>6, <3>1 DEF Inv, InOrder, RunRecords, Ids, InSweep
  <2>9. Admitted'
    BY DEF Inv, Admitted, Sweeping, Accepted
  <2>10. Reported'
    BY <2>3 DEF Inv, Reported, TypeOK
  <2> QED BY <2>7, <2>8, <2>9, <2>10 DEF Inv
<1>8. CASE WriteResults
  <2> USE <1>8 DEF WriteResults, started
  <2>1. begun = Total /\ Len(results) = Total
    BY <1>l, <1>n DEF Inv, TypeOK, MoreRuns
  <2>2. TypeOK'
    BY DEF Inv, TypeOK, Total
  <2>3. InOrder'
    BY DEF Inv, InOrder, RunRecords, Ids, InSweep
  <2>4. Admitted'
    BY DEF Inv, Admitted, Sweeping, Accepted
  <2>5. Reported'
    BY <2>1 DEF Inv, Admitted, Sweeping, Reported, TypeOK, Total
  <2> QED BY <2>2, <2>3, <2>4, <2>5 DEF Inv
<1> QED BY <1>1, <1>2, <1>3, <1>4, <1>5, <1>6, <1>7, <1>8, Steps

LEMMA InvHolds == Spec => []Inv
  BY InitInv, NextInv, PTL DEF Spec

\* Type correctness, and how far a sweep has come.
THEOREM CommandTypes == Spec => []TypeOK
<1>1. Inv => TypeOK
  BY DEF Inv
<1> QED BY <1>1, InvHolds, PTL

\* No cluster is made for a Gemini key that is missing, mangled by curly quotes
\* or unknown to the API, wherever the key comes from.
THEOREM BadKeysMakeNoCluster == Spec => []NoClusterOnBadKey
<1>1. Inv => NoClusterOnBadKey
  <2> SUFFICES ASSUME Inv, begun > 0, argv.driver = "gemini"
               PROVE  NoClusterOnBadKey
    BY DEF NoClusterOnBadKey
  <2>1. environ = load_dotenv(shell, parse_dotenv(dotenv)) /\ dotenv \in DotEnvs
    BY DEF Inv, Admitted, Sweeping, InOrder, TypeOK
  <2>2. Usable(environ) /\ environ[KeyName].text \in ValidKeys
    BY DEF Inv, Admitted, Sweeping, Accepted
  <2> QED BY <2>1, <2>2, KeyComesFrom DEF NoClusterOnBadKey
<1> QED BY <1>1, InvHolds, PTL

\* `arena validate` accepts exactly a directory of well-formed files next to a
\* .env that is text, and nothing runs without, nor with a bound that is not
\* positive.
THEOREM ValidationDecides == Spec => []ValidationIsExact
<1>1. Inv => ValidationIsExact
  BY DiscoverIsExact DEF Inv, Reported, Admitted, Sweeping, ValidationIsExact
<1> QED BY <1>1, InvHolds, PTL

\* The exit status of a run agrees with what is on disk.
THEOREM ExitStatusIsTrue == Spec => []ExitTellsTheTruth
<1>1. Inv => ExitTellsTheTruth
  BY DEF Inv, Reported, AnyPassed, ExitTellsTheTruth
<1> QED BY <1>1, InvHolds, PTL

-----------------------------------------------------------------------------
\* A group of the written results: its places and its row.
LEMMA Groups ==
    ASSUME Inv, written, NEW id \in DOMAIN rows
    PROVE  LET runs == Select(results, id)
           IN  /\ rows[id] = Row(runs)
               /\ DOMAIN runs = RunsOf(id) /\ IsFiniteSet(RunsOf(id))
               /\ \A i \in RunsOf(id) : runs[i] = results[i]
<1>1. rows = aggregate(results) /\ results \in Seq(RunRecords)
  BY DEF Inv, Reported, InOrder
<1>2. DOMAIN results = 1..Len(results) /\ Len(results) \in Nat
  BY <1>1
<1>3. rows[id] = Row(Select(results, id))
  BY <1>1 DEF aggregate
<1>4. /\ DOMAIN Select(results, id) = RunsOf(id)
      /\ \A i \in RunsOf(id) : Select(results, id)[i] = results[i]
  BY <1>2 DEF Select, Restrict, RunsOf
<1>5. IsFiniteSet(RunsOf(id))
  <2>1. IsFiniteSet(1..Len(results)) /\ RunsOf(id) \subseteq 1..Len(results)
    BY <1>2, FS_Interval DEF RunsOf
  <2> QED BY <2>1, FS_Subset
<1> QED BY <1>3, <1>4, <1>5

\* The table counts every run once, in the row of its scenario, and every
\* incident in its notes.
THEOREM TableAccountsForRuns == Spec => []RowsAccount
<1>1. Inv => RowsAccount
  <2> SUFFICES ASSUME Inv, written PROVE RowsAccount
    BY DEF RowsAccount
  <2> DEFINE n == Len(scenarios)
             r == argv.repeats
  <2>1. /\ n \in Nat /\ r \in Nat /\ Len(results) = n * r /\ n * r \in Nat
        /\ rows = aggregate(results) /\ DOMAIN results = 1..(n * r)
        /\ \A k \in 1..(n * r) :
            results[k].scenario = scenarios[((k - 1) \div r) + 1].id
    BY Counts DEF Inv, Reported, InOrder, InSweep
  <2>2. DOMAIN rows = {results[k].scenario : k \in 1..(n * r)}
    BY <2>1 DEF aggregate
  <2>3. DOMAIN rows = IF r = 0 THEN {} ELSE Ids
    <3>1. CASE r = 0
      BY <2>1, <2>2, <3>1
    <3>2. CASE r # 0
      <4>1. ASSUME NEW k \in 1..(n * r) PROVE results[k].scenario \in Ids
        <5>1. ((k - 1) \div r) + 1 \in 1..n
          BY <2>1, TurnIsAScenario
        <5> QED BY <2>1, <5>1 DEF Ids
      <4>2. ASSUME NEW i \in 1..n
            PROVE  \E k \in 1..(n * r) : results[k].scenario = scenarios[i].id
        <5>1. (i - 1) * r + 1 \in 1..(n * r) /\ ((i - 1) * r) \div r = i - 1
          BY <2>1, <3>2, FirstPlace
        <5>2. ((i - 1) * r + 1) - 1 = (i - 1) * r /\ (i - 1) + 1 = i
          BY <2>1
        <5> QED BY <2>1, <5>1, <5>2
      <4> QED BY <2>2, <3>2, <4>1, <4>2 DEF Ids
    <3> QED BY <3>1, <3>2
  <2>4. ASSUME NEW id \in DOMAIN rows
        PROVE  /\ rows[id].runs =
                    r * Cardinality({i \in 1..n : scenarios[i].id = id})
               /\ rows[id].passes = Cardinality({i \in RunsOf(id) : results[i].passed})
               /\ Cardinality(IncidentsOf(id)) =
                    Noted(id, "timeout") + Noted(id, "error")
                                         + Noted(id, "harness_error")
    <3> DEFINE runs == Select(results, id)
    <3>1. /\ rows[id] = Row(runs)
          /\ DOMAIN runs = RunsOf(id) /\ IsFiniteSet(RunsOf(id))
          /\ \A i \in RunsOf(id) : runs[i] = results[i]
      BY <2>1, Groups
    <3> HIDE DEF runs
    <3>2. rows[id].runs = r * Cardinality({i \in 1..n : scenarios[i].id = id})
      <4> DEFINE I == {i \in 1..n : scenarios[i].id = id}
                 K == {k \in 1..(n * r) : ((k - 1) \div r) + 1 \in I}
      <4>1. RunsOf(id) = K
        <5>1. \A k \in 1..(n * r) : ((k - 1) \div r) + 1 \in 1..n
          BY <2>1, TurnIsAScenario
        <5> QED BY <2>1, <5>1 DEF RunsOf
      <4>2. Cardinality(K) = r * Cardinality(I)
        <5>1. I \in SUBSET (1..n)
          OBVIOUS
        <5> HIDE DEF I, n, r
        <5> QED BY <2>1, <5>1, EveryRunHasItsScenario
      <4>3. rows[id].runs = Cardinality(RunsOf(id))
        BY <3>1 DEF Row
      <4> QED BY <4>1, <4>2, <4>3
    <3>3. rows[id].passes = Cardinality({i \in RunsOf(id) : results[i].passed})
      <4>1. rows[id].passes = Cardinality({i \in DOMAIN runs : runs[i].passed})
        BY <3>1 DEF Row
      <4>2. {i \in DOMAIN runs : runs[i].passed} =
                {i \in RunsOf(id) : results[i].passed}
        BY <3>1
      <4> QED BY <4>1, <4>2
    <3>4. Cardinality(IncidentsOf(id)) =
                Noted(id, "timeout") + Noted(id, "error") + Noted(id, "harness_error")
      <4>1. rows[id].notes = _incidents(runs)
        BY <3>1 DEF Row
      <4>2. IncidentsOf(id) =
                {i \in DOMAIN runs : runs[i].stop_reason \in _INCIDENT_REASONS}
        BY <3>1 DEF IncidentsOf
      <4> QED BY <3>1, <4>1, <4>2, IncidentsAreNoted DEF Noted
    <3> QED BY <3>2, <3>3, <3>4
  <2> QED BY <2>3, <2>4 DEF RowsAccount
<1> QED BY <1>1, InvHolds, PTL

-----------------------------------------------------------------------------
\* Scenarios are those of some directory that loads.
Loaded == \A i \in 1..Len(scenarios) : scenarios[i].id \in Declared

LEMMA InitLoaded == Init => Loaded
  BY DEF Init, Loaded

LEMMA NextLoaded == Inv /\ Loaded /\ [Next]_vars => Loaded'
<1> SUFFICES ASSUME Inv, Loaded, [Next]_vars PROVE Loaded'
  OBVIOUS
<1>1. CASE UNCHANGED scenarios
  BY <1>1 DEF Loaded
<1>2. CASE Selects
  <2>1. scenarios' = Asked /\ discover(files) = "ok" /\ files \in Directories
    BY <1>2 DEF Selects, Inv, TypeOK
  <2>2. \A k \in 1..Len(Asked) : Asked[k].id \in Declared
    <3>1. \A i \in 1..Len(files) : files[i].id \in Declared
      BY <2>1 DEF Declared
    <3> QED BY <2>1, <3>1, AskedAreFiles
  <2> QED BY <2>1, <2>2 DEF Loaded
<1> QED BY <1>1, <1>2, Steps DEF vars, Ends, Leave, Loads, Starts, Begins,
           Land, WriteResults

\* The variables of Ledger under the mapping.
Due == This(Total)
Opened == This(pc = "running")
Landed == This(results)
File == This(IF written THEN results ELSE <<>>)
Over == This(pc \in {"written", "exited"})

LEMMA Mapped ==
    /\ Due["this"] = Total /\ Opened["this"] = (pc = "running")
    /\ Landed["this"] = results /\ Over["this"] = (pc \in {"written", "exited"})
  BY Zenon DEF Due, Opened, Landed, Over, This

\* What keeps its value under the mapping, and what a changed stage changes.
LEMMA MappedSteps ==
    /\ UNCHANGED <<scenarios, argv>> => Due' = Due
    /\ UNCHANGED results => Landed' = Landed
    /\ UNCHANGED <<written, results>> \/ (~written /\ UNCHANGED written)
            => File' = File
    /\ (pc' = "running") = (pc = "running") => Opened' = Opened
    /\ pc' = "running" => Opened' = [Opened EXCEPT !["this"] = TRUE]
    /\ pc' # "running" => Opened' = [Opened EXCEPT !["this"] = FALSE]
    /\ (pc' \in {"written", "exited"}) = (pc \in {"written", "exited"})
            => Over' = Over
    /\ pc' \in {"written", "exited"} => Over' = [Over EXCEPT !["this"] = TRUE]
<1>1. UNCHANGED <<scenarios, argv>> => Due' = Due
  BY DEF Due, This, Total
<1>2. UNCHANGED results => Landed' = Landed
  BY DEF Landed, This
<1>3. UNCHANGED <<written, results>> \/ (~written /\ UNCHANGED written)
          => File' = File
  BY DEF File, This
<1>4. (pc' = "running") = (pc = "running") => Opened' = Opened
  BY Zenon DEF Opened, This
<1>5. ASSUME pc' = "running" PROVE Opened' = [Opened EXCEPT !["this"] = TRUE]
  <2>1. (pc' = "running") = TRUE
    BY <1>5
  <2> QED BY <2>1, Zenon DEF Opened, This
<1>6. ASSUME pc' # "running" PROVE Opened' = [Opened EXCEPT !["this"] = FALSE]
  <2>1. (pc' = "running") = FALSE
    BY <1>6
  <2> QED BY <2>1, Zenon DEF Opened, This
<1>7. (pc' \in {"written", "exited"}) = (pc \in {"written", "exited"})
          => Over' = Over
  BY Zenon DEF Over, This
<1>8. ASSUME pc' \in {"written", "exited"}
      PROVE  Over' = [Over EXCEPT !["this"] = TRUE]
  <2>1. (pc' \in {"written", "exited"}) = TRUE
    BY <1>8
  <2> QED BY <2>1, Zenon DEF Over, This
<1> QED BY <1>1, <1>2, <1>3, <1>4, <1>5, <1>6, <1>7, <1>8

\* A command implements Ledger: for any files, arguments and outcomes, the file
\* holds a result for every run of the sweep or is not there, and each run is
\* recorded once, before the next begins, or the sweep is abandoned.
THEOREM CommandImplementsLedger == Spec => ImplementsLedger
<1>1. Init => LedgerSpec!Init
  <2> SUFFICES ASSUME Init PROVE LedgerSpec!Init
    OBVIOUS
  <2>1. Due \in [{"this"} -> Nat]
    BY InitInv, Counts DEF Due, This
  <2>2. pc = "env" /\ results = <<>> /\ written = FALSE
    BY DEF Init
  <2>3. Opened = [p \in {"this"} |-> FALSE]
    BY <2>2 DEF Opened, This
  <2>4. Landed = [p \in {"this"} |-> <<>>] /\ File = [p \in {"this"} |-> <<>>]
    BY <2>2 DEF Landed, File, This
  <2>5. Over = [p \in {"this"} |-> FALSE]
    <3>1. (pc \in {"written", "exited"}) = FALSE
      BY <2>2
    <3> QED BY <3>1, Zenon DEF Over, This
  <2> QED BY <2>1, <2>3, <2>4, <2>5
          DEF LedgerSpec!Init, Due, Opened, Landed, File, Over
<1>2. Inv /\ Loaded /\ [Next]_vars => [LedgerSpec!Next]_(LedgerSpec!ledger)
  <2> SUFFICES ASSUME Inv, Loaded, [Next]_vars
               PROVE  LedgerSpec!Next \/ UNCHANGED <<Due, Opened, Landed, File, Over>>
    BY DEF LedgerSpec!ledger, Due, Opened, Landed, File, Over
  <2>n. Total \in Nat /\ Len(results) \in Nat /\ begun \in Nat
    BY Counts DEF Inv, InOrder, TypeOK
  <2>1. CASE /\ UNCHANGED <<scenarios, argv, results, written>>
             /\ (pc' = "running") = (pc = "running")
             /\ (pc' \in {"written", "exited"}) = (pc \in {"written", "exited"})
    BY <2>1, MappedSteps
  <2>2. CASE Ends
    <3>1. /\ pc' = "exited" /\ pc # "exited"
          /\ UNCHANGED <<scenarios, argv, results, written>>
      BY <2>2 DEF Ends, Leave
    <3>2. CASE pc = "written"
      BY <2>1, <3>1, <3>2
    <3>3. CASE pc # "written"
      <4>1. ~Over["this"]
        BY <3>1, <3>3, Mapped
      <4>2. LedgerSpec!Abandon("this")
        BY <3>1, <4>1, MappedSteps
           DEF LedgerSpec!Abandon, Due, Opened, Landed, File, Over
      <4> QED BY <4>2 DEF LedgerSpec!Next
    <3> QED BY <3>2, <3>3
  <2>3. CASE Selects
    <3>1. /\ pc = "discover" /\ pc' = "probe" /\ results = <<>>
          /\ UNCHANGED <<argv, results, written>>
      BY <2>3 DEF Selects, Inv, InOrder
    <3>2. ~Over["this"] /\ ~Opened["this"] /\ Landed["this"] = <<>>
      BY <3>1, Mapped
    <3>3. Due' \in [{"this"} -> Nat]
      <4>1. Len(Asked) \in Nat
        BY AskedAreFiles DEF Inv, TypeOK, IsSequence
      <4>2. argv.repeats \in Nat /\ scenarios' = Asked
        BY <2>3, Counts DEF Selects
      <4>3. Total' \in Nat
        BY <3>1, <4>1, <4>2 DEF Total
      <4> QED BY <4>3 DEF Due, This
    <3>4. Opened' = Opened /\ Landed' = Landed /\ File' = File /\ Over' = Over
      BY <3>1, MappedSteps
    <3>5. LedgerSpec!Settle("this")
      BY <3>2, <3>3, <3>4
         DEF LedgerSpec!Settle, Due, Opened, Landed, File, Over
    <3> QED BY <3>5 DEF LedgerSpec!Next
  <2>4. CASE Loads \/ Starts
    BY <2>1, <2>4 DEF Loads, Starts
  <2>5. CASE Begins
    <3>1. /\ pc = "run" /\ pc' = "running" /\ begun < Total
          /\ UNCHANGED <<scenarios, argv, results, written>>
      BY <2>5 DEF Begins
    <3>2. Len(results) = begun
      BY <3>1 DEF Inv, TypeOK
    <3>3. ~Over["this"] /\ ~Opened["this"] /\ Len(Landed["this"]) < Due["this"]
      BY <3>1, <3>2, Mapped
    <3>4. Over' = Over
      BY <3>1, MappedSteps
    <3>5. LedgerSpec!Begin("this")
      BY <3>1, <3>3, <3>4, MappedSteps
         DEF LedgerSpec!Begin, Due, Opened, Landed, File, Over
    <3> QED BY <3>5 DEF LedgerSpec!Next
  <2>6. CASE Land
    <3>1. /\ pc = "running" /\ pc' = "run" /\ ~written
          /\ UNCHANGED <<scenarios, argv, written>>
      BY <2>6 DEF Land, Inv, Reported
    <3>2. PICK o \in Outcomes : results' = Append(results, Result(ThisScenario.id, o))
      BY <2>6 DEF Land
    <3>3. ThisScenario.id \in Declared
      <4>1. begun \in 1..Total
        BY <2>n, <3>1 DEF Inv, InOrder, TypeOK
      <4>2. ((begun - 1) \div argv.repeats) + 1 \in 1..Len(scenarios)
        BY <4>1, Counts, TurnIsAScenario
      <4> QED BY <4>2 DEF Loaded, ThisScenario
    <3>4. Landed' = [Landed EXCEPT !["this"] =
                        Append(@, Result(ThisScenario.id, o))]
      BY <3>2 DEF Landed, This
    <3>5. Result(ThisScenario.id, o) \in Landable
      BY <3>3 DEF Landable
    <3>6. Opened["this"]
      <4>1. (pc = "running") = TRUE
        BY <3>1
      <4> QED BY <4>1, Mapped, Zenon
    <3>7. /\ Due' = Due /\ File' = File /\ Over' = Over
          /\ Opened' = [Opened EXCEPT !["this"] = FALSE]
      BY <3>1, MappedSteps
    <3>8. LedgerSpec!Record("this")
      BY <3>4, <3>5, <3>6, <3>7, Zenon
         DEF LedgerSpec!Record, Due, Opened, Landed, File, Over
    <3> QED BY <3>8 DEF LedgerSpec!Next
  <2>7. CASE WriteResults
    <3>1. /\ pc = "run" /\ pc' = "written" /\ written'
          /\ UNCHANGED <<scenarios, argv, results>>
      BY <2>7 DEF WriteResults
    <3>2. Len(results) = Total
      BY <2>7, <2>n, <3>1 DEF WriteResults, MoreRuns, Inv, TypeOK
    <3>3. ~Over["this"] /\ ~Opened["this"] /\ Len(Landed["this"]) = Due["this"]
      BY <3>1, <3>2, Mapped
    <3>4. File' = [File EXCEPT !["this"] = Landed["this"]]
      BY <3>1, Mapped DEF File, This
    <3>5. Opened' = Opened
      BY <3>1, MappedSteps
    <3>6. LedgerSpec!Publish("this")
      BY <3>1, <3>3, <3>4, <3>5, MappedSteps
         DEF LedgerSpec!Publish, Due, Opened, Landed, File, Over
    <3> QED BY <3>6 DEF LedgerSpec!Next
  <2>8. CASE UNCHANGED vars
    BY <2>1, <2>8 DEF vars
  <2> QED BY <2>2, <2>3, <2>4, <2>5, <2>6, <2>7, <2>8, Steps
<1> QED BY <1>1, <1>2, InitInv, NextInv, InitLoaded, NextLoaded, PTL
        DEF Spec, ImplementsLedger, LedgerSpec!Spec
=============================================================================
