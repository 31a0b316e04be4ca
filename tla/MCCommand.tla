----------------------------- MODULE MCCommand -----------------------------
(***************************************************************************)
(* Command for TLC: every environment with every .env file, and a file     *)
(* with each flaw, next to sweeps of up to two scenarios and two repeats   *)
(* with every outcome of a run.                                            *)
(***************************************************************************)
EXTENDS Command, TLC

Value(text, quote) == [text |-> text, quote |-> quote]
Setting(name, text, quote) == [name |-> name, value |-> Value(text, quote)]

Started == {<<>>} \cup
    {KeyName :> v : v \in {Value("k1", "none"), Value("k1", "curly"),
                           Value("bad", "none"), Value("", "none")}}
Lines == {
    <<>>,
    <<Setting("", "", "none"), Setting(KeyName, "k1", "straight")>>,
    <<Setting(KeyName, "k1", "none"), Setting(KeyName, "bad", "none")>>,
    <<Setting(KeyName, "bad", "none"), Setting(KeyName, "k1", "curly"),
      Setting("OTHER", "k1", "none")>>,
    <<Setting(KeyName, "k1", "none"), NotText>>}

Run(driver, wanted, repeats) ==
    [command |-> "run", driver |-> driver, wanted |-> wanted, repeats |-> repeats,
     positive |-> TRUE]
Typed == {
    [Run("solution", {}, 1) EXCEPT !.command = "list"],
    [Run("solution", {}, 1) EXCEPT !.command = "validate"],
    Run("solution", {}, 2), Run("solution", {"s1"}, 3), Run("noop", {"s3"}, 1),
    Run("noop", {}, 0), [Run("noop", {}, 1) EXCEPT !.positive = FALSE],
    Run("gemini", {"s1"}, 2)}

Ready == [type |-> "pods_ready", selector |-> "app=web", count |-> "zero"]
Good(id) ==
    [id |-> id, namespace |-> "shop", task |-> "t", timeout_seconds |-> "zero",
     verify |-> <<Ready>>, in_scope |-> <<[name |-> "web"]>>,
     solution |-> <<[args |-> "scale"]>>]
NoSolution(id) == [Good(id) EXCEPT !.solution = <<>>]

Flawed == {
    NotYaml,
    [Good("s2") EXCEPT !.id = ""],
    [Good("s2") EXCEPT !.verify = <<>>],
    [Good("s2") EXCEPT !.verify = <<NotMapping>>],
    [Good("s2") EXCEPT !.verify = <<Ready, [type |-> "pods_redy"]>>],
    [Good("s2") EXCEPT !.verify = <<[Ready EXCEPT !.count = "wrong"]>>],
    [Good("s2") EXCEPT !.in_scope = <<[kind |-> "Pod"]>>],
    [Good("s2") EXCEPT !.solution = <<[args |-> "null"]>>],
    [Good("s2") EXCEPT !.timeout_seconds = "wrong"]}

Found == {
    NoDirectory, <<>>,
    <<Good("s1"), Good("s2")>>,
    <<Good("s1"), Good("s1")>>,
    <<Good("s1"), NoSolution("s2")>>} \cup {<<Good("s1"), f>> : f \in Flawed}

End(passed, reason, blast) ==
    [passed |-> passed, stop_reason |-> reason, blast_score |-> blast]
Ends == {
    End(TRUE, "finished", 0), End(TRUE, "finished", 3),
    End(FALSE, "budget_exhausted", 1), End(TRUE, "timeout", 0),
    End(FALSE, "error", 0), End(FALSE, "harness_error", 0)}
=============================================================================
