----------------------------- MODULE MCBranches ----------------------------
(* Model-checking instance of Branches: a text x, a counter d derived from *)
(* it, a counter n that branches add to and a set s.                       *)
EXTENDS Branches, TLC

Keys == {"x", "d", "n", "s"}

FirstInputs == [k \in Keys |-> IF k = "d" THEN {"x"} ELSE {}]
Start ==
    [revision |-> 0, inputs |-> FirstInputs,
     ground |-> ("x" :> Text("a")) @@ ("d" :> Counter(0)) @@ ("n" :> Absent) @@ ("s" :> Absent)]

PutX == [do |-> "put", key |-> "x", value |-> Text("b")]
RemoveX == [do |-> "remove", key |-> "x"]
PutD == [do |-> "put", key |-> "d", value |-> Counter(2)]
AddTo(key, amount) == [do |-> "add", key |-> key, amount |-> amount]
Insert == [do |-> "insert", key |-> "s", member |-> "m"]
Withdraw == [do |-> "withdraw", key |-> "s", member |-> "m"]

Tasks ==
    {[ops |-> {PutX, PutD}, reads |-> {"x", "d"}, scans |-> {}, relies |-> FALSE],
     [ops |-> {AddTo("n", 1), AddTo("d", -1)}, reads |-> {}, scans |-> {}, relies |-> FALSE],
     [ops |-> {Insert, Withdraw}, reads |-> {}, scans |-> {}, relies |-> FALSE],
     [ops |-> {AddTo("n", 1), RemoveX}, reads |-> {"x"}, scans |-> {{"s"}}, relies |-> TRUE]}

\* The host changes the input, with and without recomputing what depends on it,
\* and writes a set while it cuts a dependency.
HostDeltas ==
    {Delta("x" :> Text("b"), {}, NoKeys),
     Delta(("x" :> Text("a")) @@ ("d" :> Payload("counter", 1, "host")), {}, NoKeys),
     Delta("s" :> Payload("set", {"m"}, "host"), {}, "d" :> {})}

LeastCount == -1

Symmetry == Permutations(Branch)
=============================================================================
