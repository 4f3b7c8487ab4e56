--------------------------- MODULE MCReachability ----------------------------
(* Every dump over five methods, two of them overloads of one name, with   *)
(* calls that no method answers to, inside and outside the assembly.       *)
EXTENDS Reachability

MCMethods == {"s", "a1", "a2", "b", "t"}
MCNameOf  == [s |-> "S", a1 |-> "A", a2 |-> "A", b |-> "B", t |-> "T"]

Call(caller, target) == [caller |-> caller, opcode |-> "call", target |-> target]

MCRows ==
    {Call(c, n) : c \in {"s", "a1", "a2", "b"}, n \in {"A", "B", "T"}}
    \cup {Call("b", "S"), Call("a1", "Missing")}

(* In every dump: a call to the outside, and an instruction that is none.  *)
Ignored == {Call("s", "System.Object"), [caller |-> "s", opcode |-> "ldstr", target |-> "T"]}

MCDumps == {rows_ \cup Ignored : rows_ \in SUBSET MCRows}

MCStartTokens == <<"s", "a2">>
==============================================================================
