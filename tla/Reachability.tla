---------------------------- MODULE Reachability -----------------------------
(***************************************************************************)
(* scripts/trace-il-reachability.ps1: is the target method called, directly*)
(* or not, from a start method?  A breadth-first search of at most MaxDepth*)
(* calls over a dump of call instructions, one start after the other.  The *)
(* dump names the callee only, so that a call of an overloaded name is     *)
(* taken for a call of every overload.                                     *)
(***************************************************************************)
EXTENDS Integers, Sequences, FiniteSets, Functions

CONSTANTS Methods,        \* the method tokens of the assembly
          NameOf,         \* nameByToken
          ExternalNames,  \* what -like 'System.*' or 'UnityEngine.*' matches
          Dumps,          \* the call dumps to search: sets of rows
          StartTokens, TargetToken,
          MaxDepth

FollowedOpcodes == {"call", "callvirt", "newobj", "ldftn", "ldvirtftn"}

ASSUME ReachabilityAssumption ==
    /\ IsFiniteSet(Methods) /\ NameOf \in [Methods -> STRING]
    /\ TargetToken \in Methods
    /\ StartTokens \in Seq(Methods)
    /\ MaxDepth \in 1..12
    /\ \A dump \in Dumps : IsFiniteSet(dump) /\ \A row \in dump : row.caller \in Methods

VARIABLES rows,          \* the dump, as Import-Csv gives it
          starts,        \* the starts still to be searched
          start,
          queue,
          depth,         \* a function on the methods visited
          previous,      \* on those visited after the start: from where
          unknownEdges,
          limitedNodes,
          pc

search == <<start, queue, depth, previous, unknownEdges, limitedNodes>>
vars == <<rows, starts, search, pc>>

------------------------------------------------------------------------------
(* $tokensByName, $edges and $unresolved.                                  *)

TokensByName(name) == {m \in Methods : NameOf[m] = name}

CallsOf(m) == {row \in rows : row.caller = m /\ row.opcode \in FollowedOpcodes}

Edges(m) == UNION {TokensByName(row.target) : row \in CallsOf(m)}

Unresolved(m) ==
    Cardinality({row \in CallsOf(m) :
        TokensByName(row.target) = {} /\ row.target \notin ExternalNames})

------------------------------------------------------------------------------
Init ==
    /\ rows \in Dumps
    /\ starts = StartTokens
    /\ start = TargetToken
    /\ queue = <<>>
    /\ depth = <<>>
    /\ previous = <<>>
    /\ unknownEdges = 0
    /\ limitedNodes = 0
    /\ pc = "next_start"

NextStart ==
    /\ pc = "next_start"
    /\ starts # <<>>
    /\ start' = Head(starts)
    /\ starts' = Tail(starts)
    /\ queue' = <<start'>>
    /\ depth' = [m \in {start'} |-> 0]
    /\ previous' = <<>>
    /\ unknownEdges' = 0
    /\ limitedNodes' = 0
    /\ pc' = "search"
    /\ UNCHANGED rows

current == Head(queue)

Dequeue ==
    /\ pc = "search"
    /\ queue # <<>>
    /\ unknownEdges' = unknownEdges + Unresolved(current)
    /\ UNCHANGED <<rows, starts, start, pc>>

(* The target is not expanded.                                             *)
AtTarget ==
    /\ Dequeue
    /\ current = TargetToken
    /\ queue' = Tail(queue)
    /\ UNCHANGED <<depth, previous, limitedNodes>>

(* Mutant: what stops at the limit is not counted.                         *)
AtLimitUncounted ==
    /\ Dequeue
    /\ current # TargetToken
    /\ depth[current] >= MaxDepth
    /\ queue' = Tail(queue)
    /\ UNCHANGED <<depth, previous, limitedNodes>>

AtLimit ==
    /\ Dequeue
    /\ current # TargetToken
    /\ depth[current] >= MaxDepth
    /\ limitedNodes' = IF Edges(current) # {} THEN limitedNodes + 1 ELSE limitedNodes
    /\ queue' = Tail(queue)
    /\ UNCHANGED <<depth, previous>>

(* The rows of a method come in the order of the dump, which is any.       *)
Orders(found) == Bijection(1..Cardinality(found), found)

Visit(found) ==
    /\ depth' = [m \in DOMAIN depth \cup found |->
                    IF m \in found THEN depth[current] + 1 ELSE depth[m]]
    /\ previous' = [m \in DOMAIN previous \cup found |->
                       IF m \in found THEN current ELSE previous[m]]

(* Mutant: the last one found is the next one searched.                    *)
ExpandDepthFirst ==
    /\ Dequeue
    /\ current # TargetToken
    /\ depth[current] < MaxDepth
    /\ LET found == Edges(current) \ DOMAIN depth
       IN  /\ Visit(found)
           /\ \E order \in Orders(found) : queue' = order \o Tail(queue)
    /\ UNCHANGED limitedNodes

Expand ==
    /\ Dequeue
    /\ current # TargetToken
    /\ depth[current] < MaxDepth
    /\ LET found == Edges(current) \ DOMAIN depth
       IN  /\ Visit(found)
           /\ \E order \in Orders(found) : queue' = Tail(queue) \o order
    /\ UNCHANGED limitedNodes

(* Prints the result, and the path if there is one.                        *)
Report ==
    /\ pc = "search"
    /\ queue = <<>>
    /\ pc' = "next_start"
    /\ UNCHANGED <<rows, starts, search>>

Next == NextStart \/ AtTarget \/ AtLimit \/ Expand \/ Report

Spec == Init /\ [][Next]_vars

------------------------------------------------------------------------------
Found == TargetToken \in DOMAIN depth

(* The PATH lines: from the target back to the start.                      *)
Path ==
    LET back[n \in 0..Cardinality(Methods)] ==
            IF n = 0 THEN TargetToken
            ELSE IF back[n - 1] = start THEN start
            ELSE previous[back[n - 1]]
        steps == CHOOSE n \in 0..Cardinality(Methods) :
                     back[n] = start /\ \A k \in 0..n - 1 : back[k] # start
    IN  [i \in 1..steps + 1 |-> back[steps + 1 - i]]

Reported == pc = "search" /\ queue = <<>>

(* The reference: the methods that n calls or fewer lead to, where a call  *)
(* may be of any overload.                                                 *)
Calls(caller, callee) ==
    \E row \in rows : /\ row.caller = caller
                      /\ row.opcode \in FollowedOpcodes
                      /\ row.target = NameOf[callee]

Within(from) ==
    LET within[n \in 0..Cardinality(Methods)] ==
            IF n = 0 THEN {from}
            ELSE within[n - 1] \cup
                 {m \in Methods : \E c \in within[n - 1] \ {TargetToken} : Calls(c, m)}
    IN  within

(* FOUND says whether MaxDepth calls lead to the target, and the path that *)
(* is printed is a shortest chain of calls to it.                          *)
ShortestPath ==
    Reported =>
        LET within == Within(start)
            reach  == IF MaxDepth < Cardinality(Methods) THEN MaxDepth ELSE Cardinality(Methods)
        IN  /\ Found <=> TargetToken \in within[reach]
            /\ Found => /\ Path[1] = start /\ Path[Len(Path)] = TargetToken
                        /\ \A i \in 1..Len(Path) - 1 : Calls(Path[i], Path[i + 1])
                        /\ \A n \in 0..Len(Path) - 2 : TargetToken \notin within[n]

(* FOUND=false with LIMITED_NODES=0 and UNRESOLVED_EVENTS=0 is proof that  *)
(* no chain of recorded calls of any length, resolved or not, leads from   *)
(* the start to the target: every method that can be reached was searched  *)
(* and all it calls is known.                                              *)
NotFoundMeansUnreachable ==
    Reported /\ ~Found /\ limitedNodes = 0 /\ unknownEdges = 0 =>
        LET reachable == Within(start)[Cardinality(Methods)]
        IN  /\ TargetToken \notin reachable
            /\ \A m \in reachable : \A row \in rows :
                   row.caller = m /\ row.opcode \in FollowedOpcodes =>
                       \/ row.target \in ExternalNames
                       \/ \E callee \in Methods : NameOf[callee] = row.target
==============================================================================
