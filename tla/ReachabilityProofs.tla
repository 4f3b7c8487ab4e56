-------------------------- MODULE ReachabilityProofs --------------------------
(***************************************************************************)
(* The search answers rightly for every assembly, call dump, list of       *)
(* starts and depth.                                                       *)
(***************************************************************************)
EXTENDS Reachability, TLAPS, FiniteSetTheorems, SequenceTheorems, WellFoundedInduction

Visited == DOMAIN depth
Queued  == {queue[i] : i \in DOMAIN queue}

SearchType ==
    /\ rows \in Dumps
    /\ starts \in Seq(Methods) /\ start \in Methods
    /\ queue \in Seq(Methods)
    /\ Visited \subseteq Methods /\ \A m \in Visited : depth[m] \in 0..MaxDepth
    /\ unknownEdges \in Nat /\ limitedNodes \in Nat
    /\ pc \in {"next_start", "search"}

(* Every method but the start was reached by a call from one a level above.*)
Reached(m) ==
    /\ m \in DOMAIN previous /\ previous[m] \in Visited \ {TargetToken}
    /\ Calls(previous[m], m) /\ depth[m] = depth[previous[m]] + 1

Rooted ==
    /\ start \in Visited /\ depth[start] = 0
    /\ \A m \in Visited \ {start} : Reached(m)

(* The queue is sorted, and spans two levels, the deepest ones.            *)
Levels ==
    /\ Queued \subseteq Visited
    /\ \A i, j \in DOMAIN queue : i <= j => depth[queue[i]] <= depth[queue[j]]
    /\ \A m \in Visited : \A i \in DOMAIN queue : depth[m] <= depth[queue[i]] + 1

(* What the search is done with: its calls were followed or counted.       *)
Followed(m) ==
    \A callee \in Edges(m) : callee \in Visited /\ depth[callee] <= depth[m] + 1

Searched(m) ==
    /\ unknownEdges = 0 => Unresolved(m) = 0
    /\ m # TargetToken =>
          \/ Followed(m)
          \/ depth[m] = MaxDepth /\ (limitedNodes = 0 => Edges(m) = {})

Closed == \A m \in Visited \ Queued : Searched(m)

IInv == SearchType /\ (pc = "search" => Rooted /\ Levels /\ Closed)
------------------------------------------------------------------------------
(* The constants: a dump and an assembly are finite.                       *)
LEMMA Dumped ==
    ASSUME SearchType
    PROVE  /\ IsFiniteSet(Methods) /\ IsFiniteSet(rows) /\ MaxDepth \in Nat
           /\ TargetToken \in Methods
           /\ \A m : IsFiniteSet(CallsOf(m)) /\ Unresolved(m) \in Nat
           /\ \A m : Edges(m) \subseteq Methods
<1>1. IsFiniteSet(rows)  BY ReachabilityAssumption DEF SearchType
<1>2. ASSUME NEW m PROVE IsFiniteSet(CallsOf(m)) /\ Unresolved(m) \in Nat
  <2>1. CallsOf(m) \in SUBSET rows  BY DEF CallsOf
  <2>2. IsFiniteSet(CallsOf(m))  BY <1>1, <2>1, FS_Subset
  <2>. DEFINE open == {row \in CallsOf(m) :
                          TokensByName(row.target) = {} /\ row.target \notin ExternalNames}
  <2>3. open \in SUBSET CallsOf(m)  OBVIOUS
  <2>4. IsFiniteSet(open)  BY <2>2, <2>3, FS_Subset
  <2>5. Cardinality(open) \in Nat  BY <2>4, FS_CardinalityType
  <2>. QED BY <2>2, <2>5 DEF Unresolved
<1>3. \A m : Edges(m) \subseteq Methods  BY DEF Edges, TokensByName
<1>4. MaxDepth \in Nat  BY ReachabilityAssumption
<1>. QED BY <1>1, <1>2, <1>3, <1>4, ReachabilityAssumption

(* A method is among the edges of another exactly if that one calls it.    *)
LEMMA EdgesAreCalls ==
    \A m, callee : callee \in Edges(m) <=> callee \in Methods /\ Calls(m, callee)
BY DEF Edges, CallsOf, TokensByName, Calls

(* What is found is queued, all of it, in whatever order.                  *)
LEMMA OrdersAll ==
    ASSUME NEW found, IsFiniteSet(found), NEW order \in Orders(found)
    PROVE  /\ order \in Seq(found)
           /\ \A m \in found : \E i \in 1..Len(order) : order[i] = m
<1>1. Cardinality(found) \in Nat  BY FS_CardinalityType
<1>. DEFINE n == Cardinality(found)
<1>2. order \in [1..n -> found] /\ \A m \in found : \E i \in 1..n : order[i] = m
      BY DEF Orders, Bijection, Injection, Surjection
<1>3. order \in Seq(found) /\ Len(order) = n
  <2>. HIDE DEF n
  <2>. QED BY <1>1, <1>2 DEF n
<1>. QED BY <1>2, <1>3

(* The queue without its head.                                             *)
LEMMA Taken ==
    ASSUME NEW q \in Seq(Methods), q # <<>>
    PROVE  /\ Tail(q) \in Seq(Methods) /\ Len(Tail(q)) \in Nat /\ Len(Tail(q)) = Len(q) - 1
           /\ Head(q) = q[1] /\ 1 \in 1..Len(q) /\ Head(q) \in Methods
           /\ \A i \in 1..Len(Tail(q)) : i + 1 \in 1..Len(q) /\ Tail(q)[i] = q[i + 1]
           /\ \A i \in 1..Len(q) : i # 1 => i - 1 \in 1..Len(Tail(q)) /\ Tail(q)[i - 1] = q[i]
BY HeadTailProperties
------------------------------------------------------------------------------
(* A method is taken from the queue; found is what it leads to first, which*)
(* is nothing at the target and at the limit.                              *)
Takes(found, order) ==
    /\ Dequeue
    /\ limitedNodes' \in {limitedNodes, limitedNodes + 1}
    /\ found \subseteq Edges(current) \ Visited
    /\ found # {} => current # TargetToken /\ depth[current] < MaxDepth
    /\ Visited' = Visited \cup found
    /\ \A m \in Visited : depth'[m] = depth[m]
    /\ \A m \in found : depth'[m] = depth[current] + 1
    /\ DOMAIN previous' = DOMAIN previous \cup found
    /\ \A m \in DOMAIN previous \ found : previous'[m] = previous[m]
    /\ \A m \in found : previous'[m] = current
    /\ order \in Seq(found) /\ \A m \in found : \E i \in 1..Len(order) : order[i] = m
    /\ queue' = Tail(queue) \o order

(* The queue behind it: what stood behind the head, and then what is found.*)
Behind(n, k, found) ==
    /\ queue' \in Seq(Methods) /\ DOMAIN queue' = 1..n + k /\ DOMAIN queue = 1..n + 1
    /\ n \in Nat /\ k \in Nat
    /\ \A i \in 1..n : queue'[i] = queue[i + 1]
    /\ \A i \in n + 1..n + k : queue'[i] \in found
    /\ \A m \in found : \E i \in n + 1..n + k : queue'[i] = m

LEMMA QueueBehind ==
    ASSUME IInv, NEW found, NEW order, Takes(found, order)
    PROVE  \E n, k : Behind(n, k, found)
<1>. DEFINE t == Tail(queue)
            n == Len(t)
            k == Len(order)
<1>1. queue \in Seq(Methods) /\ queue # <<>>  BY DEF IInv, SearchType, Takes, Dequeue
<1>2. /\ t \in Seq(Methods) /\ n \in Nat /\ DOMAIN queue = 1..n + 1
      /\ \A i \in 1..n : t[i] = queue[i + 1]
  <2>1. Len(queue) \in Nat /\ DOMAIN queue = 1..Len(queue)  BY <1>1
  <2>. QED BY <1>1, <2>1, Taken
<1>3. found \subseteq Methods
  <2>1. SearchType  BY DEF IInv
  <2>. QED BY <2>1, Dumped DEF Takes
<1>4. /\ order \in Seq(Methods) /\ k \in Nat /\ queue' = t \o order
      /\ \A i \in 1..k : order[i] \in found
      /\ \A m \in found : \E i \in 1..k : order[i] = m
  <2>1. order \in Seq(found)  BY DEF Takes
  <2>. QED BY <1>3, <2>1 DEF Takes
<1>. HIDE DEF t, n, k
<1>5. /\ t \o order \in Seq(Methods) /\ DOMAIN (t \o order) = 1..n + k
      /\ \A i \in 1..n : (t \o order)[i] = t[i]
      /\ \A i \in n + 1..n + k : (t \o order)[i] = order[i - n]
  <2>. USE DEF n, k
  <2>. QED BY <1>2, <1>4
<1>6. \A i \in 1..n : queue'[i] = queue[i + 1]  BY <1>2, <1>4, <1>5
<1>7. \A i \in n + 1..n + k : queue'[i] \in found
  <2>1. \A i \in n + 1..n + k : i - n \in 1..k  BY <1>2, <1>4
  <2>. QED BY <1>4, <1>5, <2>1
<1>8. ASSUME NEW m \in found PROVE \E i \in n + 1..n + k : queue'[i] = m
  <2>1. PICK i \in 1..k : order[i] = m  BY <1>4
  <2>2. n + i \in n + 1..n + k /\ (n + i) - n = i  BY <1>2, <1>4
  <2>3. queue'[n + i] = m  BY <1>4, <1>5, <2>1, <2>2
  <2>. QED BY <2>2, <2>3
<1>9. Behind(n, k, found)
  <2>1. queue' \in Seq(Methods) /\ DOMAIN queue' = 1..n + k  BY <1>4, <1>5
  <2>. QED BY <1>2, <1>4, <1>6, <1>7, <1>8, <2>1, Zenon DEF Behind
<1>. QED BY <1>9, Zenon

(* What the search was done with it stays done with.                       *)
LEMMA SearchedStays ==
    ASSUME SearchType, NEW found, NEW order, Takes(found, order), NEW m \in Visited, Searched(m)
    PROVE  Searched(m)'
<1>1. rows' = rows  BY DEF Takes, Dequeue
<1>2. Edges(m)' = Edges(m) /\ Unresolved(m)' = Unresolved(m)
      BY <1>1 DEF Edges, Unresolved, CallsOf
<1>3. Unresolved(current) \in Nat /\ unknownEdges \in Nat /\ limitedNodes \in Nat
      BY Dumped DEF SearchType
<1>4. unknownEdges' = 0 => unknownEdges = 0  BY <1>3 DEF Takes, Dequeue
<1>5. limitedNodes' = 0 => limitedNodes = 0  BY <1>3 DEF Takes
<1>6. Followed(m) => Followed(m)'  BY <1>2 DEF Followed, Takes
<1>7. depth'[m] = depth[m]  BY DEF Takes
<1>. QED BY <1>2, <1>4, <1>5, <1>6, <1>7 DEF Searched

(* A method taken from the queue, and what it leads to in it instead.      *)
LEMMA TakesKeeps ==
    ASSUME IInv, NEW found, NEW order, Takes(found, order),
           NEW c, c = current, Searched(c)'
    PROVE  IInv'
<1>1. /\ SearchType /\ Rooted /\ Levels /\ Closed
      /\ pc = "search" /\ pc' = "search" /\ rows' = rows /\ starts' = starts /\ start' = start
      BY DEF IInv, Takes, Dequeue
<1>2. PICK n, k : Behind(n, k, found)  BY QueueBehind
<1>3. c = queue[1] /\ 1 \in DOMAIN queue /\ c \in Queued /\ c \in Visited
  <2>1. queue \in Seq(Methods) /\ queue # <<>>  BY <1>1 DEF SearchType, Takes, Dequeue
  <2>2. Head(queue) = queue[1] /\ 1 \in 1..Len(queue)  BY <2>1, Taken
  <2>3. c = queue[1] /\ 1 \in DOMAIN queue  BY <2>1, <2>2 DEF current
  <2>. QED BY <1>1, <2>3 DEF Queued, Levels
<1>4. depth[c] \in Nat /\ depth[c] <= MaxDepth /\ MaxDepth \in Nat
      BY <1>1, <1>3, Dumped DEF SearchType
<1>5. SearchType'
  <2>1. Visited' \subseteq Methods  BY <1>1, Dumped DEF Takes, SearchType
  <2>2. ASSUME NEW m \in Visited' PROVE depth'[m] \in 0..MaxDepth
    <3>1. CASE m \in Visited  BY <1>1, <3>1 DEF Takes, SearchType
    <3>2. CASE m \in found
      <4>1. depth'[m] = depth[c] + 1 /\ depth[c] < MaxDepth  BY <3>2 DEF Takes
      <4>. QED BY <1>4, <4>1
    <3>. QED BY <3>1, <3>2 DEF Takes
  <2>3. unknownEdges' \in Nat /\ limitedNodes' \in Nat
    <3>1. Unresolved(c) \in Nat  BY <1>1, Dumped
    <3>. QED BY <1>1, <3>1 DEF Takes, Dequeue, SearchType
  <2>4. queue' \in Seq(Methods)  BY <1>2 DEF Behind
  <2>. QED BY <1>1, <2>1, <2>2, <2>3, <2>4 DEF SearchType
<1>6. Rooted'
  <2>1. start' \in Visited' /\ depth'[start'] = 0  BY <1>1 DEF Rooted, Takes
  <2>2. ASSUME NEW m \in Visited' \ {start'} PROVE Reached(m)'
    <3>0. \A a, b : Calls(a, b)' <=> Calls(a, b)  BY <1>1 DEF Calls
    <3>1. CASE m \in Visited
      <4>1. Reached(m) /\ m \notin found  BY <1>1, <2>2, <3>1 DEF Rooted, Takes
      <4>2. previous'[m] = previous[m] /\ m \in DOMAIN previous'  BY <4>1 DEF Reached, Takes
      <4>3. /\ depth'[m] = depth[m] /\ depth'[previous[m]] = depth[previous[m]]
            /\ previous[m] \in Visited'
            BY <3>1, <4>1 DEF Reached, Takes
      <4>. QED BY <3>0, <4>1, <4>2, <4>3 DEF Reached
    <3>2. CASE m \in found
      <4>1. /\ previous'[m] = c /\ m \in DOMAIN previous' /\ c \in Visited'
            /\ c # TargetToken /\ depth'[m] = depth[c] + 1 /\ depth'[c] = depth[c]
            BY <1>3, <3>2 DEF Takes
      <4>2. Calls(c, m)  BY <3>2, EdgesAreCalls DEF Takes
      <4>. QED BY <3>0, <4>1, <4>2 DEF Reached
    <3>. QED BY <2>2, <3>1, <3>2 DEF Takes
  <2>. QED BY <2>1, <2>2 DEF Rooted
<1>7. ASSUME NEW i \in DOMAIN queue'
      PROVE  /\ queue'[i] \in Visited' /\ depth'[queue'[i]] \in Nat
             /\ depth[c] <= depth'[queue'[i]] /\ depth'[queue'[i]] <= depth[c] + 1
  <2>1. i \in 1..n \/ i \in n + 1..n + k  BY <1>2 DEF Behind
  <2>2. CASE i \in 1..n
    <3>1. i + 1 \in DOMAIN queue /\ queue'[i] = queue[i + 1] /\ 1 <= i + 1
          BY <1>2, <2>2 DEF Behind
    <3>2. queue[i + 1] \in Visited  BY <1>1, <3>1 DEF Levels, Queued
    <3>3. depth'[queue'[i]] = depth[queue[i + 1]]  BY <3>1, <3>2 DEF Takes
    <3>4. depth[c] <= depth[queue[i + 1]] /\ depth[queue[i + 1]] <= depth[c] + 1
          BY <1>1, <1>3, <3>1, <3>2 DEF Levels
    <3>5. depth[queue[i + 1]] \in Nat  BY <1>1, <3>2 DEF SearchType
    <3>. QED BY <3>1, <3>2, <3>3, <3>4, <3>5 DEF Takes
  <2>3. CASE i \in n + 1..n + k
    <3>1. queue'[i] \in found  BY <1>2, <2>3 DEF Behind
    <3>2. depth'[queue'[i]] = depth[c] + 1 /\ queue'[i] \in Visited'  BY <3>1 DEF Takes
    <3>. QED BY <1>4, <3>2
  <2>. QED BY <2>1, <2>2, <2>3
<1>8. Levels'
  <2>1. Queued' \subseteq Visited'  BY <1>7 DEF Queued
  <2>2. ASSUME NEW i \in DOMAIN queue', NEW j \in DOMAIN queue', i <= j
        PROVE  depth'[queue'[i]] <= depth'[queue'[j]]
    <3>1. CASE j \in 1..n
      <4>1. i \in 1..n  BY <1>2, <2>2, <3>1 DEF Behind
      <4>2. /\ i + 1 \in DOMAIN queue /\ queue'[i] = queue[i + 1]
            /\ j + 1 \in DOMAIN queue /\ queue'[j] = queue[j + 1] /\ i + 1 <= j + 1
            BY <1>2, <2>2, <3>1, <4>1 DEF Behind
      <4>3. queue[i + 1] \in Visited /\ queue[j + 1] \in Visited
            BY <1>1, <4>2 DEF Levels, Queued
      <4>4. depth[queue[i + 1]] <= depth[queue[j + 1]]  BY <1>1, <4>2 DEF Levels
      <4>. QED BY <4>2, <4>3, <4>4 DEF Takes
    <3>2. CASE j \in n + 1..n + k
      <4>1. queue'[j] \in found  BY <1>2, <3>2 DEF Behind
      <4>2. depth'[queue'[j]] = depth[c] + 1  BY <4>1 DEF Takes
      <4>. QED BY <1>7, <4>2
    <3>. QED BY <1>2, <3>1, <3>2 DEF Behind
  <2>3. ASSUME NEW m \in Visited', NEW i \in DOMAIN queue'
        PROVE  depth'[m] <= depth'[queue'[i]] + 1
    <3>1. depth'[m] \in Nat /\ depth'[m] <= depth[c] + 1
      <4>1. CASE m \in Visited
        <5>1. depth[m] <= depth[c] + 1  BY <1>1, <1>3, <4>1 DEF Levels
        <5>2. depth'[m] = depth[m]  BY <4>1 DEF Takes
        <5>3. depth[m] \in Nat  BY <1>1, <4>1 DEF SearchType
        <5>. QED BY <5>1, <5>2, <5>3
      <4>2. CASE m \in found
        <5>1. depth'[m] = depth[c] + 1  BY <4>2 DEF Takes
        <5>. QED BY <1>4, <5>1
      <4>3. m \in Visited \/ m \in found  BY DEF Takes
      <4>. QED BY <4>1, <4>2, <4>3
    <3>. QED BY <1>4, <1>7, <3>1
  <2>. QED BY <2>1, <2>2, <2>3 DEF Levels
<1>9. Closed'
  <2>. SUFFICES ASSUME NEW m \in Visited', m \notin Queued' PROVE Searched(m)'
       BY DEF Closed
  <2>1. m \notin found
    <3>1. ASSUME m \in found PROVE FALSE
      <4>1. PICK i \in n + 1..n + k : queue'[i] = m  BY <1>2, <3>1 DEF Behind
      <4>2. i \in DOMAIN queue'  BY <1>2, <4>1 DEF Behind
      <4>. QED BY <4>1, <4>2 DEF Queued
    <3>. QED BY <3>1
  <2>2. m \in Visited  BY <2>1 DEF Takes
  <2>3. CASE m = c  BY <2>3
  <2>4. CASE m # c
    <3>1. m \notin Queued
      <4>1. ASSUME NEW i \in DOMAIN queue, queue[i] = m PROVE FALSE
        <5>1. i \in 1..n + 1 /\ i # 1 /\ n \in Nat  BY <1>2, <1>3, <2>4, <4>1 DEF Behind
        <5>2. i - 1 \in 1..n /\ (i - 1) + 1 = i  BY <5>1
        <5>3. queue'[i - 1] = m /\ i - 1 \in DOMAIN queue'
          <6>1. queue'[i - 1] = queue[(i - 1) + 1]  BY <1>2, <5>2 DEF Behind
          <6>2. i - 1 \in 1..n + k  BY <1>2, <5>2 DEF Behind
          <6>. QED BY <1>2, <4>1, <5>2, <6>1, <6>2 DEF Behind
        <5>. QED BY <5>3 DEF Queued
      <4>. QED BY <4>1 DEF Queued
    <3>2. Searched(m)  BY <1>1, <2>2, <3>1 DEF Closed
    <3>. QED BY <1>1, <2>2, <3>2, SearchedStays
  <2>. QED BY <2>3, <2>4
<1>. QED BY <1>1, <1>5, <1>6, <1>8, <1>9 DEF IInv
(* The steps of the search.                                                *)
LEMMA StepIInv == IInv /\ [Next]_vars => IInv'
<1>. SUFFICES ASSUME IInv, [Next]_vars PROVE IInv'  OBVIOUS
<1>1. CASE NextStart
  <2>1. start \in Methods /\ start' \in Methods /\ starts' \in Seq(Methods)
    <3>1. starts \in Seq(Methods) /\ starts # <<>>  BY <1>1 DEF IInv, SearchType, NextStart
    <3>2. Head(starts) \in Methods /\ Tail(starts) \in Seq(Methods)  BY <3>1, Taken
    <3>. QED BY <1>1, <3>2 DEF IInv, SearchType, NextStart
  <2>2. /\ queue' = <<start'>> /\ Visited' = {start'} /\ depth'[start'] = 0
        /\ unknownEdges' = 0 /\ limitedNodes' = 0 /\ pc' = "search" /\ rows' = rows
        BY <1>1 DEF NextStart, Visited
  <2>3. /\ queue' \in Seq(Methods) /\ DOMAIN queue' = {1} /\ queue'[1] = start'
        BY <2>1, <2>2
  <2>4. MaxDepth \in Nat  BY Dumped DEF IInv
  <2>5. SearchType'  BY <2>1, <2>2, <2>3, <2>4 DEF SearchType, IInv
  <2>6. Rooted'  BY <2>2 DEF Rooted
  <2>7. Queued' = {start'}  BY <2>3 DEF Queued
  <2>8. Levels'  BY <2>2, <2>3, <2>7 DEF Levels
  <2>9. Closed'  BY <2>2, <2>7 DEF Closed
  <2>. QED BY <2>5, <2>6, <2>8, <2>9 DEF IInv
<1>0. PICK c : c = current  OBVIOUS
<1>2. ASSUME Dequeue
      PROVE  /\ IInv /\ pc = "search" /\ SearchType /\ c \in Visited
             /\ Edges(c)' = Edges(c) /\ Unresolved(c)' = Unresolved(c)
             /\ unknownEdges' = 0 => Unresolved(c) = 0
             /\ depth[c] \in 0..MaxDepth /\ MaxDepth \in Nat
             /\ IsFiniteSet(Methods) /\ Edges(c) \subseteq Methods
             /\ \A m \in Visited : depth[m] <= depth[c] + 1
  <2>1. pc = "search" /\ SearchType /\ Levels /\ rows' = rows  BY <1>2 DEF Dequeue, IInv
  <2>2. queue \in Seq(Methods) /\ queue # <<>>  BY <1>2, <2>1 DEF Dequeue, SearchType
  <2>3. c = queue[1] /\ 1 \in DOMAIN queue
    <3>1. Head(queue) = queue[1] /\ 1 \in 1..Len(queue)  BY <2>2, Taken
    <3>. QED BY <1>0, <2>2, <3>1 DEF current
  <2>4. c \in Visited  BY <2>1, <2>3 DEF Levels, Queued
  <2>5. Edges(c)' = Edges(c) /\ Unresolved(c)' = Unresolved(c)
        BY <2>1 DEF Edges, Unresolved, CallsOf
  <2>6. unknownEdges' = 0 => Unresolved(c) = 0
    <3>1. unknownEdges \in Nat /\ Unresolved(c) \in Nat  BY <2>1, Dumped DEF SearchType
    <3>. QED BY <1>0, <1>2, <3>1 DEF Dequeue
  <2>7. depth[c] \in 0..MaxDepth  BY <2>1, <2>4 DEF SearchType
  <2>8. \A m \in Visited : depth[m] <= depth[c] + 1  BY <2>1, <2>3 DEF Levels
  <2>. QED BY <2>1, <2>4, <2>5, <2>6, <2>7, <2>8, Dumped
<1>3. ASSUME Dequeue, queue' = Tail(queue), depth' = depth, previous' = previous,
             limitedNodes' \in {limitedNodes, limitedNodes + 1}, Searched(c)'
      PROVE  IInv'
  <2>1. <<>> \in Seq({}) /\ Len(<<>>) = 0  OBVIOUS
  <2>2. Tail(queue) \o <<>> = Tail(queue)
    <3>1. queue \in Seq(Methods) /\ queue # <<>>  BY <1>3 DEF Dequeue, IInv, SearchType
    <3>2. Tail(queue) \in Seq(Methods)  BY <3>1, Taken
    <3>. QED BY <3>2, ConcatEmptySeq
  <2>3. Takes({}, <<>>)  BY <1>3, <2>1, <2>2 DEF Takes, Visited
  <2>. QED BY <1>0, <1>3, <2>3, TakesKeeps
<1>4. CASE AtTarget
  <2>1. Dequeue /\ c = TargetToken  BY <1>0, <1>4 DEF AtTarget
  <2>2. Searched(c)'  BY <1>2, <2>1 DEF Searched
  <2>. QED BY <1>3, <1>4, <2>1, <2>2 DEF AtTarget
<1>5. CASE AtLimit
  <2>1. /\ Dequeue /\ depth[c] >= MaxDepth /\ depth' = depth
        /\ limitedNodes' = IF Edges(c) # {} THEN limitedNodes + 1 ELSE limitedNodes
        BY <1>0, <1>5 DEF AtLimit
  <2>2. limitedNodes' = 0 => Edges(c) = {}  BY <1>2, <2>1 DEF SearchType
  <2>3. depth'[c] = MaxDepth  BY <1>2, <2>1
  <2>4. Searched(c)'  BY <1>2, <2>1, <2>2, <2>3 DEF Searched
  <2>. QED BY <1>3, <1>5, <2>1, <2>4 DEF AtLimit
<1>6. CASE Expand
  <2>. DEFINE found == Edges(c) \ Visited
  <2>1. /\ Dequeue /\ c # TargetToken /\ depth[c] < MaxDepth /\ Visit(found)
        /\ limitedNodes' = limitedNodes
        BY <1>0, <1>6 DEF Expand, Visited
  <2>2. PICK order \in Orders(found) : queue' = Tail(queue) \o order
        BY <1>0, <1>6 DEF Expand, Visited
  <2>3. IsFiniteSet(found)
    <3>1. found \in SUBSET Methods  BY <1>2, <2>1
    <3>. QED BY <1>2, <2>1, <3>1, FS_Subset
  <2>4. order \in Seq(found) /\ \A m \in found : \E i \in 1..Len(order) : order[i] = m
    <3>. HIDE DEF found
    <3>. QED BY <2>2, <2>3, OrdersAll
  <2>5. /\ Visited' = Visited \cup found
        /\ \A m \in Visited : depth'[m] = depth[m]
        /\ \A m \in found : depth'[m] = depth[c] + 1
        /\ DOMAIN previous' = DOMAIN previous \cup found
        /\ \A m \in DOMAIN previous \ found : previous'[m] = previous[m]
        /\ \A m \in found : previous'[m] = c
        BY <1>0, <2>1 DEF Visit, Visited
  <2>6. Takes(found, order)
    <3>. HIDE DEF found
    <3>1. found \subseteq Edges(c) \ Visited  BY DEF found
    <3>. QED BY <2>1, <2>2, <2>4, <2>5, <3>1, <1>0 DEF Takes
  <2>7. Searched(c)'
    <3>1. ASSUME NEW callee \in Edges(c)
          PROVE  callee \in Visited' /\ depth'[callee] <= depth'[c] + 1
      <4>0. depth'[c] = depth[c] /\ depth[c] \in Nat  BY <1>2, <2>1, <2>5
      <4>1. CASE callee \in Visited
        <5>1. depth[callee] <= depth[c] + 1  BY <1>2, <2>1, <4>1
        <5>. QED BY <2>5, <4>0, <4>1, <5>1
      <4>2. CASE callee \notin Visited
        <5>1. callee \in found  BY <3>1, <4>2
        <5>2. callee \in Visited' /\ depth'[callee] = depth[c] + 1  BY <2>5, <5>1
        <5>. QED BY <4>0, <5>2
      <4>. QED BY <4>1, <4>2
    <3>2. Followed(c)'  BY <1>2, <2>1, <3>1 DEF Followed
    <3>. QED BY <1>2, <2>1, <3>2 DEF Searched
  <2>. QED BY <1>0, <2>6, <2>7, TakesKeeps
<1>7. CASE Report
  <2>1. SearchType'  BY <1>7 DEF Report, search, IInv, SearchType, Visited
  <2>2. pc' = "next_start"  BY <1>7 DEF Report
  <2>. QED BY <2>1, <2>2 DEF IInv
<1>8. CASE UNCHANGED vars
  <2>1. SearchType'  BY <1>8 DEF vars, search, IInv, SearchType, Visited
  <2>2. pc' = pc /\ (Rooted => Rooted') /\ (Levels => Levels')
        BY <1>8 DEF vars, search, Rooted, Reached, Levels, Visited, Queued, Calls
  <2>3. /\ rows' = rows /\ unknownEdges' = unknownEdges /\ limitedNodes' = limitedNodes
        /\ depth' = depth /\ Visited' = Visited /\ Queued' = Queued
        BY <1>8 DEF vars, search, Visited, Queued
  <2>4. ASSUME NEW m, Searched(m) PROVE Searched(m)'
    <3>1. Edges(m)' = Edges(m) /\ Unresolved(m)' = Unresolved(m)
          BY <2>3 DEF Edges, Unresolved, CallsOf
    <3>2. Followed(m) <=> Followed(m)'  BY <2>3, <3>1, Zenon DEF Followed
    <3>. QED BY <2>3, <2>4, <3>1, <3>2, Zenon DEF Searched
  <2>5. Closed => Closed'  BY <2>3, <2>4, Zenon DEF Closed
  <2>. QED BY <2>1, <2>2, <2>5 DEF IInv
<1>. QED BY <1>1, <1>4, <1>5, <1>6, <1>7, <1>8 DEF Next

LEMMA InitIInv == Init => IInv
<1>. SUFFICES ASSUME Init PROVE IInv  OBVIOUS
<1>1. Visited = {} /\ queue \in Seq(Methods)  BY DEF Init, Visited
<1>2. SearchType  BY <1>1, ReachabilityAssumption DEF Init, SearchType
<1>. QED BY <1>2 DEF Init, IInv

(* In every reachable state the search has followed or counted the calls of*)
(* every method it has visited and not queued, level by level.             *)
(* trace-il-reachability.ps1:87-115                                        *)
THEOREM SearchInvariant == Spec => []IInv
BY InitIInv, StepIInv, PTL DEF Spec
------------------------------------------------------------------------------
(* Induction, on a set instead of a predicate.                             *)
LEMMA SetInduction ==
    ASSUME NEW S, 0 \in S, \A n \in Nat : n \in S => n + 1 \in S
    PROVE  Nat \subseteq S
<1>. DEFINE R == {p \in Nat \X Nat : p[1] < p[2]}
            T == Nat \ S
<1>1. SUFFICES ASSUME T # {} PROVE FALSE  OBVIOUS
<1>2. IsWellFoundedOn(R, Nat)  BY NatLessThanWellFounded DEF OpToRel
<1>3. \A x, y \in Nat : x < y => <<x, y>> \in R  OBVIOUS
<1>4. T \subseteq Nat  OBVIOUS
<1>. HIDE DEF R
<1>5. PICK x \in T : \A y \in T : ~(<<y, x>> \in R)
  <2>. HIDE DEF T
  <2>. QED BY <1>1, <1>2, <1>4, WFMin
<1>6. x # 0 /\ x \in Nat  OBVIOUS
<1>7. x - 1 \in Nat /\ x - 1 < x  BY <1>6
<1>8. x - 1 \in S  BY <1>3, <1>5, <1>6, <1>7
<1>9. (x - 1) + 1 \in S  BY <1>7, <1>8
<1>10. (x - 1) + 1 = x  BY <1>6
<1>. QED BY <1>9, <1>10

(* The same up to a bound.                                                 *)
LEMMA BoundedInduction ==
    ASSUME NEW S, NEW m \in Nat, 0 \in S, \A n \in 0..m - 1 : n \in S => n + 1 \in S
    PROVE  0..m \subseteq S
<1>. DEFINE T == S \cup {n \in Nat : n > m}
<1>1. 0 \in T  OBVIOUS
<1>2. \A n \in Nat : n \in T => n + 1 \in T
  <2>. SUFFICES ASSUME NEW n \in Nat, n \in T PROVE n + 1 \in T  OBVIOUS
  <2>1. CASE n \in 0..m - 1 /\ n \in S  BY <2>1
  <2>2. CASE ~(n \in 0..m - 1 /\ n \in S)  
    <3>1. n + 1 > m BY <2>2
    <3>. QED BY <3>1
  <2>. QED BY <2>1, <2>2
<1>. HIDE DEF T
<1>3. Nat \subseteq T  BY <1>1, <1>2, SetInduction
<1>. QED BY <1>3 DEF T

(* A function defined by recursion up to a bound exists.                   *)
Recurs(g, S, m, a, step) ==
    g \in [0..m -> S] /\ g[0] = a /\ \A n \in 1..m : g[n] = step[<<g[n - 1], n>>]

LEMMA RecursionUpTo ==
    \A S, m, a, step :
        m \in Nat /\ a \in S /\ step \in [S \X (1..m) -> S] => \E g : Recurs(g, S, m, a, step)
<1>. SUFFICES ASSUME NEW S, NEW m, NEW a, NEW step,
                     m \in Nat, a \in S, step \in [S \X (1..m) -> S]
              PROVE  \E g : Recurs(g, S, m, a, step)
     BY Zenon
<1>. DEFINE Runs(g, k) == g \in [0..k -> S] /\ g[0] = a
                          /\ \A n \in 1..k : g[n] = step[<<g[n - 1], n>>]
            T == {k \in 0..m : \E g : Runs(g, k)}
<1>1. 0 \in T
  <2>. DEFINE h == [n \in 0..0 |-> a]
  <2>1. Runs(h, 0)  OBVIOUS
  <2>2. 0 \in 0..m  OBVIOUS
  <2>. HIDE DEF h, Runs
  <2>. QED BY <2>1, <2>2
<1>2. ASSUME NEW k \in 0..m - 1, k \in T PROVE k + 1 \in T
  <2>1. PICK g : Runs(g, k)  BY <1>2
  <2>. DEFINE h == [n \in 0..k + 1 |-> IF n = k + 1 THEN step[<<g[k], k + 1>>] ELSE g[n]]
  <2>2. k \in 0..k /\ k + 1 \in 1..m /\ k + 1 \in 0..m  OBVIOUS
  <2>3. step[<<g[k], k + 1>>] \in S  BY <2>1, <2>2
  <2>4. h \in [0..k + 1 -> S]  BY <2>1, <2>3
  <2>5. h[0] = a  BY <2>1
  <2>6. ASSUME NEW n \in 1..k + 1 PROVE h[n] = step[<<h[n - 1], n>>]
    <3>1. n - 1 \in 0..k /\ n - 1 # k + 1 /\ n - 1 \in 0..k + 1 /\ n \in 0..k + 1  OBVIOUS
    <3>2. h[n - 1] = g[n - 1]  BY <3>1
    <3>3. CASE n = k + 1
      <4>1. h[n] = step[<<g[k], k + 1>>] /\ n - 1 = k BY <3>1, <3>3
      <4>. QED BY <3>2, <3>3, <4>1
    <3>4. CASE n # k + 1
      <4>1. n \in 1..k  BY <3>4
      <4>2. h[n] = g[n]  BY <3>1, <3>4
      <4>. QED BY <2>1, <3>2, <4>1, <4>2
    <3>. QED BY <3>3, <3>4
  <2>. HIDE DEF h
  <2>7. Runs(h, k + 1)  BY <2>4, <2>5, <2>6
  <2>. QED BY <2>2, <2>7
<1>. HIDE DEF T
<1>3. m \in T
  <2>1. 0..m \subseteq T  BY <1>1, <1>2, BoundedInduction
  <2>. QED BY <2>1
<1>. QED BY <1>3 DEF T, Recurs

(* What n calls lead to, call by call.                                     *)
Called(from) == {m \in Methods : \E c \in from \ {TargetToken} : Calls(c, m)}

LEMMA WithinSteps ==
    ASSUME NEW N, N = Cardinality(Methods), NEW from \in Methods
    PROVE  /\ N \in Nat
           /\ Within(from)[0] = {from}
           /\ \A n \in 1..N : Within(from)[n] = Within(from)[n - 1] \cup Called(Within(from)[n - 1])
<1>. DEFINE S == SUBSET Methods
            a == {from}
            step == [x \in S \X (1..N) |-> x[1] \cup Called(x[1])]
            P(g) == g = [n \in 0..N |-> IF n = 0 THEN a ELSE g[n - 1] \cup Called(g[n - 1])]
<1>1. N \in Nat /\ a \in S  BY ReachabilityAssumption, FS_CardinalityType
<1>2. \A b \in S : b \cup Called(b) \in S  BY DEF Called
<1>. HIDE DEF S
<1>3. step \in [S \X (1..N) -> S] /\ \A b \in S, n \in 1..N : step[<<b, n>>] = b \cup Called(b)
      BY <1>2
<1>. HIDE DEF step, a
<1>4. PICK g \in [0..N -> S] : g[0] = a /\ \A n \in 1..N : g[n] = step[<<g[n - 1], n>>]
  <2>1. PICK g : Recurs(g, S, N, a, step)  BY <1>1, <1>3, RecursionUpTo, Zenon
  <2>. QED BY <2>1, Zenon DEF Recurs
<1>5. P(g)
  <2>1. ASSUME NEW n \in 0..N
        PROVE  g[n] = IF n = 0 THEN a ELSE g[n - 1] \cup Called(g[n - 1])
    <3>1. n = 0 \/ (n \in 1..N /\ n - 1 \in 0..N /\ n # 0)  BY <1>1
    <3>. QED BY <1>3, <1>4, <3>1
  <2>. QED BY <1>4, <2>1
<1>. DEFINE h == CHOOSE z : P(z)
<1>6. P(h)  BY <1>5, Zenon
<1>7. Within(from) = h  BY Zenon DEF Within, Called, a
<1>. HIDE DEF h
<1>8. 0 \in 0..N /\ \A n \in 1..N : n \in 0..N /\ n # 0  BY <1>1
<1>9. h[0] = a /\ \A n \in 1..N : h[n] = h[n - 1] \cup Called(h[n - 1])
  <2>1. ASSUME NEW n \in 0..N
        PROVE  h[n] = IF n = 0 THEN a ELSE h[n - 1] \cup Called(h[n - 1])
        BY <1>6
  <2>. QED BY <1>8, <2>1
<1>. QED BY <1>1, <1>7, <1>9 DEF a

(* What fewer calls lead to, more lead to as well.                         *)
LEMMA WithinGrows ==
    ASSUME NEW N, N = Cardinality(Methods), NEW from \in Methods
    PROVE  \A j \in 0..N : \A i \in 0..j : Within(from)[i] \subseteq Within(from)[j]
<1>. DEFINE W == Within(from)
            T == {j \in 0..N : \A i \in 0..j : W[i] \subseteq W[j]}
<1>1. N \in Nat /\ \A n \in 1..N : W[n - 1] \subseteq W[n]  BY WithinSteps
<1>. HIDE DEF W
<1>2. 0 \in T  BY <1>1
<1>3. ASSUME NEW j \in 0..N - 1, j \in T PROVE j + 1 \in T
  <2>1. j + 1 \in 1..N /\ (j + 1) - 1 = j /\ j + 1 \in 0..N  BY <1>1
  <2>2. W[j] \subseteq W[j + 1]  BY <1>1, <2>1
  <2>3. ASSUME NEW i \in 0..j + 1 PROVE W[i] \subseteq W[j + 1]
    <3>1. i \in 0..j \/ i = j + 1  BY <1>1
    <3>. QED BY <1>3, <2>2, <3>1
  <2>. QED BY <2>1, <2>3
<1>. HIDE DEF T
<1>4. 0..N \subseteq T  BY <1>1, <1>2, <1>3, BoundedInduction
<1>. QED BY <1>4 DEF T, W
------------------------------------------------------------------------------
(* The answer.                                                             *)

(* When the search has ended, it is done with every method it visited.     *)
LEMMA AllSearched ==
    ASSUME IInv, Reported
    PROVE  /\ SearchType /\ Rooted /\ start \in Methods
           /\ \A m \in Visited : Searched(m)
<1>1. pc = "search" /\ Queued = {}  BY DEF Reported, Queued
<1>. QED BY <1>1 DEF IInv, Closed, SearchType

LEMMA NotFoundAnswer == IInv => NotFoundMeansUnreachable
<1>. SUFFICES ASSUME IInv, Reported, ~Found, limitedNodes = 0, unknownEdges = 0,
                     NEW N, N = Cardinality(Methods),
                     NEW W, W = Within(start)
              PROVE  /\ TargetToken \notin W[N]
                     /\ \A m \in W[N] : \A row \in rows :
                            row.caller = m /\ row.opcode \in FollowedOpcodes =>
                                \/ row.target \in ExternalNames
                                \/ \E callee \in Methods : NameOf[callee] = row.target
     BY DEF NotFoundMeansUnreachable
<1>1. /\ SearchType /\ Rooted /\ start \in Methods /\ TargetToken \notin Visited
      /\ \A m \in Visited : Searched(m)
      BY AllSearched DEF Found, Visited
<1>2. ASSUME NEW m \in Visited
      PROVE  Unresolved(m) = 0 /\ \A callee \in Edges(m) : callee \in Visited
      BY <1>1 DEF Searched, Followed
<1>3. /\ N \in Nat /\ W[0] = {start}
      /\ \A n \in 1..N : W[n] = W[n - 1] \cup Called(W[n - 1])
      BY <1>1, WithinSteps
<1>4. W[N] \subseteq Visited
  <2>. DEFINE T == {n \in 0..N : W[n] \subseteq Visited}
  <2>1. 0 \in T  BY <1>1, <1>3 DEF Rooted
  <2>2. ASSUME NEW n \in 0..N - 1, n \in T PROVE n + 1 \in T
    <3>1. n + 1 \in 1..N /\ (n + 1) - 1 = n /\ n + 1 \in 0..N  BY <1>3
    <3>2. Called(W[n]) \subseteq Visited  BY <1>2, <2>2, EdgesAreCalls DEF Called
    <3>3. W[n + 1] = W[n] \cup Called(W[n])  BY <1>3, <3>1
    <3>. QED BY <2>2, <3>1, <3>2, <3>3
  <2>. HIDE DEF T
  <2>3. 0..N \subseteq T  BY <1>3, <2>1, <2>2, BoundedInduction
  <2>. QED BY <1>3, <2>3 DEF T
<1>5. ASSUME NEW m \in W[N], NEW row \in rows,
             row.caller = m, row.opcode \in FollowedOpcodes, row.target \notin ExternalNames
      PROVE  \E callee \in Methods : NameOf[callee] = row.target
  <2>. DEFINE open == {r \in CallsOf(m) :
                          TokensByName(r.target) = {} /\ r.target \notin ExternalNames}
  <2>1. Cardinality(open) = 0  BY <1>2, <1>4 DEF Unresolved
  <2>2. IsFiniteSet(open)
    <3>1. open \in SUBSET CallsOf(m)  OBVIOUS
    <3>2. IsFiniteSet(CallsOf(m))  BY <1>1, Dumped
    <3>. QED BY <3>1, <3>2, FS_Subset
  <2>. HIDE DEF open
  <2>3. open = {}  BY <2>1, <2>2, FS_EmptySet
  <2>4. row \in CallsOf(m)  BY <1>5 DEF CallsOf
  <2>5. TokensByName(row.target) # {}  BY <1>5, <2>3, <2>4 DEF open
  <2>. QED BY <2>5 DEF TokensByName
<1>. QED BY <1>1, <1>4, <1>5
(* The depths visited have no gaps, so that the deepest is below the number*)
(* of methods.                                                             *)
LEMMA DepthBelow ==
    ASSUME SearchType, Rooted, NEW N, N = Cardinality(Methods), NEW m \in Visited
    PROVE  N \in Nat /\ depth[m] \in Nat /\ depth[m] < N
<1>. DEFINE k == depth[m]
            D == [v \in Visited |-> depth[v]]
            T == {j \in 0..k : \E v \in Visited : depth[v] = k - j}
            R == {depth[v] : v \in Visited}
<1>1. N \in Nat /\ k \in Nat /\ \A v \in Visited : depth[v] \in Nat
      BY ReachabilityAssumption, FS_CardinalityType DEF SearchType
<1>. HIDE DEF k
<1>2. 0 \in T
  <2>1. 0 \in 0..k /\ k - 0 = k  BY <1>1
  <2>2. depth[m] = k - 0  BY <2>1 DEF k
  <2>. QED BY <2>1, <2>2
<1>3. ASSUME NEW j \in 0..k - 1, j \in T PROVE j + 1 \in T
  <2>1. PICK v \in Visited : depth[v] = k - j  BY <1>3
  <2>2. depth[v] # 0 /\ j + 1 \in 0..k  BY <1>1, <2>1
  <2>3. Reached(v)  BY <2>2 DEF Rooted
  <2>4. previous[v] \in Visited /\ depth[v] = depth[previous[v]] + 1  BY <2>3 DEF Reached
  <2>5. depth[previous[v]] = k - (j + 1)
    <3>1. depth[previous[v]] \in Nat  BY <1>1, <2>4
    <3>. QED BY <1>1, <2>1, <2>4, <3>1
  <2>. QED BY <2>2, <2>4, <2>5
<1>4. 0..k \subseteq T
  <2>. HIDE DEF T
  <2>. QED BY <1>1, <1>2, <1>3, BoundedInduction
<1>5. 0..k \subseteq R
  <2>. SUFFICES ASSUME NEW i \in 0..k PROVE i \in R  OBVIOUS
  <2>1. k - i \in T /\ k - (k - i) = i  BY <1>1, <1>4
  <2>. QED BY <2>1
<1>6. IsFiniteSet(Visited) /\ Cardinality(Visited) \in Nat /\ Cardinality(Visited) <= N
  <2>1. IsFiniteSet(Methods)  BY ReachabilityAssumption
  <2>. DEFINE V == Visited
  <2>2. V \in SUBSET Methods  BY DEF SearchType
  <2>. HIDE DEF V
  <2>3. IsFiniteSet(V) /\ Cardinality(V) <= N  BY <2>1, <2>2, FS_Subset
  <2>. QED BY <2>3, FS_CardinalityType DEF V
<1>7. IsFiniteSet(R) /\ Cardinality(R) \in Nat /\ Cardinality(R) <= Cardinality(Visited)
  <2>. DEFINE V == Visited
  <2>1. D \in Surjection(V, R)  BY DEF Surjection
  <2>. HIDE DEF V, D, R
  <2>2. IsFiniteSet(R) /\ Cardinality(R) <= Cardinality(V)  BY <1>6, <2>1, FS_Surjection DEF V
  <2>. QED BY <2>2, FS_CardinalityType DEF V
<1>8. Cardinality(0..k) <= Cardinality(R) /\ Cardinality(0..k) = k + 1
  <2>. DEFINE I == 0..k
  <2>1. IsFiniteSet(I) /\ Cardinality(I) = k + 1
    <3>1. 0 \in Int /\ k \in Int /\ ~(0 > k) /\ k - 0 + 1 = k + 1  BY <1>1
    <3>2. IsFiniteSet(0..k) /\ Cardinality(0..k) = IF 0 > k THEN 0 ELSE k - 0 + 1
          BY <3>1, FS_Interval, Zenon
    <3>. QED BY <3>1, <3>2, Zenon
  <2>2. I \in SUBSET R  BY <1>5
  <2>. HIDE DEF I, R
  <2>3. Cardinality(I) <= Cardinality(R)  BY <1>7, <2>2, FS_Subset
  <2>. QED BY <2>1, <2>3 DEF I
<1>. QED BY <1>1, <1>6, <1>7, <1>8 DEF k

(* A method within n calls is visited at a depth of n at the most, ...     *)
LEMMA WithinVisited ==
    ASSUME IInv, Reported, NEW N, N = Cardinality(Methods), NEW W, W = Within(start),
           NEW n \in 0..N, n <= MaxDepth, NEW m \in W[n]
    PROVE  m \in Visited /\ depth[m] <= n
<1>. DEFINE T == {i \in 0..N : i <= MaxDepth => \A v \in W[i] : v \in Visited /\ depth[v] <= i}
<1>1. /\ SearchType /\ Rooted /\ start \in Methods /\ MaxDepth \in Nat
      /\ \A v \in Visited : Searched(v) /\ depth[v] \in Nat
      BY AllSearched, Dumped DEF SearchType
<1>2. /\ N \in Nat /\ W[0] = {start}
      /\ \A i \in 1..N : W[i] = W[i - 1] \cup Called(W[i - 1])
      BY <1>1, WithinSteps
<1>3. 0 \in T  BY <1>1, <1>2 DEF Rooted
<1>4. ASSUME NEW i \in 0..N - 1, i \in T PROVE i + 1 \in T
  <2>. SUFFICES ASSUME i + 1 <= MaxDepth, NEW v \in W[i + 1]
                PROVE  v \in Visited /\ depth[v] <= i + 1
       BY <1>2
  <2>1. i + 1 \in 1..N /\ (i + 1) - 1 = i /\ i \in Nat /\ i < MaxDepth  BY <1>1, <1>2
  <2>2. \A c \in W[i] : c \in Visited /\ depth[c] <= i  BY <1>1, <1>4, <2>1
  <2>3. v \in W[i] \/ v \in Called(W[i])  BY <1>2, <2>1
  <2>4. CASE v \in W[i]
    <3>1. v \in Visited /\ depth[v] <= i /\ depth[v] \in Nat  BY <1>1, <2>2, <2>4
    <3>. QED BY <2>1, <3>1
  <2>5. CASE v \in Called(W[i])
    <3>1. PICK c \in W[i] \ {TargetToken} : Calls(c, v) /\ v \in Methods  BY <2>5 DEF Called
    <3>2. c \in Visited /\ depth[c] <= i /\ depth[c] \in Nat /\ Searched(c)
          BY <1>1, <2>2, <3>1
    <3>3. depth[c] # MaxDepth  BY <1>1, <2>1, <3>2
    <3>4. Followed(c) /\ v \in Edges(c)  BY <3>1, <3>2, <3>3, EdgesAreCalls DEF Searched
    <3>5. v \in Visited /\ depth[v] <= depth[c] + 1 /\ depth[v] \in Nat
          BY <1>1, <3>4 DEF Followed
    <3>. QED BY <2>1, <3>2, <3>5
  <2>. QED BY <2>3, <2>4, <2>5
<1>. HIDE DEF T
<1>5. 0..N \subseteq T  BY <1>2, <1>3, <1>4, BoundedInduction
<1>. QED BY <1>5 DEF T

(* ... and a method visited is within as many calls as its depth.          *)
LEMMA VisitedWithin ==
    ASSUME SearchType, Rooted, NEW N, N = Cardinality(Methods), NEW W, W = Within(start),
           NEW m \in Visited
    PROVE  depth[m] \in 0..N /\ m \in W[depth[m]]
<1>. DEFINE T == {i \in 0..N : \A v \in Visited : depth[v] = i => v \in W[i]}
<1>1. start \in Methods /\ \A v \in Visited : v \in Methods /\ depth[v] \in Nat /\ depth[v] < N
      BY DepthBelow DEF SearchType
<1>2. /\ N \in Nat /\ W[0] = {start}
      /\ \A i \in 1..N : W[i] = W[i - 1] \cup Called(W[i - 1])
      BY <1>1, WithinSteps
<1>3. ASSUME NEW v \in Visited, v # start
      PROVE  /\ previous[v] \in Visited \ {TargetToken} /\ Calls(previous[v], v)
             /\ depth[v] = depth[previous[v]] + 1 /\ depth[v] # 0
  <2>1. Reached(v)  BY <1>3 DEF Rooted
  <2>2. depth[previous[v]] \in Nat  BY <1>1, <2>1 DEF Reached
  <2>. QED BY <2>1, <2>2 DEF Reached
<1>4. 0 \in T  BY <1>2, <1>3
<1>5. ASSUME NEW i \in 0..N - 1, i \in T PROVE i + 1 \in T
  <2>1. i + 1 \in 1..N /\ (i + 1) - 1 = i /\ i + 1 # 0 /\ i \in Nat  BY <1>2
  <2>. SUFFICES ASSUME NEW v \in Visited, depth[v] = i + 1 PROVE v \in W[i + 1]
       BY <2>1
  <2>2. v # start  BY <2>1 DEF Rooted
  <2>3. /\ previous[v] \in Visited \ {TargetToken} /\ Calls(previous[v], v)
        /\ depth[v] = depth[previous[v]] + 1
        BY <1>3, <2>2
  <2>4. depth[previous[v]] = i
    <3>1. depth[previous[v]] \in Nat  BY <1>1, <2>3
    <3>. QED BY <2>1, <2>3, <3>1
  <2>5. previous[v] \in W[i]  BY <1>5, <2>3, <2>4
  <2>6. v \in Called(W[i])  BY <1>1, <2>3, <2>5 DEF Called
  <2>. QED BY <1>2, <2>1, <2>6
<1>6. 0..N \subseteq T
  <2>. HIDE DEF T
  <2>. QED BY <1>2, <1>4, <1>5, BoundedInduction
<1>7. depth[m] \in 0..N  BY <1>1, <1>2
<1>. QED BY <1>6, <1>7
(* The path, read from the target back: it is a level nearer the start at  *)
(* every step, and so ends there.                                          *)
Walk(back, k) ==
    /\ k \in 0..Cardinality(Methods) /\ k <= MaxDepth /\ k = depth[TargetToken]
    /\ Path = [i \in 1..k + 1 |-> back[k + 1 - i]]
    /\ back[0] = TargetToken /\ back[k] = start
    /\ \A n \in 0..k - 1 : Calls(back[n + 1], back[n])

LEMMA PathBack ==
    ASSUME SearchType, Rooted, TargetToken \in Visited
    PROVE  \E back, k : Walk(back, k)
<1>. DEFINE N == Cardinality(Methods)
            S == Visited
            k == depth[TargetToken]
            Back(b) == IF b = start THEN start ELSE previous[b]
            step == [x \in S \X (1..N) |-> Back(x[1])]
            P(g) == g = [n \in 0..N |->
                            IF n = 0 THEN TargetToken
                            ELSE IF g[n - 1] = start THEN start ELSE previous[g[n - 1]]]
            Steps(g) == CHOOSE n \in 0..N : g[n] = start /\ \A j \in 0..n - 1 : g[j] # start
<1>1. /\ N \in Nat /\ k \in 0..N /\ k \in Nat /\ k <= MaxDepth
      /\ start \in Visited /\ depth[start] = 0
      /\ \A m \in Visited : depth[m] \in Nat
  <2>1. N \in Nat /\ depth[TargetToken] \in Nat /\ depth[TargetToken] < N  BY DepthBelow
  <2>2. k <= MaxDepth  BY Dumped DEF SearchType
  <2>. QED BY <2>1, <2>2, Dumped DEF SearchType, Rooted
<1>2. ASSUME NEW m \in Visited, m # start
      PROVE  previous[m] \in Visited /\ Calls(previous[m], m) /\ depth[m] = depth[previous[m]] + 1
      BY <1>2 DEF Rooted, Reached
<1>3. TargetToken \in S /\ \A b \in S : Back(b) \in S  BY <1>1, <1>2
<1>. HIDE DEF S, k, Back
<1>4. step \in [S \X (1..N) -> S] /\ \A b \in S, n \in 1..N : step[<<b, n>>] = Back(b)
      BY <1>3
<1>. HIDE DEF step, N
<1>5. PICK g \in [0..N -> S] :
          g[0] = TargetToken /\ \A n \in 1..N : g[n] = step[<<g[n - 1], n>>]
  <2>1. PICK g : Recurs(g, S, N, TargetToken, step)  BY <1>1, <1>3, <1>4, RecursionUpTo, Zenon
  <2>. QED BY <2>1, Zenon DEF Recurs
<1>6. P(g)
  <2>1. ASSUME NEW n \in 0..N
        PROVE  g[n] = IF n = 0 THEN TargetToken
                      ELSE IF g[n - 1] = start THEN start ELSE previous[g[n - 1]]
    <3>1. n = 0 \/ (n \in 1..N /\ n - 1 \in 0..N /\ n # 0)  BY <1>1
    <3>. QED BY <1>4, <1>5, <3>1 DEF Back
  <2>. QED BY <1>5, <2>1
<1>. DEFINE h == CHOOSE z : P(z)
<1>7. P(h)  BY <1>6, Zenon
<1>8. Path = [i \in 1..Steps(h) + 1 |-> h[Steps(h) + 1 - i]]  BY Zenon DEF Path, N
<1>. HIDE DEF h
<1>9. /\ h[0] = TargetToken
      /\ \A n \in 1..N : h[n - 1] # start => h[n] = previous[h[n - 1]]
  <2>1. 0 \in 0..N /\ \A n \in 1..N : n \in 0..N /\ n # 0  BY <1>1
  <2>2. ASSUME NEW n \in 0..N
        PROVE  h[n] = IF n = 0 THEN TargetToken
                      ELSE IF h[n - 1] = start THEN start ELSE previous[h[n - 1]]
        BY <1>7
  <2>. QED BY <2>1, <2>2
<1>. HIDE DEF P
<1>10. \A n \in 0..k : h[n] \in Visited /\ depth[h[n]] = k - n
  <2>. DEFINE T == {n \in 0..k : h[n] \in Visited /\ depth[h[n]] = k - n}
  <2>1. 0 \in T
    <3>1. 0 \in 0..k /\ k - 0 = k  BY <1>1
    <3>. QED BY <1>3, <1>9, <3>1 DEF k, S
  <2>2. ASSUME NEW n \in 0..k - 1, n \in T PROVE n + 1 \in T
    <3>1. n + 1 \in 1..N /\ (n + 1) - 1 = n /\ n + 1 \in 0..k /\ n \in Nat /\ k - n # 0
          BY <1>1
    <3>2. h[n] \in Visited /\ depth[h[n]] = k - n /\ h[n] # start  BY <1>1, <2>2, <3>1
    <3>3. h[n + 1] = previous[h[n]]  BY <1>9, <3>1, <3>2
    <3>4. h[n + 1] \in Visited /\ depth[h[n]] = depth[h[n + 1]] + 1  BY <1>2, <3>2, <3>3
    <3>5. depth[h[n + 1]] = k - (n + 1)
      <4>1. depth[h[n + 1]] \in Nat  BY <1>1, <3>4
      <4>2. k \in Nat /\ n \in Nat  BY <1>1, <3>1
      <4>. QED BY <3>2, <3>4, <4>1, <4>2
    <3>. QED BY <3>1, <3>4, <3>5
  <2>. HIDE DEF T
  <2>3. 0..k \subseteq T  BY <1>1, <2>1, <2>2, BoundedInduction
  <2>. QED BY <2>3 DEF T
<1>11. h[k] = start
  <2>1. k \in 0..k /\ k - k = 0  BY <1>1
  <2>2. h[k] \in Visited /\ depth[h[k]] = 0  BY <1>10, <2>1
  <2>3. ASSUME h[k] # start PROVE FALSE
    <3>1. previous[h[k]] \in Visited /\ 0 = depth[previous[h[k]]] + 1  BY <1>2, <2>2, <2>3
    <3>2. depth[previous[h[k]]] \in Nat  BY <1>1, <3>1
    <3>. QED BY <3>1, <3>2
  <2>. QED BY <2>3
<1>12. ASSUME NEW n \in 0..k - 1 PROVE h[n] # start /\ Calls(h[n + 1], h[n])
  <2>1. n \in 0..k /\ n + 1 \in 1..N /\ (n + 1) - 1 = n /\ k - n # 0  BY <1>1
  <2>2. h[n] \in Visited /\ h[n] # start  BY <1>1, <1>10, <2>1
  <2>3. h[n + 1] = previous[h[n]]  BY <1>9, <2>1, <2>2
  <2>. QED BY <1>2, <2>2, <2>3
<1>13. Steps(h) = k
  <2>. DEFINE Q(n) == h[n] = start /\ \A j \in 0..n - 1 : h[j] # start
  <2>1. Q(k)  BY <1>11, <1>12
  <2>2. ASSUME NEW n \in 0..N, Q(n) PROVE n = k
    <3>1. n < k => n \in 0..k - 1  BY <1>1
    <3>2. n > k => k \in 0..n - 1  BY <1>1
    <3>. QED BY <1>1, <1>11, <1>12, <2>2, <3>1, <3>2
  <2>. HIDE DEF Q
  <2>3. \A n \in 0..N : Q(n) <=> n = k  BY <1>1, <2>1, <2>2
  <2>4. (CHOOSE n \in 0..N : Q(n)) \in 0..N /\ Q(CHOOSE n \in 0..N : Q(n))  BY <1>1, <2>1
  <2>5. (CHOOSE n \in 0..N : Q(n)) = k  BY <2>2, <2>4
  <2>. QED BY <2>5 DEF Q
<1>. HIDE DEF Steps
<1>14. Path = [i \in 1..k + 1 |-> h[k + 1 - i]]  BY <1>8, <1>13
<1>15. Walk(h, k)  BY <1>1, <1>9, <1>11, <1>12, <1>14, Zenon DEF Walk, N, k
<1>. QED BY <1>15, Zenon

LEMMA ShortestAnswer == IInv => ShortestPath
<1>. SUFFICES ASSUME IInv, Reported,
                     NEW N, N = Cardinality(Methods), NEW W, W = Within(start),
                     NEW reach, reach = IF MaxDepth < N THEN MaxDepth ELSE N
              PROVE  /\ Found <=> TargetToken \in W[reach]
                     /\ Found => /\ Path[1] = start /\ Path[Len(Path)] = TargetToken
                                 /\ \A i \in 1..Len(Path) - 1 : Calls(Path[i], Path[i + 1])
                                 /\ \A n \in 0..Len(Path) - 2 : TargetToken \notin W[n]
     BY DEF ShortestPath
<1>1. SearchType /\ Rooted /\ start \in Methods /\ MaxDepth \in Nat  BY AllSearched, Dumped
<1>2. N \in Nat  BY <1>1, WithinSteps
<1>3. reach \in 0..N /\ reach <= MaxDepth  BY <1>1, <1>2
<1>4. \A n \in 0..N : n <= MaxDepth =>
          (TargetToken \in W[n] => TargetToken \in Visited /\ depth[TargetToken] <= n)
      BY WithinVisited
<1>5. Found <=> TargetToken \in Visited  BY DEF Found, Visited
<1>6. ASSUME TargetToken \in Visited PROVE TargetToken \in W[reach]
  <2>1. depth[TargetToken] \in 0..N /\ TargetToken \in W[depth[TargetToken]]
        BY <1>1, <1>6, VisitedWithin
  <2>2. depth[TargetToken] \in 0..reach  BY <1>1, <1>2, <1>3, <1>6, <2>1 DEF SearchType
  <2>3. W[depth[TargetToken]] \subseteq W[reach]  BY <1>1, <1>3, <2>2, WithinGrows
  <2>. QED BY <2>1, <2>3
<1>7. ASSUME TargetToken \in Visited
      PROVE  /\ Path[1] = start /\ Path[Len(Path)] = TargetToken
             /\ \A i \in 1..Len(Path) - 1 : Calls(Path[i], Path[i + 1])
             /\ \A n \in 0..Len(Path) - 2 : TargetToken \notin W[n]
  <2>1. PICK back, k : Walk(back, k)  BY <1>1, <1>7, PathBack
  <2>2. /\ k \in 0..N /\ k \in Nat /\ k <= MaxDepth /\ k = depth[TargetToken]
        /\ Path = [i \in 1..k + 1 |-> back[k + 1 - i]]
        /\ back[0] = TargetToken /\ back[k] = start
        /\ \A n \in 0..k - 1 : Calls(back[n + 1], back[n])
        BY <1>2, <2>1 DEF Walk
  <2>3. Len(Path) = k + 1 /\ \A i \in 1..k + 1 : Path[i] = back[k + 1 - i]  BY <2>2
  <2>4. Path[1] = start
    <3>1. 1 \in 1..k + 1 /\ k + 1 - 1 = k  BY <2>2
    <3>. QED BY <2>2, <2>3, <3>1
  <2>5. Path[Len(Path)] = TargetToken
    <3>1. k + 1 \in 1..k + 1 /\ k + 1 - (k + 1) = 0  BY <2>2
    <3>. QED BY <2>2, <2>3, <3>1
  <2>6. ASSUME NEW i \in 1..Len(Path) - 1 PROVE Calls(Path[i], Path[i + 1])
    <3>1. /\ i \in 1..k + 1 /\ i + 1 \in 1..k + 1 /\ k - i \in 0..k - 1
          /\ k + 1 - i = (k - i) + 1 /\ k + 1 - (i + 1) = k - i
          BY <2>2, <2>3
    <3>2. Path[i] = back[(k - i) + 1] /\ Path[i + 1] = back[k - i]  BY <2>3, <3>1
    <3>. QED BY <2>2, <3>1, <3>2
  <2>7. ASSUME NEW n \in 0..Len(Path) - 2 PROVE TargetToken \notin W[n]
    <3>0. n \in 0..k - 1
      <4>1. (k + 1) - 2 = k - 1  BY <2>2
      <4>. QED BY <2>3, <4>1
    <3>1. n \in 0..N /\ n <= MaxDepth /\ ~(k <= n)
      <4>1. k <= N /\ n < k /\ n \in Nat  BY <1>2, <2>2, <3>0
      <4>2. k \in Nat /\ k <= MaxDepth /\ MaxDepth \in Nat  BY <1>1, <2>2
      <4>. QED BY <1>2, <4>1, <4>2
    <3>. QED BY <1>4, <2>2, <3>1
  <2>. QED BY <2>4, <2>5, <2>6, <2>7
<1>. QED BY <1>3, <1>4, <1>5, <1>6, <1>7

(* FOUND says whether MaxDepth calls lead to the target, and the path that *)
(* is printed is a shortest chain of calls to it.                          *)
(* trace-il-reachability.ps1:87-135                                        *)
THEOREM ShortestPathFound == Spec => []ShortestPath
<1>1. Spec => []IInv  BY SearchInvariant
<1>. QED BY <1>1, ShortestAnswer, PTL

(* FOUND=false with nothing limited and nothing unresolved is proof that   *)
(* no chain of recorded calls, of any length, leads to the target.         *)
(* trace-il-reachability.ps1:87-135                                        *)
THEOREM NotFoundIsProof == Spec => []NotFoundMeansUnreachable
<1>1. Spec => []IInv  BY SearchInvariant
<1>. QED BY <1>1, NotFoundAnswer, PTL
===============================================================================
