-------------------------- MODULE CycleSearchProofs --------------------------
(***************************************************************************)
(* Theorems of CycleSearch for any gates and any dependencies: the verdict *)
(* of detect_cycles is exact. A call that returns leaves its node on no    *)
(* cycle, since all it stands on returned before it and it was not among   *)
(* them; a node that is met while it is visited stands below the node it   *)
(* is met from.                                                            *)
(***************************************************************************)
EXTENDS CycleSearch, TLAPS

\* The stack of calls: no node is in it twice, and each stands on those that
\* called it; what is left of a loop is of its own dependencies.
PathInv ==
    /\ \A i, j \in DOMAIN path : path[i] = path[j] => i = j
    /\ visiting \cap visited = {}
    /\ \A i, j \in DOMAIN path : i <= j => path[j] \in Below(depends, path[i])
    /\ \A n \in visiting : pending[n] \subseteq depends[n]

\* What a call has done: the dependencies it has gone through returned, but
\* the one it is in; and so did the starting nodes.
DoneInv ==
    /\ \A i \in DOMAIN path : \A d \in depends[path[i]] \ pending[path[i]] :
          d \in visited \/ (i < Len(path) /\ d = path[i + 1])
    /\ \A g \in Gate \ roots : g \in visited \/ (path # <<>> /\ g = path[1])

\* The nodes whose calls returned: they stand on such nodes only, and on no
\* cycle.
VisitedInv ==
    /\ \A n \in visited : depends[n] \subseteq visited
    /\ \A n \in visited : \A d \in depends[n] : n \notin Below(depends, d)

SearchInv ==
    /\ TypeOK
    /\ PathInv
    /\ VisitedInv
    /\ outcome # "cycle" => DoneInv
    /\ outcome = "acyclic" => path = <<>> /\ roots = {}
    /\ outcome = "cycle" => HasCycle(depends)

-----------------------------------------------------------------------------
\* The graph

\* What a gate stands on is closed under dependencies, and the least such set.
LEMMA BelowIsLeast ==
    ASSUME NEW graph \in [Gate -> SUBSET Gate], NEW g \in Gate
    PROVE  /\ Below(graph, g) \in SUBSET Gate
           /\ g \in Below(graph, g)
           /\ \A x \in Below(graph, g) : graph[x] \subseteq Below(graph, g)
           /\ \A S \in SUBSET Gate :
                 g \in S /\ (\A x \in S : graph[x] \subseteq S) =>
                     Below(graph, g) \subseteq S
BY DEF Below

-----------------------------------------------------------------------------
\* The stack

LEMMA TopOfPath ==
    ASSUME TypeOK, path # <<>>
    PROVE  /\ Len(path) \in Nat /\ Len(path) \in DOMAIN path
           /\ DOMAIN path = 1..Len(path)
           /\ Top = path[Len(path)] /\ Top \in visiting /\ Top \in Gate
<1>1. path \in Seq(Gate) /\ visiting = {path[i] : i \in DOMAIN path}
  BY DEF TypeOK
<1>2. Len(path) \in Nat /\ DOMAIN path = 1..Len(path) /\ Len(path) # 0
  BY <1>1
<1>3. Len(path) \in DOMAIN path
  BY <1>2
<1>4. QED
  BY <1>1, <1>2, <1>3 DEF Top

LEMMA InitSearch == Init => SearchInv
<1> SUFFICES ASSUME Init PROVE SearchInv
  OBVIOUS
<1>1. path = <<>> /\ DOMAIN path = {} /\ path \in Seq(Gate)
  BY DEF Init
<1>2. TypeOK
  BY <1>1 DEF Init, TypeOK
<1>3. PathInv /\ DoneInv /\ VisitedInv
  BY <1>1 DEF Init, PathInv, DoneInv, VisitedInv
<1>4. QED
  BY <1>2, <1>3 DEF Init, SearchInv

\* A call for a node that is being visited, from one that depends on it: the
\* caller stands on the node, and the node is a dependency of the caller.
LEMMA CallInPath ==
    ASSUME SearchInv, path # <<>>, NEW node \in visiting, node \in depends[Top]
    PROVE  HasCycle(depends)
<1>1. TypeOK /\ PathInv
  BY DEF SearchInv
<1>2. PICK i \in DOMAIN path : node = path[i]
  BY <1>1 DEF TypeOK
<1>3. /\ Len(path) \in Nat /\ Len(path) \in DOMAIN path
      /\ DOMAIN path = 1..Len(path)
      /\ Top = path[Len(path)] /\ Top \in Gate
  BY <1>1, TopOfPath
<1>4. i <= Len(path)
  BY <1>2, <1>3
<1>5. Top \in Below(depends, node)
  BY <1>1, <1>2, <1>3, <1>4 DEF PathInv
<1>6. QED
  BY <1>3, <1>5 DEF HasCycle

\* A new call, from the loop that `rest` has left, on top of the stack.
LEMMA CallPushed ==
    ASSUME SearchInv, outcome = "searching", NEW node \in Gate,
           node \notin visiting \cup visited,
           NEW rest \in [Gate -> SUBSET Gate],
           \A n \in visiting : rest[n] \subseteq depends[n],
           path # <<>> => node \in depends[Top],
           \A i \in DOMAIN path : \A d \in depends[path[i]] \ rest[path[i]] :
              \/ d \in visited \/ (i < Len(path) /\ d = path[i + 1])
              \/ i = Len(path) /\ d = node,
           \A g \in Gate \ roots' :
              g \in visited \/ (path # <<>> /\ g = path[1])
                            \/ (path = <<>> /\ g = node),
           visiting' = visiting \cup {node}, path' = Append(path, node),
           pending' = [rest EXCEPT ![node] = depends[node]],
           roots' \subseteq Gate,
           UNCHANGED <<depends, visited, outcome>>
    PROVE  SearchInv'
<1> DEFINE n == Len(path)
<1>1. /\ path \in Seq(Gate) /\ n \in Nat /\ DOMAIN path = 1..n
      /\ path' \in Seq(Gate) /\ Len(path') = n + 1 /\ DOMAIN path' = 1..(n + 1)
      /\ \A i \in 1..n : path'[i] = path[i]
      /\ path'[n + 1] = node /\ path' # <<>>
      /\ depends \in [Gate -> SUBSET Gate]
      /\ visiting = {path[i] : i \in DOMAIN path}
  BY DEF SearchInv, TypeOK
<1>2. path # <<>> => Top = path[n] /\ n \in 1..n
  BY <1>1, TopOfPath DEF SearchInv
<1>3. path = <<>> <=> n = 0
  BY <1>1
<1>4. path # <<>> => path'[1] = path[1]
  BY <1>1, <1>3
<1>5. path = <<>> => path'[1] = node
  BY <1>1, <1>3
<1> HIDE DEF n
<1>6. \A i \in 1..(n + 1) : i \in 1..n \/ i = n + 1
  BY <1>1
<1>7. \A i \in 1..n : i \in 1..(n + 1) /\ i # n + 1 /\ path[i] \in visiting
                      /\ path[i] # node /\ path[i] \in Gate
  BY <1>1
<1>8. visiting' = {path'[i] : i \in 1..(n + 1)}
  BY <1>1, <1>6, <1>7
<1>9. pending'[node] = depends[node]
      /\ \A g \in Gate \ {node} : pending'[g] = rest[g]
      /\ pending' \in [Gate -> SUBSET Gate]
  BY <1>1
<1>10. TypeOK'
  BY <1>1, <1>8, <1>9 DEF SearchInv, TypeOK
<1>11. PathInv'
  <2>1. ASSUME NEW i \in 1..(n + 1), NEW j \in 1..(n + 1), path'[i] = path'[j]
        PROVE  i = j
    BY <1>1, <1>6, <1>7, <2>1 DEF SearchInv, PathInv
  <2>2. ASSUME NEW i \in 1..(n + 1), NEW j \in 1..(n + 1), i <= j
        PROVE  path'[j] \in Below(depends, path'[i])
    <3>1. CASE i \in 1..n /\ j \in 1..n
      BY <1>1, <2>2, <3>1 DEF SearchInv, PathInv
    <3>2. CASE i \in 1..n /\ j = n + 1
      <4>1. path # <<>> /\ i <= n
        BY <1>1, <1>3, <3>2
      <4>2. Top \in Below(depends, path[i])
        BY <1>1, <1>2, <3>2, <4>1 DEF SearchInv, PathInv
      <4>3. node \in Below(depends, path[i])
        BY <1>1, <1>7, <3>2, <4>1, <4>2, BelowIsLeast
      <4>4. QED
        BY <1>1, <3>2, <4>3
    <3>3. CASE i = n + 1 /\ j = n + 1
      BY <1>1, <3>3, BelowIsLeast
    <3>4. CASE i = n + 1 /\ j \in 1..n
      BY <1>1, <2>2, <3>4
    <3>5. QED
      BY <1>6, <3>1, <3>2, <3>3, <3>4
  <2>3. ASSUME NEW g \in visiting' PROVE pending'[g] \subseteq depends'[g]
    <3>1. CASE g = node
      BY <1>9, <3>1
    <3>2. CASE g \in visiting \ {node}
      <4>1. visiting \subseteq Gate /\ g \in visiting
        BY <1>1, <3>2
      <4>2. g \in Gate \ {node} /\ rest[g] \subseteq depends[g]
        BY <3>2, <4>1
      <4>3. QED
        BY <1>9, <4>2
    <3>3. QED
      BY <3>1, <3>2
  <2>4. visiting' \cap visited' = {}
    BY DEF SearchInv, PathInv
  <2>5. QED
    BY <1>1, <2>1, <2>2, <2>3, <2>4 DEF PathInv
<1>12. VisitedInv'
  BY DEF SearchInv, VisitedInv
<1>13. DoneInv'
  <2>1. ASSUME NEW i \in 1..(n + 1),
               NEW d \in depends[path'[i]] \ pending'[path'[i]]
        PROVE  d \in visited \/ (i < n + 1 /\ d = path'[i + 1])
    <3>1. CASE i = n + 1
      BY <1>1, <1>9, <3>1
    <3>2. CASE i \in 1..n
      <4>1. d \in depends[path[i]] \ rest[path[i]]
        BY <1>1, <1>7, <1>9, <3>2
      <4>2. \/ d \in visited \/ (i < n /\ d = path[i + 1])
            \/ i = n /\ d = node
        BY <1>1, <3>2, <4>1 DEF n
      <4>3. i < n => i + 1 \in 1..n
        BY <1>1, <3>2
      <4>4. QED
        BY <1>1, <3>2, <4>2, <4>3
    <3>3. QED
      BY <1>6, <3>1, <3>2
  <2>2. ASSUME NEW g \in Gate \ roots' PROVE g \in visited \/ g = path'[1]
    BY <1>4, <1>5
  <2>3. QED
    BY <1>1, <2>1, <2>2 DEF DoneInv
<1>14. QED
  BY <1>10, <1>11, <1>12, <1>13 DEF SearchInv

\* A call for a node whose first call returned does nothing.
LEMMA CallSkipped ==
    ASSUME SearchInv, outcome = "searching", NEW node \in visited,
           NEW rest \in [Gate -> SUBSET Gate],
           \A n \in visiting : rest[n] \subseteq depends[n],
           \A i \in DOMAIN path : \A d \in depends[path[i]] \ rest[path[i]] :
              \/ d \in visited \/ (i < Len(path) /\ d = path[i + 1])
              \/ i = Len(path) /\ d = node,
           \A g \in Gate \ roots' :
              g \in visited \/ (path # <<>> /\ g = path[1])
                            \/ (path = <<>> /\ g = node),
           pending' = rest, roots' \subseteq Gate,
           UNCHANGED <<depends, path, visiting, visited, outcome>>
    PROVE  SearchInv'
<1>1. TypeOK'
  BY DEF SearchInv, TypeOK
<1>2. PathInv'
  BY DEF SearchInv, PathInv
<1>3. VisitedInv'
  BY DEF SearchInv, VisitedInv
<1>4. DoneInv'
  BY DEF DoneInv
<1>5. QED
  BY <1>1, <1>2, <1>3, <1>4 DEF SearchInv

\* A starting node, and a dependency: the loops as they are left.
LEMMA StepVisit ==
    ASSUME SearchInv, NEW node \in Gate,
           VisitRoot(node) \/ VisitDependency(node)
    PROVE  SearchInv'
<1>1. /\ outcome = "searching"
      /\ depends \in [Gate -> SUBSET Gate] /\ pending \in [Gate -> SUBSET Gate]
      /\ visiting = {path[i] : i \in DOMAIN path} /\ roots \subseteq Gate
      /\ path \in Seq(Gate)
  BY DEF VisitRoot, VisitDependency, SearchInv, TypeOK
<1>2. TypeOK /\ PathInv /\ DoneInv
  BY <1>1 DEF SearchInv
<1>3. CASE VisitRoot(node)
  <2>1. path = <<>> /\ visiting = {} /\ DOMAIN path = {}
    BY <1>1, <1>3 DEF VisitRoot
  <2>2. roots' = roots \ {node} /\ Visit(node, pending) /\ UNCHANGED depends
    BY <1>3 DEF VisitRoot
  <2>3. roots' \subseteq Gate /\ \A g \in Gate \ roots' :
           g \in visited \/ (path # <<>> /\ g = path[1])
                         \/ (path = <<>> /\ g = node)
    BY <1>1, <1>2, <2>1, <2>2 DEF DoneInv
  <2>4. CASE node \in visited \ visiting
    BY <1>1, <2>1, <2>2, <2>3, <2>4, CallSkipped DEF Visit
  <2>5. CASE node \notin visiting \cup visited
    <3>1. /\ visiting' = visiting \cup {node} /\ path' = Append(path, node)
          /\ pending' = [pending EXCEPT ![node] = depends[node]]
          /\ UNCHANGED <<depends, visited, outcome>>
      BY <2>2, <2>5 DEF Visit
    <3>2. QED
      BY <1>1, <2>1, <2>3, <2>5, <3>1, CallPushed
  <2>6. QED
    BY <2>1, <2>4, <2>5
<1>4. CASE VisitDependency(node)
  <2> DEFINE rest == [pending EXCEPT ![Top] = @ \ {node}]
             n == Len(path)
  <2>1. /\ path # <<>> /\ node \in pending[Top] /\ Visit(node, rest)
        /\ UNCHANGED <<depends, roots>>
    BY <1>4 DEF VisitDependency
  <2>2. /\ n \in Nat /\ n \in DOMAIN path /\ DOMAIN path = 1..n
        /\ Top = path[n] /\ Top \in visiting /\ Top \in Gate
    BY <1>2, <2>1, TopOfPath
  <2>3. node \in depends[Top]
    BY <1>2, <2>1, <2>2 DEF PathInv
  <2>4. /\ rest \in [Gate -> SUBSET Gate]
        /\ rest[Top] = pending[Top] \ {node}
        /\ \A g \in Gate \ {Top} : rest[g] = pending[g]
    BY <1>1, <2>2
  <2> HIDE DEF rest
  <2>5. \A g \in visiting : rest[g] \subseteq depends[g]
    <3>1. ASSUME NEW g \in visiting PROVE rest[g] \subseteq depends[g]
      <4>1. g \in Gate /\ pending[g] \subseteq depends[g]
        BY <1>1, <1>2 DEF PathInv
      <4>2. QED
        BY <2>4, <4>1
    <3>2. QED
      BY <3>1
  <2>6. ASSUME NEW i \in DOMAIN path, NEW d \in depends[path[i]] \ rest[path[i]]
        PROVE  \/ d \in visited \/ (i < n /\ d = path[i + 1])
               \/ i = n /\ d = node
    <3>1. path[i] \in Gate
      BY <1>1
    <3>2. CASE i = n
      BY <1>2, <2>2, <2>4, <3>2 DEF DoneInv
    <3>3. CASE i # n
      <4>1. path[i] # Top
        BY <1>2, <2>2, <3>3 DEF PathInv
      <4>2. d \in depends[path[i]] \ pending[path[i]]
        BY <2>4, <3>1, <4>1
      <4>3. QED
        BY <1>2, <4>2 DEF DoneInv
    <3>4. QED
      BY <3>2, <3>3
  <2>7. \A g \in Gate \ roots' :
           g \in visited \/ (path # <<>> /\ g = path[1])
                         \/ (path = <<>> /\ g = node)
    BY <1>2, <2>1 DEF DoneInv
  <2>8. CASE node \in visiting
    <3>1. /\ outcome' = "cycle"
          /\ UNCHANGED <<depends, roots, path, pending, visiting, visited>>
      BY <2>1, <2>8 DEF Visit
    <3>2. HasCycle(depends)
      BY <2>1, <2>3, <2>8, CallInPath
    <3>3. TypeOK' /\ PathInv' /\ VisitedInv'
      BY <3>1 DEF SearchInv, TypeOK, PathInv, VisitedInv
    <3>4. QED
      BY <3>1, <3>2, <3>3 DEF SearchInv
  <2>9. CASE node \in visited \ visiting
    <3>1. pending' = rest /\ UNCHANGED <<depends, path, visiting, visited, outcome>>
      BY <2>1, <2>9 DEF Visit
    <3>2. roots' \subseteq Gate
      BY <1>1, <2>1
    <3>3. QED
      BY <1>1, <2>4, <2>5, <2>6, <2>7, <2>9, <3>1, <3>2, CallSkipped
  <2>10. CASE node \notin visiting \cup visited
    <3>1. /\ visiting' = visiting \cup {node} /\ path' = Append(path, node)
          /\ pending' = [rest EXCEPT ![node] = depends[node]]
          /\ roots' \subseteq Gate
          /\ UNCHANGED <<depends, visited, outcome>>
      BY <1>1, <2>1, <2>10 DEF Visit
    <3>2. QED
      BY <1>1, <2>3, <2>4, <2>5, <2>6, <2>7, <2>10, <3>1, CallPushed
  <2>11. QED
    BY <2>8, <2>9, <2>10
<1>5. QED
  BY <1>3, <1>4

\* A call returns when all its node depends on has returned: what the node
\* stands on was visited, and the node itself was not.
LEMMA StepReturn ==
    ASSUME SearchInv, Return
    PROVE  SearchInv'
<1> DEFINE n == Len(path)
<1>1. /\ TypeOK /\ PathInv /\ DoneInv /\ VisitedInv
      /\ path # <<>> /\ pending[Top] = {} /\ outcome = "searching"
      /\ visiting' = visiting \ {Top} /\ visited' = visited \cup {Top}
      /\ path' = SubSeq(path, 1, n - 1)
      /\ UNCHANGED <<depends, roots, pending, outcome>>
  BY DEF SearchInv, Return
<1>2. /\ n \in Nat /\ n \in DOMAIN path /\ DOMAIN path = 1..n
      /\ Top = path[n] /\ Top \in visiting /\ Top \in Gate
  BY <1>1, TopOfPath
<1>3. path \in Seq(Gate) /\ depends \in [Gate -> SUBSET Gate]
      /\ visiting = {path[i] : i \in DOMAIN path} /\ visited \subseteq Gate
  BY <1>1 DEF TypeOK
<1>4. /\ path' \in Seq(Gate) /\ Len(path') = n - 1 /\ DOMAIN path' = 1..(n - 1)
      /\ \A i \in 1..(n - 1) : path'[i] = path[i]
  BY <1>1, <1>2, <1>3
<1>5. n = 1 => path' = <<>>
  BY <1>4
<1>6. n # 1 => path' # <<>> /\ path'[1] = path[1]
  <2>1. ASSUME n # 1 PROVE 1 \in 1..(n - 1)
    BY <1>2, <2>1
  <2>2. QED
    BY <1>4, <2>1
<1>7. n = Len(path)
  OBVIOUS
<1> HIDE DEF n
<1>8. \A i \in 1..(n - 1) : i \in 1..n /\ i # n /\ i < n /\ path[i] # Top
  <2>1. ASSUME NEW i \in 1..(n - 1) PROVE i \in 1..n /\ i # n /\ i < n
    BY <1>2
  <2>2. QED
    BY <1>1, <1>2, <2>1 DEF PathInv
<1>9. \A i \in 1..n : i \in 1..(n - 1) \/ i = n
  BY <1>2
<1>10. TypeOK'
  <2>1. visiting' = {path'[i] : i \in 1..(n - 1)}
    <3>1. visiting = {path[i] : i \in 1..(n - 1)} \cup {Top}
      BY <1>2, <1>3, <1>8, <1>9
    <3>2. Top \notin {path[i] : i \in 1..(n - 1)}
      BY <1>8
    <3>3. {path'[i] : i \in 1..(n - 1)} = {path[i] : i \in 1..(n - 1)}
      BY <1>4
    <3>4. QED
      BY <1>1, <3>1, <3>2, <3>3
  <2>2. visiting' = {path'[i] : i \in DOMAIN path'}
    BY <1>4, <2>1
  <2>3. visited' \subseteq Gate
    BY <1>1, <1>2, <1>3
  <2>4. QED
    BY <1>1, <1>4, <2>2, <2>3 DEF TypeOK
<1>11. PathInv'
  <2>1. \A i, j \in 1..(n - 1) : path'[i] = path'[j] => i = j
    BY <1>1, <1>2, <1>4, <1>8 DEF PathInv
  <2>2. \A i, j \in 1..(n - 1) : i <= j => path'[j] \in Below(depends, path'[i])
    BY <1>1, <1>2, <1>4, <1>8 DEF PathInv
  <2>3. visiting' \cap visited' = {} /\ \A g \in visiting' : pending[g] \subseteq depends[g]
    BY <1>1 DEF PathInv
  <2>4. \A i, j \in DOMAIN path' : path'[i] = path'[j] => i = j
    BY <1>4, <2>1
  <2>5. \A i, j \in DOMAIN path' : i <= j => path'[j] \in Below(depends', path'[i])
    <3>1. depends' = depends
      BY <1>1
    <3>2. QED
      BY <1>4, <2>2, <3>1
  <2>6. \A g \in visiting' : pending'[g] \subseteq depends'[g]
    BY <1>1, <2>3
  <2>7. QED
    BY <2>3, <2>4, <2>5, <2>6 DEF PathInv
<1>12. DoneInv'
  <2>1. ASSUME NEW i \in 1..(n - 1), NEW d \in depends[path[i]] \ pending[path[i]]
        PROVE  d \in visited' \/ (i < n - 1 /\ d = path'[i + 1])
    <3>1. d \in visited \/ d = path[i + 1]
      BY <1>1, <1>2, <1>8, <2>1 DEF DoneInv
    <3>2. i = n - 1 \/ (i < n - 1 /\ i + 1 \in 1..(n - 1))
      BY <1>2
    <3>3. i = n - 1 => i + 1 = n
      BY <1>2
    <3>4. QED
      BY <1>1, <1>2, <1>4, <3>1, <3>2, <3>3
  <2>2. ASSUME NEW g \in Gate \ roots
        PROVE  g \in visited' \/ (path' # <<>> /\ g = path'[1])
    <3>1. g \in visited \/ g = path[1]
      BY <1>1 DEF DoneInv
    <3>2. n = 1 => path[1] = Top
      BY <1>2
    <3>3. QED
      BY <1>1, <1>6, <3>1, <3>2
  <2>3. \A i \in DOMAIN path' : \A d \in depends'[path'[i]] \ pending'[path'[i]] :
           d \in visited' \/ (i < Len(path') /\ d = path'[i + 1])
    BY <1>1, <1>4, <2>1
  <2>4. \A g \in Gate \ roots' : g \in visited' \/ (path' # <<>> /\ g = path'[1])
    BY <1>1, <2>2
  <2>5. QED
    BY <2>3, <2>4 DEF DoneInv
<1>13. VisitedInv'
  <2>1. depends[Top] \subseteq visited
    BY <1>1, <1>2, <1>7 DEF DoneInv
  <2>2. Top \notin visited
    BY <1>1, <1>2 DEF PathInv
  <2>3. ASSUME NEW d \in depends[Top] PROVE Top \notin Below(depends, d)
    <3>1. d \in Gate /\ d \in visited
      BY <1>2, <1>3, <2>1
    <3>2. Below(depends, d) \subseteq visited
      BY <1>1, <1>3, <3>1, BelowIsLeast DEF VisitedInv
    <3>3. QED
      BY <2>2, <3>2
  <2>4. QED
    BY <1>1, <2>1, <2>3 DEF VisitedInv
<1>14. QED
  BY <1>1, <1>10, <1>11, <1>12, <1>13 DEF SearchInv

-----------------------------------------------------------------------------
\* Theorems

\* The invariant: what a returned call was for is on no cycle, and the calls
\* that have not returned stand on each other.
THEOREM SearchInvariant == Spec => []SearchInv
<1>1. SearchInv /\ [Next]_vars => SearchInv'
  <2> SUFFICES ASSUME SearchInv, [Next]_vars PROVE SearchInv'
    OBVIOUS
  <2>1. CASE \E node \in Gate : VisitRoot(node) \/ VisitDependency(node)
    BY <2>1, StepVisit
  <2>2. CASE Return
    BY <2>2, StepReturn
  <2>3. CASE Accept
    <3>1. /\ outcome = "searching" /\ path = <<>> /\ roots = {}
          /\ outcome' = "acyclic"
          /\ UNCHANGED <<depends, roots, path, pending, visiting, visited>>
      BY <2>3 DEF Accept
    <3>2. TypeOK' /\ PathInv' /\ VisitedInv' /\ DoneInv'
      BY <3>1 DEF SearchInv, TypeOK, PathInv, VisitedInv, DoneInv
    <3>3. QED
      BY <3>1, <3>2 DEF SearchInv
  <2>4. CASE UNCHANGED vars
    BY <2>4 DEF vars, SearchInv, TypeOK, PathInv, VisitedInv, DoneInv
  <2>5. QED
    BY <2>1, <2>2, <2>3, <2>4 DEF Next
<1>2. QED
  BY <1>1, InitSearch, PTL DEF Spec

\* The search is well typed, and its stack and the set of nodes that are being
\* visited agree.
THEOREM SearchTypeCorrect == Spec => []TypeOK
<1>1. SearchInv => TypeOK
  BY DEF SearchInv
<1>2. QED
  BY <1>1, SearchInvariant, PTL

\* detect_cycles refuses a ledger exactly if its dependencies have a cycle,
\* although no node is visited a second time and the starting nodes share
\* what was visited.
THEOREM VerdictExact == Spec => []VerdictIsExact
<1>1. SearchInv => VerdictIsExact
  <2> SUFFICES ASSUME SearchInv, outcome = "acyclic", HasCycle(depends) PROVE FALSE
    BY DEF SearchInv, VerdictIsExact
  <2>1. \A g \in Gate : g \in visited
    BY DEF SearchInv, DoneInv
  <2>2. QED
    BY <2>1 DEF SearchInv, VisitedInv, HasCycle
<1>2. QED
  BY <1>1, SearchInvariant, PTL
=============================================================================
