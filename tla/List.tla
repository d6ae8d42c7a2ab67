-------------------------------- MODULE List --------------------------------
(***************************************************************************)
(* Util/List.h: a singly linked list with a pointer to each end and a      *)
(* count, all three kept by hand.  Several lists draw their nodes from one *)
(* memory, since swap() and append() move nodes between lists; a node that *)
(* was deleted may be allocated again, and keeps its contents until then.  *)
(*                                                                         *)
(* A list is used by one thread at a time: its users hold a lock, or own   *)
(* it.  Nobody changes a list from inside its for_each(), or appends a     *)
(* list to itself.                                                         *)
(***************************************************************************)
EXTENDS Naturals, Sequences, SequencesExt, FiniteSets

CONSTANTS Lists,   \* the lists
          Nodes,   \* bound: the addresses that nodes may have
          Values,  \* what a node may hold
          nullptr

ASSUME NodesAssumption == IsFiniteSet(Nodes) /\ nullptr \notin Nodes

VARIABLES
    allocated,            \* the nodes that exist
    data, next,           \* _data and next of each node
    front, back, size     \* _front, _back and _size of each list

nodeVars == <<allocated, data, next>>
listVars == <<nodeVars, front, back, size>>

Pointers == Nodes \cup {nullptr}

ListInit ==
    /\ allocated = {}
    /\ \E v \in Values : data = [n \in Nodes |-> v]
    /\ next = [n \in Nodes |-> nullptr]
    /\ front = [l \in Lists |-> nullptr]
    /\ back = [l \in Lists |-> nullptr]
    /\ size = [l \in Lists |-> 0]

-----------------------------------------------------------------------------
(* Walking a list *)

\* The nodes that a loop from `first' along links meets; a loop that goes round
\* is cut off after as many nodes as there are.
Walk(first, links) ==
    LET at[k \in 1..Cardinality(Nodes)] ==
            IF k = 1 THEN first
            ELSE IF at[k - 1] = nullptr THEN nullptr ELSE links[at[k - 1]]
    IN  [k \in {i \in DOMAIN at : at[i] # nullptr} |-> at[k]]

Chain(l) == Walk(front[l], next)

\* What for_each() shows its caller.
Contents(l) == LET c == Chain(l) IN [i \in DOMAIN c |-> data[c[i]]]

-----------------------------------------------------------------------------
(* The operations *)

\* new ListNode: node n is allocated, with nothing behind it yet.
NewNode(n, v) ==
    /\ n \notin allocated
    /\ allocated' = allocated \cup {n}
    /\ data' = [data EXCEPT ![n] = v]

\* Node n is the only one of list l.
OnlyNode(l, n) ==
    /\ next' = [next EXCEPT ![n] = nullptr]
    /\ front' = [front EXCEPT ![l] = n]
    /\ back' = [back EXCEPT ![l] = n]
    /\ size' = [size EXCEPT ![l] = 1]

EmplaceFront(l, n, v) ==
    /\ NewNode(n, v)
    /\ \/ front[l] = nullptr /\ OnlyNode(l, n)
       \/ /\ front[l] # nullptr
          /\ next' = [next EXCEPT ![n] = front[l]]
          /\ front' = [front EXCEPT ![l] = n]
          /\ size' = [size EXCEPT ![l] = @ + 1]
          /\ UNCHANGED back

EmplaceBack(l, n, v) ==
    /\ NewNode(n, v)
    /\ \/ back[l] = nullptr /\ OnlyNode(l, n)
       \/ /\ back[l] # nullptr
          /\ next' = [next EXCEPT ![n] = nullptr, ![back[l]] = n]
          /\ back' = [back EXCEPT ![l] = n]
          /\ size' = [size EXCEPT ![l] = @ + 1]
          /\ UNCHANGED front

BackKept(l) == back

BackAfterPop(l) == IF next[front[l]] = nullptr THEN [back EXCEPT ![l] = nullptr] ELSE back

\* pop_front() of an empty list returns at once.
PopFront(l) ==
    /\ front[l] # nullptr
    /\ allocated' = allocated \ {front[l]}
    /\ front' = [front EXCEPT ![l] = next[front[l]]]
    /\ back' = BackAfterPop(l)
    /\ size' = [size EXCEPT ![l] = @ - 1]
    /\ UNCHANGED <<data, next>>

\* clear(), which is also the destructor.
Clear(l) ==
    /\ allocated' = allocated \ Range(Chain(l))
    /\ front' = [front EXCEPT ![l] = nullptr]
    /\ back' = [back EXCEPT ![l] = nullptr]
    /\ size' = [size EXCEPT ![l] = 0]
    /\ UNCHANGED <<data, next>>

Exchanged(f, a, b) == [f EXCEPT ![a] = f[b], ![b] = f[a]]

\* swap(), which is also the move constructor.
Swap(a, b) ==
    /\ front' = Exchanged(front, a, b)
    /\ back' = Exchanged(back, a, b)
    /\ size' = Exchanged(size, a, b)
    /\ UNCHANGED nodeVars

BackLeft(a, b) == [back EXCEPT ![a] = back[b]]

BackMoved(a, b) == [back EXCEPT ![a] = back[b], ![b] = nullptr]

\* append(): the nodes of b go behind those of a.
AppendList(a, b) ==
    /\ a # b /\ size[b] # 0
    /\ IF back[a] = nullptr
       THEN front' = [front EXCEPT ![a] = front[b], ![b] = nullptr] /\ UNCHANGED next
       ELSE /\ next' = [next EXCEPT ![back[a]] = front[b]]
            /\ front' = [front EXCEPT ![b] = nullptr]
    /\ back' = BackMoved(a, b)
    /\ size' = [size EXCEPT ![a] = @ + size[b], ![b] = 0]
    /\ UNCHANGED <<allocated, data>>

ListNext ==
    \E a, b \in Lists :
        \/ \E n \in Nodes, v \in Values : EmplaceFront(a, n, v) \/ EmplaceBack(a, n, v)
        \/ PopFront(a) \/ Clear(a)
        \/ Swap(a, b) \/ AppendList(a, b)

ListSpec == ListInit /\ [][ListNext]_listVars

-----------------------------------------------------------------------------
(* Properties *)

\* The types of the lists, and their shape: next leads from _front to _back
\* and ends there, _size counts the nodes on the way, no node is in two lists
\* or twice in one, and the nodes that are allocated are those of the lists:
\* none is lost and none used after its end.
WellFormed ==
    /\ data \in [Nodes -> Values] /\ next \in [Nodes -> Pointers]
    /\ \A l \in Lists :
         LET c == Chain(l)
         IN  /\ size[l] = Len(c)
             /\ IsInjective(c)
             /\ back[l] = IF c = <<>> THEN nullptr ELSE Last(c)
             /\ c # <<>> => next[back[l]] = nullptr
    /\ \A a, b \in Lists : a # b => Range(Chain(a)) \cap Range(Chain(b)) = {}
    /\ allocated = UNION {Range(Chain(l)) : l \in Lists}

Sequence == INSTANCE ListProtocol WITH contents <- [l \in Lists |-> Contents(l)]

\* Seen through for_each(), the lists are sequences, whatever was done to
\* them before: the pointer to the back and the count never mislead a later
\* emplace_back(), append() or empty().
ImplementsSequences == Sequence!Spec
=============================================================================
