---------------------------- MODULE ListProtocol ----------------------------
(***************************************************************************)
(* What List (Util/List.h) promises to those who use it: sequences of      *)
(* values.  The models of the queues, of the poller, of ThreadLoad and of  *)
(* ReusePool take lists for such sequences; List.tla implements them.      *)
(***************************************************************************)
EXTENDS Sequences

CONSTANTS Lists,  \* the lists
          Values  \* what they hold

VARIABLE contents  \* the values of each list, front first

Init == contents = [l \in Lists |-> <<>>]

EmplaceFront(l, v) == contents' = [contents EXCEPT ![l] = <<v>> \o @]

EmplaceBack(l, v) == contents' = [contents EXCEPT ![l] = Append(@, v)]

PopFront(l) ==
    /\ contents[l] # <<>>
    /\ contents' = [contents EXCEPT ![l] = Tail(@)]

Clear(l) == contents' = [contents EXCEPT ![l] = <<>>]

Swap(a, b) ==
    contents' = [contents EXCEPT ![a] = contents[b], ![b] = contents[a]]

\* The values of b go behind those of a, and b is left empty.
AppendList(a, b) ==
    /\ a # b
    /\ contents' = [contents EXCEPT ![a] = @ \o contents[b], ![b] = <<>>]

Next ==
    \E l, m \in Lists :
        \/ \E v \in Values : EmplaceFront(l, v) \/ EmplaceBack(l, v)
        \/ PopFront(l) \/ Clear(l)
        \/ Swap(l, m) \/ AppendList(l, m)

Spec == Init /\ [][Next]_contents
=============================================================================
