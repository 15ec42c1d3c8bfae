------------------------------ MODULE FatLists -------------------------------
(***************************************************************************)
(* The queue of pdatastructures/queues/TMLinkedListFatQueueByRef.hpp and   *)
(* the stack of pdatastructures/stacks/TMLinkedListFatStackByRef.hpp:      *)
(* lists of nodes with NUM_ITEMS slots each.  With one slot per node the   *)
(* queue is TMLinkedListQueueByRef.hpp.                                    *)
(***************************************************************************)
EXTENDS Naturals, SequencesExt

CONSTANTS Item, NUM_ITEMS,
          MaxNodes  \* bound: nodes in the list

VARIABLES nodes,  \* from head on; of the queue [item, it, ih], filled at it and emptied
                  \* at ih, of the stack [item, ih], of which ih are filled
          result  \* what dequeue() or pop() has returned, or NoItem

NoItem == 0

(* A sentinel, full and emptied. *)
InitQueue ==
  /\ nodes = <<[item |-> <<>>, it |-> NUM_ITEMS, ih |-> NUM_ITEMS]>>
  /\ result = NoItem

Enqueue(x) ==
  /\ \/ /\ Last(nodes).it = NUM_ITEMS /\ Len(nodes) < MaxNodes
        /\ nodes' = Append(nodes, [item |-> <<x>>, it |-> 1, ih |-> 0])
     \/ /\ Last(nodes).it < NUM_ITEMS
        /\ nodes' = [nodes EXCEPT ![Len(nodes)].item = Append(@, x), ![Len(nodes)].it = @ + 1]
  /\ result' = NoItem

FromHeadOnce ==  \* mutant: a head is deleted as soon as one item has left it
  IF Head(nodes).ih > 0 THEN Tail(nodes) ELSE nodes

(* An emptied head is deleted when the next item is asked for.             *)
FromHead == IF Head(nodes).ih = NUM_ITEMS THEN Tail(nodes) ELSE nodes

Dequeue ==
  /\ Len(nodes) > 1
  /\ result' = FromHead[1].item[FromHead[1].ih + 1]
  /\ nodes' = [FromHead EXCEPT ![1].ih = @ + 1]

DequeueNothing == Len(nodes) = 1 /\ result' = NoItem /\ UNCHANGED nodes

NextQueue == (\E x \in Item : Enqueue(x)) \/ Dequeue \/ DequeueNothing

Queued == FlattenSeq([i \in DOMAIN nodes |-> SubSeq(nodes[i].item, nodes[i].ih + 1, nodes[i].it)])

(* Items leave in the order in which they have come, one per call and each *)
(* once, and nothing else changes what is queued.                          *)
FirstInFirstOut ==
  Queued' # Queued =>
    \/ \E x \in Item : Queued' = Append(Queued, x)
    \/ Queued # <<>> /\ Queued' = Tail(Queued) /\ result' = Head(Queued)

(* "while (dequeue() != nullptr); // Drain the queue": the destructor      *)
(* takes an answer without an item for an empty queue.                     *)
DrainEmpties == DequeueNothing => Queued = <<>>
-----------------------------------------------------------------------------
InitStack == nodes = <<>> /\ result = NoItem

HeadHasRoom == nodes # <<>> /\ Head(nodes).ih < NUM_ITEMS

PushNewNode(x) ==
  /\ ~HeadHasRoom
  /\ Len(nodes) < MaxNodes
  /\ nodes' = <<[item |-> <<x>>, ih |-> 1]>> \o nodes
  /\ result' = NoItem

PushInHead(x) ==
  /\ HeadHasRoom
  /\ nodes' = [nodes EXCEPT ![1].item = Append(SubSeq(@, 1, nodes[1].ih), x), ![1].ih = @ + 1]
  /\ result' = NoItem

(* A head without items is deleted when the next item is asked for.        *)
FromTop == IF nodes # <<>> /\ Head(nodes).ih = 0 THEN Tail(nodes) ELSE nodes

Pop ==
  /\ FromTop # <<>>
  /\ result' = FromTop[1].item[FromTop[1].ih]
  /\ nodes' = [FromTop EXCEPT ![1].ih = @ - 1]

PopNothing == FromTop = <<>> /\ nodes' = FromTop /\ result' = NoItem

NextStack == (\E x \in Item : PushNewNode(x) \/ PushInHead(x)) \/ Pop \/ PopNothing

Stacked == FlattenSeq(Reverse([i \in DOMAIN nodes |-> SubSeq(nodes[i].item, 1, nodes[i].ih)]))

(* The last item in is the first one out, one per call and each once, and  *)
(* nothing comes out only of an empty stack.                               *)
LastInFirstOut ==
  /\ Stacked' # Stacked =>
       \/ \E x \in Item : Stacked' = Append(Stacked, x)
       \/ Stacked # <<>> /\ Stacked' = Front(Stacked) /\ result' = Last(Stacked)
  /\ PopNothing => Stacked = <<>>
=============================================================================
