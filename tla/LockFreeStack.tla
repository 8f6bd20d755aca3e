--------------------------- MODULE LockFreeStack ----------------------------
(***************************************************************************)
(* lgx_lfstack_t: a list of malloc'd nodes whose top is replaced by CAS.   *)
(* A pop frees its node, and malloc may hand the address out again; a      *)
(* freed node's next can read as anything.  The `tag' counter of the code  *)
(* is incremented and never read, so it is left out.                       *)
(***************************************************************************)
EXTENDS Integers, Sequences, FiniteSets

CONSTANTS Threads,
          Poppers,      \* the threads that pop (any may push)
          Nodes, NULL   \* addresses malloc hands out, and none

VARIABLES top, next,
          count,        \* -1 stands for SIZE_MAX, and so on down
          allocated,    \* the nodes malloc has given out
          pc, node,     \* node: being pushed, or the pop's old_top
          link,         \* the push's old_top, or the pop's new_top
          stack         \* the nodes in the order of the successful CASes

shared == <<top, next, count, allocated, stack>>
vars == <<shared, pc, node, link>>

Goto(t, l) == pc' = [pc EXCEPT ![t] = l]

\* A call returns and its locals are gone.
Return(t) == /\ Goto(t, "idle")
             /\ node' = [node EXCEPT ![t] = NULL]
             /\ link' = [link EXCEPT ![t] = NULL]

\* lgx_lfstack_create
Init == /\ top = NULL
        /\ next = [x \in Nodes |-> NULL]
        /\ count = 0
        /\ allocated = {}
        /\ stack = <<>>
        /\ pc = [t \in Threads |-> "idle"]
        /\ node = [t \in Threads |-> NULL]
        /\ link = [t \in Threads |-> NULL]

-----------------------------------------------------------------------------
(* lgx_lfstack_push *)

PushMalloc(t, x) == /\ pc[t] = "idle"
                    /\ x \notin allocated
                    /\ allocated' = allocated \union {x}
                    /\ node' = [node EXCEPT ![t] = x]
                    /\ Goto(t, "pushload")
                    /\ UNCHANGED <<top, next, count, stack, link>>

PushLoad(t) == /\ pc[t] = "pushload"
               /\ link' = [link EXCEPT ![t] = top]
               /\ next' = [next EXCEPT ![node[t]] = top]
               /\ Goto(t, "pushcas")
               /\ UNCHANGED <<top, count, allocated, stack, node>>

\* Mutant of PushCas: a store in place of the CAS.
PushStore(t) == /\ pc[t] = "pushcas"
                /\ top' = node[t]
                /\ stack' = <<node[t]>> \o stack
                /\ Goto(t, "pushcount")
                /\ UNCHANGED <<next, count, allocated, node, link>>

PushCas(t) == /\ pc[t] = "pushcas"
              /\ top = link[t]
              /\ top' = node[t]
              /\ stack' = <<node[t]>> \o stack
              /\ Goto(t, "pushcount")
              /\ UNCHANGED <<next, count, allocated, node, link>>

\* The CAS fails, perhaps for no reason.
PushCasFails(t) == /\ pc[t] = "pushcas"
                   /\ Goto(t, "pushload")
                   /\ UNCHANGED <<shared, node, link>>

PushCount(t) == /\ pc[t] = "pushcount"
                /\ count' = count + 1
                /\ Return(t)
                /\ UNCHANGED <<top, next, allocated, stack>>

-----------------------------------------------------------------------------
(* lgx_lfstack_pop *)

PopLoad(t) == /\ pc[t] \in {"idle", "popload"}
              /\ t \in Poppers
              /\ IF top = NULL THEN Return(t)
                 ELSE /\ node' = [node EXCEPT ![t] = top]
                      /\ Goto(t, "popnext")
                      /\ UNCHANGED link
              /\ UNCHANGED shared

\* old_top->next, of a node that may have been freed meanwhile.
PopNext(t) == /\ pc[t] = "popnext"
              /\ \E x \in Nodes \union {NULL} :
                    /\ node[t] \in allocated => x = next[node[t]]
                    /\ link' = [link EXCEPT ![t] = x]
              /\ Goto(t, "popcas")
              /\ UNCHANGED <<shared, node>>

PopCas(t) == /\ pc[t] = "popcas"
             /\ top = node[t]
             /\ top' = link[t]
             /\ stack' = Tail(stack)
             /\ Goto(t, "popcount")
             /\ UNCHANGED <<next, count, allocated, node, link>>

PopCasFails(t) == /\ pc[t] = "popcas"
                  /\ Goto(t, "popload")
                  /\ UNCHANGED <<shared, node, link>>

\* Copy the element out of the node and count it off ...
PopCount(t) == /\ pc[t] = "popcount"
               /\ count' = count - 1
               /\ Goto(t, "popfree")
               /\ UNCHANGED <<top, next, allocated, stack, node, link>>

\* ... and free it.
PopFree(t) == /\ pc[t] = "popfree"
              /\ allocated' = allocated \ {node[t]}
              /\ Return(t)
              /\ UNCHANGED <<top, next, count, stack>>

Next == \E t \in Threads :
          \/ \E x \in Nodes : PushMalloc(t, x)
          \/ PushLoad(t) \/ PushCas(t) \/ PushCasFails(t) \/ PushCount(t)
          \/ PopLoad(t) \/ PopNext(t) \/ PopCas(t) \/ PopCasFails(t)
          \/ PopCount(t) \/ PopFree(t)

Spec == Init /\ [][Next]_vars

-----------------------------------------------------------------------------

NextInStack(i) == IF i < Len(stack) THEN stack[i + 1] ELSE NULL

\* The list from top is the stack that the pushes and pops built, out of live
\* nodes only: no element is lost, given twice or read after its free.  With
\* one popping thread this holds although nothing stops an address from coming
\* back; with two it is what the ABA prevention of include/lgx_threading.h:281
\* ("Treiber stack with tagged pointers for ABA prevention") is to ensure.
ListIsStack ==
    /\ top = NextInStack(0)
    /\ \A i \in 1..Len(stack) : /\ stack[i] \in allocated
                                /\ next[stack[i]] = NextInStack(i)

At(labels) == Cardinality({t \in Threads : pc[t] \in labels})

\* The counter differs from the number of elements by the calls between their
\* CAS and their fetch_add or fetch_sub, and by nothing else: it can pass
\* below 0 (and read as SIZE_MAX) only while a push is at that point.
CountAccountsForCalls ==
    count = Len(stack) - At({"pushcount"}) + At({"popcount"})

=============================================================================
