------------------------------ MODULE ListHead ------------------------------
(***************************************************************************)
(* The circular doubly linked lists of list.c and list.h, on which every   *)
(* queue, child list and thread list of the kernel is built.               *)
(*                                                                         *)
(* A heap is a record of the next and prev fields of all list_head nodes   *)
(* and a flag, wild, that is set when an operation writes through a NULL   *)
(* pointer or a traversal does not come back to its head.  What C does     *)
(* after that is not modelled: users of this module stop there.            *)
(*                                                                         *)
(* A node is a pair <<field, task>>; NULL is a pair like any other.        *)
(***************************************************************************)
EXTENDS Integers, Sequences

NULL == <<"NULL", 0>>

(* __list_add: link new between two nodes, in the order of the stores. *)
list_add_between(h, new, prv, nxt) ==
  [next |-> [h.next EXCEPT ![new] = nxt, ![prv] = new],
   prev |-> [h.prev EXCEPT ![nxt] = new, ![new] = prv],
   wild |-> h.wild \/ prv = NULL \/ nxt = NULL]

list_add_tail(h, new, head) == list_add_between(h, new, h.prev[head], head)

list_del_OneWay(h, entry) ==
  [next |-> [h.next EXCEPT ![h.prev[entry]] = h.next[entry], ![entry] = NULL],
   prev |-> [h.prev EXCEPT ![entry] = NULL],
   wild |-> h.wild \/ h.prev[entry] = NULL \/ h.next[entry] = NULL]

(* list_del: __list_del on the neighbours, then the poisoned entry. *)
list_del(h, entry) ==
  LET prv == h.prev[entry]
      nxt == h.next[entry]
  IN [next |-> [h.next EXCEPT ![prv] = nxt, ![entry] = NULL],
      prev |-> [h.prev EXCEPT ![nxt] = prv, ![entry] = NULL],
      wild |-> h.wild \/ prv = NULL \/ nxt = NULL]

INIT_LIST_HEAD(h, list) ==
  [h EXCEPT !.next[list] = list, !.prev[list] = list]

list_empty(h, head) == h.next[head] = head

list_first(h, head) == h.next[head]

(* The nodes list_for_each visits from head, in order, if it is back at    *)
(* head after at most max of them; NotClosed otherwise.                    *)
NotClosed == <<NULL>>

ListForEach(h, head, max) ==
  LET at[i \in 1 .. max + 1] == IF i = 1 THEN h.next[head] ELSE h.next[at[i - 1]]
      home == {i \in 1 .. max + 1 : at[i] = head}
  IN IF home = {} THEN NotClosed
     ELSE [i \in 1 .. (CHOOSE m \in home : \A n \in home : m <= n) - 1 |-> at[i]]

-----------------------------------------------------------------------------
(* The nodes of L are linked among themselves, consistently in both        *)
(* directions: L is a union of whole lists.                                *)
WellLinked(h, L) ==
  \A n \in L : /\ h.next[n] \in L /\ h.prev[h.next[n]] = n
               /\ h.prev[n] \in L /\ h.next[h.prev[n]] = n
=============================================================================
