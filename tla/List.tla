-------------------------------- MODULE List --------------------------------
(***************************************************************************)
(* include/mthpc/list.h: circular doubly linked lists.  A list memory l    *)
(* holds the next and prev pointers of its nodes, list heads included;     *)
(* every operator returns the memory after the assignments of its C        *)
(* function, made in the order of the code.                                *)
(***************************************************************************)
EXTENDS Naturals, FiniteSets, Sequences

Put(l, field, n, m) == [l EXCEPT ![field][n] = m]

\* All nodes initialised: what mthpc_list_init() makes of each of them.
AllInit(Nodes) == [next |-> [n \in Nodes |-> n], prev |-> [n \in Nodes |-> n]]

mthpc_list_init(l, n) == Put(Put(l, "next", n, n), "prev", n, n)

mthpc_list_empty(l, head) == l.next[head] = head

mthpc_list_add_between(l, new, prev, next) ==
    Put(Put(Put(Put(l, "prev", next, new), "next", new, next), "prev", new, prev),
        "next", prev, new)

mthpc_list_add(l, new, head) == mthpc_list_add_between(l, new, head, l.next[head])
mthpc_list_add_tail(l, new, head) == mthpc_list_add_between(l, new, l.prev[head], head)

mthpc_list_del(l, n) ==
    mthpc_list_init(Put(Put(l, "prev", l.next[n], l.prev[n]), "next", l.prev[n], l.next[n]), n)

mthpc_list_replace(l, old, new) ==
    LET a == Put(l, "next", new, l.next[old])
        b == Put(a, "prev", a.next[new], new)
        c == Put(b, "prev", new, b.prev[old])
    IN  Put(c, "next", c.prev[new], new)

mthpc_list_replace_init(l, old, new) == mthpc_list_init(mthpc_list_replace(l, old, new), old)

mthpc_list_splice_between(l, list, prev, next) ==
    LET first == l.next[list]
        last == l.prev[list]
    IN  Put(Put(Put(Put(l, "prev", first, prev), "next", prev, first), "next", last, next),
            "prev", next, last)

mthpc_list_splice(l, list, head) ==
    IF mthpc_list_empty(l, list) THEN l
    ELSE mthpc_list_splice_between(l, list, head, l.next[head])

mthpc_list_splice_tail(l, list, head) ==
    IF mthpc_list_empty(l, list) THEN l
    ELSE mthpc_list_splice_between(l, list, l.prev[head], head)

\* Where 0, 1, 2, ... steps from head lead.
Steps(l, head) ==
    LET at[k \in 0..Cardinality(DOMAIN l.next)] == IF k = 0 THEN head ELSE l.next[at[k - 1]]
    IN  at

\* The walk from head comes back to it, and prev undoes every step of it.
Circular(l, head) ==
    LET at == Steps(l, head)
    IN  \E k \in DOMAIN at :
            k > 0 /\ at[k] = head /\ \A j \in 1..k : l.prev[at[j]] = at[j - 1]

\* The nodes mthpc_list_for_each() visits, in its order, when the walk from
\* head comes back to it.
Walk(l, head) ==
    LET at == Steps(l, head)
        back == CHOOSE k \in DOMAIN at :
                    k > 0 /\ at[k] = head /\ \A j \in 1..(k - 1) : at[j] # head
    IN  [k \in 1..(back - 1) |-> at[k]]
=============================================================================
