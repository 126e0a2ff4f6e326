--------------------------- MODULE TaskflowProofs ---------------------------
(***************************************************************************)
(* The invariants of Taskflow, for any number of tasks and moves: what     *)
(* holds as long as the calls are straight (astray = "no"), and that a     *)
(* straight call always finds what it needs and leaves a plan.             *)
(*                                                                         *)
(* The argument goes in four steps.  First, what the functions of list.h   *)
(* do to a list: Chain(l, h, s) says that from head h the pointers of l    *)
(* lead through the nodes s, in both directions, and the walk of the       *)
(* for_each macros visits s.  Second, the plan in the heap: the lists hold *)
(* main tasks M with sub tasks S, no task is in two of them, and the       *)
(* counts are the lengths (Planned).  Third, creating and moving tasks     *)
(* turns a plan into a plan of the same tasks and puts the moved ones      *)
(* where they were asked to be, while the order of the others stays        *)
(* (PrecedeMoves, SucceedMoves); no pointer to a local list head is left   *)
(* (NotDerailed).  Last, await() goes through the stages of the plan one   *)
(* by one (AtStage).  FlowInv says so; it holds as long as the calls are   *)
(* straight, and FlowInvNow is the inductive invariant.                    *)
(***************************************************************************)
EXTENDS Taskflow, SeqLemmas, FiniteSetTheorems

-----------------------------------------------------------------------------
(* The memory of the lists: what the assignments of list.h leave in it.    *)

Memory(Nodes) == [next : [Nodes -> Nodes], prev : [Nodes -> Nodes]]

\* The nodes N are linked in r as they are in l.
SameAt(l, r, N) == \A n \in N : r.next[n] = l.next[n] /\ r.prev[n] = l.prev[n]

(* An assignment to the next or the prev pointer of one node. *)
LEMMA PutNext ==
    ASSUME NEW Nodes, NEW l \in Memory(Nodes), NEW n \in Nodes, NEW m \in Nodes
    PROVE  /\ Put(l, "next", n, m) \in Memory(Nodes)
           /\ Put(l, "next", n, m).next = [l.next EXCEPT ![n] = m]
           /\ Put(l, "next", n, m).prev = l.prev
BY DEF Memory, Put

(* The same for the prev pointer.                                          *)
LEMMA PutPrev ==
    ASSUME NEW Nodes, NEW l \in Memory(Nodes), NEW n \in Nodes, NEW m \in Nodes
    PROVE  /\ Put(l, "prev", n, m) \in Memory(Nodes)
           /\ Put(l, "prev", n, m).prev = [l.prev EXCEPT ![n] = m]
           /\ Put(l, "prev", n, m).next = l.next
BY DEF Memory, Put

(* What a memory is.                                                       *)
LEMMA MemoryType ==
    ASSUME NEW Nodes, NEW l \in Memory(Nodes)
    PROVE  /\ l.next \in [Nodes -> Nodes] /\ l.prev \in [Nodes -> Nodes]
           /\ \A n \in Nodes : l.next[n] \in Nodes /\ l.prev[n] \in Nodes
BY DEF Memory

(* mthpc_list_init() writes to its node only. *)
LEMMA InitPointers ==
    ASSUME NEW Nodes, NEW l \in Memory(Nodes), NEW n \in Nodes
    PROVE  LET r == mthpc_list_init(l, n) IN
           /\ r \in Memory(Nodes)
           /\ \A m \in Nodes : r.next[m] = (IF m = n THEN n ELSE l.next[m])
           /\ \A m \in Nodes : r.prev[m] = (IF m = n THEN n ELSE l.prev[m])
<1> DEFINE a == Put(l, "next", n, n)
           b == Put(a, "prev", n, n)
<1>1. a \in Memory(Nodes) /\ a.next = [l.next EXCEPT ![n] = n] /\ a.prev = l.prev
  BY PutNext
<1> HIDE DEF a
<1>2. b \in Memory(Nodes) /\ b.prev = [a.prev EXCEPT ![n] = n] /\ b.next = a.next
  BY <1>1, PutPrev
<1>3. mthpc_list_init(l, n) = b
  BY DEF mthpc_list_init, a
<1> HIDE DEF b
<1>4. l.next \in [Nodes -> Nodes] /\ l.prev \in [Nodes -> Nodes]
  BY MemoryType
<1> QED BY <1>1, <1>2, <1>3, <1>4

(* __mthpc_list_add(): the new node between two that may be the same. *)
LEMMA AddPointers ==
    ASSUME NEW Nodes, NEW l \in Memory(Nodes), NEW new \in Nodes, NEW p \in Nodes, NEW x \in Nodes,
           new # p, new # x
    PROVE  LET r == mthpc_list_add_between(l, new, p, x) IN
           /\ r \in Memory(Nodes)
           /\ \A m \in Nodes : r.next[m] = (IF m = p THEN new ELSE IF m = new THEN x ELSE l.next[m])
           /\ \A m \in Nodes : r.prev[m] = (IF m = x THEN new ELSE IF m = new THEN p ELSE l.prev[m])
<1> DEFINE a == Put(l, "prev", x, new)
           b == Put(a, "next", new, x)
           c == Put(b, "prev", new, p)
           d == Put(c, "next", p, new)
<1>0. mthpc_list_add_between(l, new, p, x) = d
  BY DEF mthpc_list_add_between
<1>1. a \in Memory(Nodes) /\ a.prev = [l.prev EXCEPT ![x] = new] /\ a.next = l.next
  BY PutPrev
<1> HIDE DEF a
<1>2. b \in Memory(Nodes) /\ b.next = [a.next EXCEPT ![new] = x] /\ b.prev = a.prev
  BY <1>1, PutNext
<1> HIDE DEF b
<1>3. c \in Memory(Nodes) /\ c.prev = [b.prev EXCEPT ![new] = p] /\ c.next = b.next
  BY <1>2, PutPrev
<1> HIDE DEF c
<1>4. d \in Memory(Nodes) /\ d.next = [c.next EXCEPT ![p] = new] /\ d.prev = c.prev
  BY <1>3, PutNext
<1> HIDE DEF d
<1>5. l.next \in [Nodes -> Nodes] /\ l.prev \in [Nodes -> Nodes]
  BY MemoryType
<1>6. \A m \in Nodes : d.next[m] = (IF m = p THEN new ELSE IF m = new THEN x ELSE l.next[m])
  BY <1>1, <1>2, <1>3, <1>4, <1>5
<1>7. \A m \in Nodes : d.prev[m] = (IF m = x THEN new ELSE IF m = new THEN p ELSE l.prev[m])
  BY <1>1, <1>2, <1>3, <1>4, <1>5
<1> QED BY <1>0, <1>4, <1>6, <1>7

\* r is l with n linked to itself and its neighbours to each other.
DelEffect(Nodes, l, n, r) ==
    /\ r \in Memory(Nodes)
    /\ \A m \in Nodes : r.next[m] = (IF m = n THEN n ELSE IF m = l.prev[n] THEN l.next[n] ELSE l.next[m])
    /\ \A m \in Nodes : r.prev[m] = (IF m = n THEN n ELSE IF m = l.next[n] THEN l.prev[n] ELSE l.prev[m])

(* mthpc_list_del() writes to the node and its neighbours.                 *)
LEMMA DelPointers ==
    ASSUME NEW Nodes, NEW l \in Memory(Nodes), NEW n \in Nodes
    PROVE  DelEffect(Nodes, l, n, mthpc_list_del(l, n))
<1> DEFINE p == l.prev[n]
           x == l.next[n]
           a == Put(l, "prev", x, p)
           b == Put(a, "next", p, x)
           r == mthpc_list_init(b, n)
<1>0. mthpc_list_del(l, n) = r
  BY DEF mthpc_list_del
<1>1. /\ l.next \in [Nodes -> Nodes] /\ l.prev \in [Nodes -> Nodes]
      /\ p \in Nodes /\ x \in Nodes
  BY MemoryType
<1> HIDE DEF p, x
<1>2. a \in Memory(Nodes) /\ a.prev = [l.prev EXCEPT ![x] = p] /\ a.next = l.next
  BY <1>1, PutPrev
<1> HIDE DEF a
<1>3. b \in Memory(Nodes) /\ b.next = [a.next EXCEPT ![p] = x] /\ b.prev = a.prev
  BY <1>1, <1>2, PutNext
<1> HIDE DEF b
<1>4. /\ r \in Memory(Nodes)
      /\ \A m \in Nodes : r.next[m] = (IF m = n THEN n ELSE b.next[m])
      /\ \A m \in Nodes : r.prev[m] = (IF m = n THEN n ELSE b.prev[m])
  <2>1. b \in Memory(Nodes)
    BY <1>3
  <2> QED BY <2>1, InitPointers
<1> HIDE DEF r
<1>5. \A m \in Nodes : r.next[m] = (IF m = n THEN n ELSE IF m = p THEN x ELSE l.next[m])
  BY <1>1, <1>2, <1>3, <1>4
<1>6. \A m \in Nodes : r.prev[m] = (IF m = n THEN n ELSE IF m = x THEN p ELSE l.prev[m])
  BY <1>1, <1>2, <1>3, <1>4
<1>7. DelEffect(Nodes, l, n, r)
  BY <1>4, <1>5, <1>6 DEF DelEffect, p, x
<1> QED BY <1>0, <1>7

(* mthpc_list_replace_init(): the new node takes the place of the old one, *)
(* which is in a list with at least one other node.                        *)
LEMMA ReplacePointers ==
    ASSUME NEW Nodes, NEW l \in Memory(Nodes), NEW old \in Nodes, NEW new \in Nodes,
           new # old, l.next[old] # old, l.prev[old] # old, l.next[old] # new, l.prev[old] # new
    PROVE  LET r == mthpc_list_replace_init(l, old, new) IN
           /\ r \in Memory(Nodes)
           /\ \A m \in Nodes : r.next[m] = (IF m = old THEN old ELSE IF m = l.prev[old] THEN new
                                            ELSE IF m = new THEN l.next[old] ELSE l.next[m])
           /\ \A m \in Nodes : r.prev[m] = (IF m = old THEN old ELSE IF m = l.next[old] THEN new
                                            ELSE IF m = new THEN l.prev[old] ELSE l.prev[m])
<1> DEFINE p == l.prev[old]
           x == l.next[old]
           a == Put(l, "next", new, x)
           b == Put(a, "prev", a.next[new], new)
           c == Put(b, "prev", new, b.prev[old])
           d == Put(c, "next", c.prev[new], new)
           r == mthpc_list_init(d, old)
<1>0. mthpc_list_replace_init(l, old, new) = r
  BY DEF mthpc_list_replace_init, mthpc_list_replace
<1>1. /\ l.next \in [Nodes -> Nodes] /\ l.prev \in [Nodes -> Nodes]
      /\ p \in Nodes /\ x \in Nodes /\ p # old /\ x # old /\ p # new /\ x # new /\ l.prev[old] = p
  BY MemoryType
<1> HIDE DEF p, x
<1>2. a \in Memory(Nodes) /\ a.next = [l.next EXCEPT ![new] = x] /\ a.prev = l.prev
  BY <1>1, PutNext
<1>2a. a.next[new] = x
  BY <1>1, <1>2
<1> HIDE DEF a
<1>2b. b = Put(a, "prev", x, new)
  BY <1>2a
<1>3. b \in Memory(Nodes) /\ b.prev = [a.prev EXCEPT ![x] = new] /\ b.next = a.next
  <2>1. a \in Memory(Nodes)
    BY <1>2
  <2> HIDE DEF b
  <2> QED BY <1>1, <1>2b, <2>1, PutPrev
<1>3a. b.prev[old] = p
  BY <1>1, <1>2, <1>3
<1> HIDE DEF b
<1>3b. c = Put(b, "prev", new, p)
  BY <1>3a
<1>4. c \in Memory(Nodes) /\ c.prev = [b.prev EXCEPT ![new] = p] /\ c.next = b.next
  <2>1. b \in Memory(Nodes)
    BY <1>3
  <2> HIDE DEF c
  <2> QED BY <1>1, <1>3b, <2>1, PutPrev
<1>4a. c.prev[new] = p
  BY <1>1, <1>2, <1>3, <1>4
<1> HIDE DEF c
<1>5. d \in Memory(Nodes) /\ d.next = [c.next EXCEPT ![p] = new] /\ d.prev = c.prev
  BY <1>1, <1>4, <1>4a, PutNext
<1> HIDE DEF d
<1>6. /\ r \in Memory(Nodes)
      /\ \A m \in Nodes : r.next[m] = (IF m = old THEN old ELSE d.next[m])
      /\ \A m \in Nodes : r.prev[m] = (IF m = old THEN old ELSE d.prev[m])
  <2>1. d \in Memory(Nodes)
    BY <1>5
  <2> QED BY <2>1, InitPointers
<1> HIDE DEF r
<1>7. \A m \in Nodes : r.next[m] = (IF m = old THEN old ELSE IF m = p THEN new
                                    ELSE IF m = new THEN x ELSE l.next[m])
  BY <1>1, <1>2, <1>3, <1>4, <1>5, <1>6
<1>8. \A m \in Nodes : r.prev[m] = (IF m = old THEN old ELSE IF m = x THEN new
                                    ELSE IF m = new THEN p ELSE l.prev[m])
  BY <1>1, <1>2, <1>3, <1>4, <1>5, <1>6
<1> QED BY <1>0, <1>6, <1>7, <1>8 DEF p, x

\* What __mthpc_list_splice() makes of l when it puts list between p and x.
SpliceEffect(Nodes, l, r, list, p, x) ==
    \A m \in Nodes :
       /\ r.next[m] = (IF m = l.prev[list] THEN x ELSE IF m = p THEN l.next[list] ELSE l.next[m])
       /\ r.prev[m] = (IF m = x THEN l.prev[list] ELSE IF m = l.next[list] THEN p ELSE l.prev[m])

(* __mthpc_list_splice(): a list that is not empty between two nodes of    *)
(* another.                                                                *)
LEMMA SplicePointers ==
    ASSUME NEW Nodes, NEW l \in Memory(Nodes), NEW list \in Nodes, NEW p \in Nodes, NEW x \in Nodes
    PROVE  LET r == mthpc_list_splice_between(l, list, p, x) IN
           r \in Memory(Nodes) /\ SpliceEffect(Nodes, l, r, list, p, x)
<1> DEFINE first == l.next[list]
           last == l.prev[list]
           a == Put(l, "prev", first, p)
           b == Put(a, "next", p, first)
           c == Put(b, "next", last, x)
           d == Put(c, "prev", x, last)
<1>0. mthpc_list_splice_between(l, list, p, x) = d
  BY DEF mthpc_list_splice_between
<1>1. /\ l.next \in [Nodes -> Nodes] /\ l.prev \in [Nodes -> Nodes]
      /\ first \in Nodes /\ last \in Nodes
  BY MemoryType
<1> HIDE DEF first, last
<1>2. a \in Memory(Nodes) /\ a.prev = [l.prev EXCEPT ![first] = p] /\ a.next = l.next
  BY <1>1, PutPrev
<1> HIDE DEF a
<1>3. b \in Memory(Nodes) /\ b.next = [a.next EXCEPT ![p] = first] /\ b.prev = a.prev
  BY <1>1, <1>2, PutNext
<1> HIDE DEF b
<1>4. c \in Memory(Nodes) /\ c.next = [b.next EXCEPT ![last] = x] /\ c.prev = b.prev
  <2>1. b \in Memory(Nodes)
    BY <1>3
  <2> QED BY <1>1, <2>1, PutNext
<1> HIDE DEF c
<1>5. d \in Memory(Nodes) /\ d.prev = [c.prev EXCEPT ![x] = last] /\ d.next = c.next
  BY <1>1, <1>4, PutPrev
<1> HIDE DEF d
<1>6. \A m \in Nodes : d.next[m] = (IF m = last THEN x ELSE IF m = p THEN first ELSE l.next[m])
  BY <1>1, <1>2, <1>3, <1>4, <1>5
<1>7. \A m \in Nodes : d.prev[m] = (IF m = x THEN last ELSE IF m = first THEN p ELSE l.prev[m])
  BY <1>1, <1>2, <1>3, <1>4, <1>5
<1> QED BY <1>0, <1>5, <1>6, <1>7 DEF first, last, SpliceEffect
-----------------------------------------------------------------------------
(* The lists in it: Chain(l, head, s) says that the list of head consists  *)
(* of the nodes s, in this order, linked in both directions.               *)

Ring(head, s) == {head} \union ToSet(s)

\* The node k steps after head, all around the list and back to head.
At(head, s, k) == IF k \in 1..Len(s) THEN s[k] ELSE head

Chain(l, head, s) ==
    /\ IsInjective(s) /\ head \notin ToSet(s)
    /\ \A k \in 0..Len(s) : /\ l.next[At(head, s, k)] = At(head, s, k + 1)
                            /\ l.prev[At(head, s, k + 1)] = At(head, s, k)

(* A list passes each of its nodes once before it is back at its head. *)
LEMMA Places ==
    ASSUME NEW Nodes, NEW head \in Nodes, NEW s \in Seq(Nodes), IsInjective(s), head \notin ToSet(s)
    PROVE  /\ Len(s) \in Nat
           /\ At(head, s, 0) = head /\ At(head, s, Len(s) + 1) = head
           /\ \A k \in 1..Len(s) : At(head, s, k) = s[k]
           /\ \A k \in 0..(Len(s) + 1) : At(head, s, k) \in Nodes /\ At(head, s, k) \in Ring(head, s)
           /\ \A j, k \in 0..Len(s) : At(head, s, j) = At(head, s, k) => j = k
           /\ \A j, k \in 1..(Len(s) + 1) : At(head, s, j) = At(head, s, k) => j = k
           /\ \A n \in Ring(head, s) : \E k \in 0..Len(s) : n = At(head, s, k)
           /\ Ring(head, s) \subseteq Nodes
<1>1. Len(s) \in Nat /\ \A k \in 1..Len(s) : s[k] \in Nodes
  BY LenProperties
<1>2. /\ ToSet(s) \subseteq Nodes
      /\ \A x : x \in ToSet(s) <=> \E i \in 1..Len(s) : s[i] = x
  BY InList
<1>3. \A i, j \in 1..Len(s) : s[i] = s[j] => i = j
  BY Injective
<1>4. /\ At(head, s, 0) = head /\ At(head, s, Len(s) + 1) = head
      /\ \A k \in 1..Len(s) : At(head, s, k) = s[k]
  BY <1>1 DEF At
<1>5. /\ \A k \in 0..Len(s) : k = 0 \/ k \in 1..Len(s)
      /\ \A k \in 1..(Len(s) + 1) : k = Len(s) + 1 \/ k \in 1..Len(s)
      /\ \A k \in 0..(Len(s) + 1) : k = 0 \/ k = Len(s) + 1 \/ k \in 1..Len(s)
      /\ \A k \in 1..Len(s) : k \in 0..Len(s)
      /\ 0 \in 0..Len(s)
  BY <1>1
<1>6. \A k \in 1..Len(s) : s[k] # head
  BY <1>2
<1>7. \A k \in 0..(Len(s) + 1) : At(head, s, k) \in Nodes /\ At(head, s, k) \in Ring(head, s)
  BY <1>1, <1>2, <1>4, <1>5 DEF Ring
<1>8. \A j, k \in 0..Len(s) : At(head, s, j) = At(head, s, k) => j = k
  BY <1>3, <1>4, <1>5, <1>6
<1>9. \A j, k \in 1..(Len(s) + 1) : At(head, s, j) = At(head, s, k) => j = k
  BY <1>3, <1>4, <1>5, <1>6
<1>10. \A n \in Ring(head, s) : \E k \in 0..Len(s) : n = At(head, s, k)
  BY <1>2, <1>4, <1>5 DEF Ring
<1> QED BY <1>1, <1>2, <1>4, <1>7, <1>8, <1>9, <1>10 DEF Ring

(* A list whose nodes are linked as before is the list it was. *)
LEMMA Untouched ==
    ASSUME NEW Nodes, NEW head \in Nodes, NEW s \in Seq(Nodes), NEW l, NEW r,
           Chain(l, head, s), SameAt(l, r, Ring(head, s))
    PROVE  Chain(r, head, s)
<1>1. IsInjective(s) /\ head \notin ToSet(s)
  BY DEF Chain
<1>2. Len(s) \in Nat /\ \A k \in 0..(Len(s) + 1) : At(head, s, k) \in Ring(head, s)
  BY <1>1, Places
<1>3. ASSUME NEW k \in 0..Len(s)
      PROVE  /\ r.next[At(head, s, k)] = At(head, s, k + 1)
             /\ r.prev[At(head, s, k + 1)] = At(head, s, k)
  <2>1. k \in 0..(Len(s) + 1) /\ k + 1 \in 0..(Len(s) + 1)
    BY <1>2
  <2>2. l.next[At(head, s, k)] = At(head, s, k + 1) /\ l.prev[At(head, s, k + 1)] = At(head, s, k)
    BY DEF Chain
  <2>3. At(head, s, k) \in Ring(head, s) /\ At(head, s, k + 1) \in Ring(head, s)
    BY <1>2, <2>1
  <2> QED BY <2>2, <2>3 DEF SameAt
<1> QED BY <1>1, <1>3 DEF Chain

(* A node that is linked to itself is an empty list. *)
LEMMA EmptyChain ==
    ASSUME NEW l, NEW n
    PROVE  Chain(l, n, <<>>) <=> l.next[n] = n /\ l.prev[n] = n
<1>1. Len(<<>>) = 0 /\ 0..0 = {0} /\ 1..0 = {}
  OBVIOUS
<1>2. \A k : At(n, <<>>, k) = n
  BY <1>1 DEF At
<1>3. IsInjective(<<>>) /\ n \notin ToSet(<<>>)
  BY ShortLists
<1> QED BY <1>1, <1>2, <1>3 DEF Chain

(* The first and the last node of a list. *)
LEMMA Ends ==
    ASSUME NEW Nodes, NEW l \in Memory(Nodes), NEW head \in Nodes, NEW s \in Seq(Nodes),
           Chain(l, head, s)
    PROVE  /\ l.next[head] = At(head, s, 1) /\ l.prev[head] = At(head, s, Len(s))
           /\ \A k \in 1..Len(s) : /\ l.next[s[k]] = At(head, s, k + 1)
                                   /\ l.prev[s[k]] = At(head, s, k - 1)
           /\ l.next[head] = head <=> s = <<>>
<1>1. IsInjective(s) /\ head \notin ToSet(s)
  BY DEF Chain
<1>2. /\ Len(s) \in Nat /\ At(head, s, 0) = head /\ At(head, s, Len(s) + 1) = head
      /\ \A k \in 1..Len(s) : At(head, s, k) = s[k]
      /\ \A j, k \in 0..Len(s) : At(head, s, j) = At(head, s, k) => j = k
  BY <1>1, Places
<1>3. \A k \in 0..Len(s) : /\ l.next[At(head, s, k)] = At(head, s, k + 1)
                           /\ l.prev[At(head, s, k + 1)] = At(head, s, k)
  BY DEF Chain
<1>4. 0 \in 0..Len(s) /\ Len(s) \in 0..Len(s) /\ 0 + 1 = 1
  BY <1>2
<1>5. l.next[head] = At(head, s, 1) /\ l.prev[head] = At(head, s, Len(s))
  BY <1>2, <1>3, <1>4
<1>6. ASSUME NEW k \in 1..Len(s)
      PROVE  l.next[s[k]] = At(head, s, k + 1) /\ l.prev[s[k]] = At(head, s, k - 1)
  <2>1. k \in 0..Len(s) /\ k - 1 \in 0..Len(s) /\ (k - 1) + 1 = k
    BY <1>2
  <2> QED BY <1>2, <1>3, <2>1
<1>7. l.next[head] = head <=> s = <<>>
  <2>1. s = <<>> <=> Len(s) = 0
    BY EmptySeq
  <2>2. CASE Len(s) = 0
    BY <1>2, <1>5, <2>1, <2>2
  <2>3. CASE Len(s) # 0
    <3>1. 1 \in 0..Len(s) /\ 1 # 0
      BY <1>2, <2>3
    <3> QED BY <1>2, <1>4, <1>5, <2>1, <2>3, <3>1
  <2> QED BY <2>2, <2>3
<1> QED BY <1>5, <1>6, <1>7
-----------------------------------------------------------------------------
(* What the functions of list.h make of the lists.                         *)

(* __mthpc_list_add() after the node at place q. *)
LEMMA Inserted ==
    ASSUME NEW Nodes, NEW l \in Memory(Nodes), NEW head \in Nodes, NEW s \in Seq(Nodes),
           Chain(l, head, s), NEW new \in Nodes, new \notin Ring(head, s), NEW q \in 0..Len(s),
           NEW t \in Seq(Nodes), IsInjective(t), head \notin ToSet(t), Len(t) = Len(s) + 1,
           \A k \in 0..q : At(head, t, k) = At(head, s, k),
           At(head, t, q + 1) = new,
           \A k \in (q + 1)..(Len(s) + 1) : At(head, t, k + 1) = At(head, s, k)
    PROVE  LET r == mthpc_list_add_between(l, new, At(head, s, q), At(head, s, q + 1)) IN
           /\ r \in Memory(Nodes) /\ Chain(r, head, t)
           /\ SameAt(l, r, Nodes \ (Ring(head, s) \union {new}))
<1> DEFINE a(k) == At(head, s, k)
           b(k) == At(head, t, k)
           r == mthpc_list_add_between(l, new, a(q), a(q + 1))
<1>1. IsInjective(s) /\ head \notin ToSet(s)
  BY DEF Chain
<1>2. /\ Len(s) \in Nat
      /\ \A k \in 0..(Len(s) + 1) : a(k) \in Nodes /\ a(k) \in Ring(head, s)
      /\ \A j, k \in 0..Len(s) : a(j) = a(k) => j = k
      /\ \A j, k \in 1..(Len(s) + 1) : a(j) = a(k) => j = k
  BY <1>1, Places
<1>3. q \in 0..(Len(s) + 1) /\ q + 1 \in 0..(Len(s) + 1) /\ q + 1 \in 1..(Len(s) + 1) /\ q \in Nat
  BY <1>2
<1>4. /\ a(q) \in Nodes /\ a(q + 1) \in Nodes
      /\ a(q) \in Ring(head, s) /\ a(q + 1) \in Ring(head, s)
      /\ new # a(q) /\ new # a(q + 1)
  BY <1>2, <1>3
<1>5. \A k \in 0..Len(s) : l.next[a(k)] = a(k + 1) /\ l.prev[a(k + 1)] = a(k)
  BY DEF Chain
<1>6. /\ \A k \in 0..q : b(k) = a(k)
      /\ b(q + 1) = new
      /\ \A k \in (q + 1)..(Len(s) + 1) : b(k + 1) = a(k)
  OBVIOUS
<1> HIDE DEF a, b
<1>7. /\ r \in Memory(Nodes)
      /\ \A m \in Nodes : r.next[m] = (IF m = a(q) THEN new ELSE IF m = new THEN a(q + 1) ELSE l.next[m])
      /\ \A m \in Nodes : r.prev[m] = (IF m = a(q + 1) THEN new ELSE IF m = new THEN a(q) ELSE l.prev[m])
  BY <1>4, AddPointers
<1> HIDE DEF r
<1>8. ASSUME NEW k \in 0..Len(t) PROVE r.next[b(k)] = b(k + 1) /\ r.prev[b(k + 1)] = b(k)
  <2>0. k \in Nat /\ k <= Len(s) + 1
    BY <1>2
  <2>1. CASE k < q
    <3>1. k \in 0..q /\ k + 1 \in 0..q /\ k \in 0..Len(s) /\ k # q /\ q \in 0..Len(s)
          /\ k \in 0..(Len(s) + 1) /\ k + 1 \in 1..(Len(s) + 1) /\ k + 1 # q + 1 /\ k + 1 \in 0..(Len(s) + 1)
      BY <1>2, <1>3, <2>0, <2>1
    <3>2. b(k) = a(k) /\ b(k + 1) = a(k + 1)
      BY <1>6, <3>1
    <3>3. a(k) # a(q) /\ a(k + 1) # a(q + 1)
      BY <1>2, <1>3, <3>1
    <3>4. a(k) # new /\ a(k + 1) # new /\ a(k) \in Nodes /\ a(k + 1) \in Nodes
      BY <1>2, <3>1
    <3> QED BY <1>5, <1>7, <3>1, <3>2, <3>3, <3>4
  <2>2. CASE k = q
    <3>1. b(k) = a(q) /\ b(k + 1) = new
      BY <1>3, <1>6, <2>2
    <3> QED BY <1>4, <1>7, <3>1
  <2>3. CASE k = q + 1
    <3>1. b(k) = new /\ b(k + 1) = a(q + 1)
      <4>1. q + 1 \in (q + 1)..(Len(s) + 1)
        BY <1>2, <1>3
      <4> QED BY <1>6, <2>3, <4>1
    <3> QED BY <1>4, <1>7, <3>1
  <2>4. CASE k > q + 1
    <3>1. /\ k - 1 \in (q + 1)..(Len(s) + 1) /\ k \in (q + 1)..(Len(s) + 1) /\ (k - 1) + 1 = k
          /\ k - 1 \in 0..Len(s) /\ q \in 0..Len(s) /\ k - 1 # q
          /\ k \in 1..(Len(s) + 1) /\ k # q + 1 /\ k - 1 \in 0..(Len(s) + 1) /\ k \in 0..(Len(s) + 1)
      BY <1>2, <1>3, <2>0, <2>4
    <3>2. b(k) = a(k - 1) /\ b(k + 1) = a(k)
      BY <1>6, <3>1
    <3>3. a(k - 1) # a(q) /\ a(k) # a(q + 1)
      BY <1>2, <1>3, <3>1
    <3>4. a(k - 1) # new /\ a(k) # new /\ a(k - 1) \in Nodes /\ a(k) \in Nodes
      BY <1>2, <3>1
    <3>5. l.next[a(k - 1)] = a(k) /\ l.prev[a(k)] = a(k - 1)
      BY <1>5, <3>1
    <3> QED BY <1>7, <3>2, <3>3, <3>4, <3>5
  <2> QED BY <1>3, <2>0, <2>1, <2>2, <2>3, <2>4
<1>9. Chain(r, head, t)
  BY <1>8 DEF Chain, b
<1>10. SameAt(l, r, Nodes \ (Ring(head, s) \union {new}))
  BY <1>4, <1>7 DEF SameAt
<1> QED BY <1>7, <1>9, <1>10 DEF r, a

(* mthpc_list_add(). *)
LEMMA ListAdd ==
    ASSUME NEW Nodes, NEW l \in Memory(Nodes), NEW head \in Nodes, NEW s \in Seq(Nodes),
           Chain(l, head, s), NEW new \in Nodes, new \notin Ring(head, s)
    PROVE  LET r == mthpc_list_add(l, new, head) IN
           /\ r \in Memory(Nodes) /\ Chain(r, head, <<new>> \o s)
           /\ SameAt(l, r, Nodes \ (Ring(head, s) \union {new}))
<1> DEFINE t == <<new>> \o s
           q == 0
<1>1. IsInjective(s) /\ head \notin ToSet(s) /\ new # head /\ new \notin ToSet(s)
  BY DEF Chain, Ring
<1>2. t \in Seq(Nodes) /\ ToSet(t) = ToSet(s) \union {new} /\ IsInjective(t)
  BY <1>1, AddedFirst
<1>3. Len(t) = Len(s) + 1 /\ \A i \in 1..(Len(s) + 1) : t[i] = IF i = 1 THEN new ELSE s[i - 1]
  <2>1. <<new>> \in Seq(Nodes) /\ Len(<<new>>) = 1 /\ <<new>>[1] = new /\ Len(s) \in Nat
    BY LenProperties
  <2>2. /\ Len(t) = Len(<<new>>) + Len(s)
        /\ \A i \in 1..(Len(<<new>>) + Len(s)) : t[i] = IF i <= Len(<<new>>) THEN <<new>>[i] ELSE s[i - Len(<<new>>)]
    BY <2>1, ConcatProperties
  <2> HIDE DEF t
  <2>3. \A i \in 1..(1 + Len(s)) : t[i] = IF i <= 1 THEN <<new>>[i] ELSE s[i - 1]
    BY <2>1, <2>2
  <2>4. ASSUME NEW i \in 1..(Len(s) + 1) PROVE t[i] = IF i = 1 THEN new ELSE s[i - 1]
    <3>1. i \in 1..(1 + Len(s)) /\ (i <= 1 <=> i = 1)
      BY <2>1
    <3> QED BY <2>1, <2>3, <3>1
  <2> QED BY <2>1, <2>2, <2>4
<1> HIDE DEF t
<1>4. Len(s) \in Nat /\ q \in 0..Len(s) /\ At(head, s, 0) = head /\ l.next[head] = At(head, s, 1)
  <2>1. Len(s) \in Nat /\ At(head, s, 0) = head
    BY <1>1, Places
  <2>2. l.next[head] = At(head, s, 1)
    BY Ends
  <2> QED BY <2>1, <2>2
<1>5. \A k \in 0..q : At(head, t, k) = At(head, s, k)
  BY <1>3, <1>4 DEF At
<1>6. At(head, t, q + 1) = new
  BY <1>3, <1>4 DEF At
<1>7. ASSUME NEW k \in (q + 1)..(Len(s) + 1) PROVE At(head, t, k + 1) = At(head, s, k)
  <2>1. CASE k = Len(s) + 1
    <3>1. k + 1 \notin 1..Len(t) /\ k \notin 1..Len(s)
      BY <1>3, <1>4, <2>1
    <3> QED BY <3>1 DEF At
  <2>2. CASE k # Len(s) + 1
    <3>1. k + 1 \in 1..Len(t) /\ k \in 1..Len(s) /\ k + 1 \in 1..(Len(s) + 1) /\ k + 1 # 1 /\ (k + 1) - 1 = k
      BY <1>3, <1>4, <2>2
    <3> QED BY <1>3, <3>1 DEF At
  <2> QED BY <2>1, <2>2
<1>8. head \notin ToSet(t)
  BY <1>1, <1>2
<1>9. mthpc_list_add(l, new, head) = mthpc_list_add_between(l, new, At(head, s, q), At(head, s, q + 1))
  BY <1>4 DEF mthpc_list_add
<1> DEFINE r == mthpc_list_add_between(l, new, At(head, s, q), At(head, s, q + 1))
<1> HIDE DEF q
<1>10. /\ r \in Memory(Nodes) /\ Chain(r, head, t)
       /\ SameAt(l, r, Nodes \ (Ring(head, s) \union {new}))
  BY <1>2, <1>3, <1>4, <1>5, <1>6, <1>7, <1>8, Inserted, Zenon
<1> HIDE DEF r
<1> QED BY <1>9, <1>10 DEF t, r

(* mthpc_list_add_tail(). *)
LEMMA ListAddTail ==
    ASSUME NEW Nodes, NEW l \in Memory(Nodes), NEW head \in Nodes, NEW s \in Seq(Nodes),
           Chain(l, head, s), NEW new \in Nodes, new \notin Ring(head, s)
    PROVE  LET r == mthpc_list_add_tail(l, new, head) IN
           /\ r \in Memory(Nodes) /\ Chain(r, head, Append(s, new))
           /\ SameAt(l, r, Nodes \ (Ring(head, s) \union {new}))
<1> DEFINE t == Append(s, new)
           q == Len(s)
<1>1. IsInjective(s) /\ head \notin ToSet(s) /\ new # head /\ new \notin ToSet(s)
  BY DEF Chain, Ring
<1>2. /\ t \in Seq(Nodes) /\ Len(t) = Len(s) + 1
      /\ ToSet(t) = ToSet(s) \union {new} /\ IsInjective(t)
  BY <1>1, AddedLast
<1>3. /\ \A i \in 1..Len(s) : t[i] = s[i]
      /\ t[Len(s) + 1] = new /\ Len(s) \in Nat
  BY AppendProperties, LenProperties
<1> HIDE DEF t
<1>4. q \in 0..Len(s) /\ At(head, s, Len(s) + 1) = head /\ l.prev[head] = At(head, s, Len(s))
  BY <1>1, <1>3, Places, Ends
<1>5. \A k \in 0..q : At(head, t, k) = At(head, s, k)
  <2> TAKE k \in 0..q
  <2>1. k \in 1..Len(t) <=> k \in 1..Len(s)
    BY <1>2, <1>3
  <2> QED BY <1>3, <2>1 DEF At
<1>6. At(head, t, q + 1) = new
  <2>1. Len(s) + 1 \in 1..Len(t)
    BY <1>2, <1>3
  <2> QED BY <1>3, <2>1 DEF At
<1>7. \A k \in (q + 1)..(Len(s) + 1) : At(head, t, k + 1) = At(head, s, k)
  <2> TAKE k \in (q + 1)..(Len(s) + 1)
  <2>1. k + 1 \notin 1..Len(t) /\ k \notin 1..Len(s)
    BY <1>2, <1>3
  <2> QED BY <2>1 DEF At
<1>8. head \notin ToSet(t)
  BY <1>1, <1>2
<1>9. mthpc_list_add_tail(l, new, head) = mthpc_list_add_between(l, new, At(head, s, q), At(head, s, q + 1))
  BY <1>4 DEF mthpc_list_add_tail
<1> HIDE DEF q
<1> DEFINE r == mthpc_list_add_between(l, new, At(head, s, q), At(head, s, q + 1))
<1>10. /\ r \in Memory(Nodes) /\ Chain(r, head, t)
       /\ SameAt(l, r, Nodes \ (Ring(head, s) \union {new}))
  BY <1>2, <1>3, <1>4, <1>5, <1>6, <1>7, <1>8, Inserted, Zenon
<1> HIDE DEF r
<1> QED BY <1>9, <1>10 DEF t, r

(* mthpc_list_del() of the node at place k, which becomes an empty list. *)
LEMMA ListDel ==
    ASSUME NEW Nodes, NEW l \in Memory(Nodes), NEW head \in Nodes, NEW s \in Seq(Nodes),
           Chain(l, head, s), NEW k \in 1..Len(s)
    PROVE  LET r == mthpc_list_del(l, s[k]) IN
           /\ r \in Memory(Nodes) /\ Chain(r, head, RemoveAt(s, k)) /\ Chain(r, s[k], <<>>)
           /\ SameAt(l, r, Nodes \ Ring(head, s))
<1> DEFINE a(j) == At(head, s, j)
           t == RemoveAt(s, k)
           b(j) == At(head, t, j)
           n == s[k]
           r == mthpc_list_del(l, n)
<1>1. IsInjective(s) /\ head \notin ToSet(s)
  BY DEF Chain
<1>2. /\ Len(s) \in Nat /\ a(Len(s) + 1) = head
      /\ \A j \in 0..(Len(s) + 1) : a(j) \in Nodes /\ a(j) \in Ring(head, s)
      /\ \A i, j \in 0..Len(s) : a(i) = a(j) => i = j
      /\ \A i, j \in 1..(Len(s) + 1) : a(i) = a(j) => i = j
      /\ a(k) = n
  BY <1>1, Places
<1>3. l.next[n] = a(k + 1) /\ l.prev[n] = a(k - 1)
  <2>1. \A j \in 1..Len(s) : /\ l.next[s[j]] = At(head, s, j + 1)
                             /\ l.prev[s[j]] = At(head, s, j - 1)
    BY Ends
  <2> QED BY <2>1
<1>4. /\ k \in 0..Len(s) /\ k - 1 \in 0..Len(s) /\ k + 1 \in 1..(Len(s) + 1) /\ k \in 1..(Len(s) + 1)
      /\ k \in 0..(Len(s) + 1) /\ k - 1 \in 0..(Len(s) + 1) /\ k + 1 \in 0..(Len(s) + 1)
      /\ k \in Nat /\ k >= 1
  BY <1>2
<1>5. \A j \in 0..Len(s) : l.next[a(j)] = a(j + 1) /\ l.prev[a(j + 1)] = a(j)
  BY DEF Chain
<1>6. /\ t \in Seq(Nodes) /\ Len(t) = Len(s) - 1
      /\ \A i \in 1..(Len(s) - 1) : t[i] = IF i < k THEN s[i] ELSE s[i + 1]
  BY Removed
<1>7. IsInjective(t) /\ ToSet(t) = ToSet(s) \ {n}
  BY <1>1, RemovedSet
<1> HIDE DEF t, n
<1>8. ASSUME NEW j \in 0..Len(s) PROVE b(j) = IF j < k THEN a(j) ELSE a(j + 1)
  <2>1. CASE j \in 1..(Len(s) - 1)
    <3>1. j \in 1..Len(t) /\ j \in 1..Len(s) /\ j + 1 \in 1..Len(s)
      BY <1>2, <1>6, <2>1
    <3> QED BY <1>6, <2>1, <3>1 DEF At
  <2>2. CASE j = 0
    <3>1. j \notin 1..Len(t) /\ j < k /\ j \notin 1..Len(s)
      BY <1>4, <2>2
    <3> QED BY <3>1 DEF At
  <2>3. CASE j = Len(s)
    <3>1. j \notin 1..Len(t) /\ ~(j < k) /\ j + 1 \notin 1..Len(s)
      BY <1>2, <1>4, <1>6, <2>3
    <3> QED BY <3>1 DEF At
  <2> QED BY <1>2, <2>1, <2>2, <2>3
<1> HIDE DEF a, b
<1>9. /\ n \in Nodes /\ n \in Ring(head, s) /\ a(k - 1) \in Ring(head, s) /\ a(k + 1) \in Ring(head, s)
      /\ a(k - 1) # n /\ a(k + 1) # n
  BY <1>2, <1>4
<1>10. /\ r \in Memory(Nodes)
       /\ \A m \in Nodes : r.next[m] = (IF m = n THEN n ELSE IF m = a(k - 1) THEN a(k + 1) ELSE l.next[m])
       /\ \A m \in Nodes : r.prev[m] = (IF m = n THEN n ELSE IF m = a(k + 1) THEN a(k - 1) ELSE l.prev[m])
  <2>1. /\ r \in Memory(Nodes)
        /\ \A m \in Nodes : r.next[m] = (IF m = n THEN n ELSE IF m = l.prev[n] THEN l.next[n]
                                         ELSE l.next[m])
        /\ \A m \in Nodes : r.prev[m] = (IF m = n THEN n ELSE IF m = l.next[n] THEN l.prev[n]
                                         ELSE l.prev[m])
    <3>1. n \in Nodes
      BY <1>9
    <3>2. DelEffect(Nodes, l, n, r)
      BY <3>1, DelPointers
    <3> QED BY <3>2 DEF DelEffect
  <2> QED BY <1>3, <2>1
<1> HIDE DEF r
<1>11. ASSUME NEW j \in 0..Len(t) PROVE r.next[b(j)] = b(j + 1) /\ r.prev[b(j + 1)] = b(j)
  <2>0. j \in Nat /\ j <= Len(s) - 1 /\ j \in 0..Len(s) /\ j + 1 \in 0..Len(s)
    BY <1>2, <1>6
  <2>1. CASE j < k - 1
    <3>1. j < k /\ j + 1 < k /\ j # k /\ j # k - 1 /\ j + 1 # k /\ j + 1 # k + 1
          /\ j + 1 \in 1..(Len(s) + 1) /\ j + 1 \in 0..(Len(s) + 1) /\ j \in 0..(Len(s) + 1)
      BY <1>4, <2>0, <2>1
    <3>2. b(j) = a(j) /\ b(j + 1) = a(j + 1)
      BY <1>8, <2>0, <3>1
    <3>3. a(j) # n /\ a(j) # a(k - 1) /\ a(j + 1) # n /\ a(j + 1) # a(k + 1)
      BY <1>2, <1>4, <2>0, <3>1
    <3> QED BY <1>2, <1>5, <1>10, <2>0, <3>1, <3>2, <3>3
  <2>2. CASE j = k - 1
    <3>1. j < k /\ ~(j + 1 < k) /\ j + 1 = k
      BY <1>4, <2>2
    <3>2. b(j) = a(k - 1) /\ b(j + 1) = a(k + 1)
      BY <1>8, <2>0, <2>2, <3>1
    <3>3. a(k - 1) \in Nodes /\ a(k + 1) \in Nodes
      BY <1>2, <1>4
    <3> QED BY <1>9, <1>10, <3>2, <3>3
  <2>3. CASE j > k - 1
    <3>1. ~(j < k) /\ ~(j + 1 < k) /\ j + 1 # k /\ j + 1 # k - 1 /\ (j + 1) + 1 # k /\ (j + 1) + 1 # k + 1
          /\ (j + 1) + 1 \in 1..(Len(s) + 1) /\ (j + 1) + 1 \in 0..(Len(s) + 1) /\ j + 1 \in 0..(Len(s) + 1)
      BY <1>4, <2>0, <2>3
    <3>2. b(j) = a(j + 1) /\ b(j + 1) = a((j + 1) + 1)
      BY <1>8, <2>0, <3>1
    <3>3. a(j + 1) # n /\ a(j + 1) # a(k - 1) /\ a((j + 1) + 1) # n /\ a((j + 1) + 1) # a(k + 1)
      BY <1>2, <1>4, <2>0, <3>1
    <3>4. l.next[a(j + 1)] = a((j + 1) + 1) /\ l.prev[a((j + 1) + 1)] = a(j + 1)
      BY <1>5, <2>0
    <3> QED BY <1>2, <1>10, <3>1, <3>2, <3>3, <3>4
  <2> QED BY <1>4, <2>0, <2>1, <2>2, <2>3
<1>12. Chain(r, head, t)
  BY <1>1, <1>7, <1>11 DEF Chain, b
<1>13. Chain(r, n, <<>>)
  BY <1>9, <1>10, EmptyChain
<1>14. SameAt(l, r, Nodes \ Ring(head, s))
  BY <1>9, <1>10 DEF SameAt
<1> QED BY <1>10, <1>12, <1>13, <1>14 DEF r, n, t

(* mthpc_list_del() of the head: the first node is the head of the others. *)
LEMMA ListDelHead ==
    ASSUME NEW Nodes, NEW l \in Memory(Nodes), NEW head \in Nodes, NEW s \in Seq(Nodes),
           Chain(l, head, s), s # <<>>
    PROVE  LET r == mthpc_list_del(l, head) IN
           /\ r \in Memory(Nodes) /\ Chain(r, Head(s), Tail(s)) /\ Chain(r, head, <<>>)
           /\ SameAt(l, r, Nodes \ Ring(head, s))
<1> DEFINE a(j) == At(head, s, j)
           h == Head(s)
           t == Tail(s)
           b(j) == At(h, t, j)
           r == mthpc_list_del(l, head)
<1>1. IsInjective(s) /\ head \notin ToSet(s)
  BY DEF Chain
<1>2. /\ Len(s) \in Nat /\ a(0) = head /\ a(Len(s) + 1) = head
      /\ \A j \in 0..(Len(s) + 1) : a(j) \in Nodes /\ a(j) \in Ring(head, s)
      /\ \A i, j \in 0..Len(s) : a(i) = a(j) => i = j
      /\ \A i, j \in 1..(Len(s) + 1) : a(i) = a(j) => i = j
      /\ \A j \in 1..Len(s) : a(j) = s[j]
  BY <1>1, Places
<1>3. l.next[head] = a(1) /\ l.prev[head] = a(Len(s))
  BY Ends
<1>4. Len(s) # 0 /\ Len(s) >= 1 /\ 1 \in 1..Len(s)
  BY <1>2, EmptySeq
<1>5. \A j \in 0..Len(s) : l.next[a(j)] = a(j + 1) /\ l.prev[a(j + 1)] = a(j)
  BY DEF Chain
<1>6. /\ t \in Seq(Nodes) /\ Len(t) = Len(s) - 1 /\ h = s[1]
      /\ \A i \in 1..Len(t) : t[i] = s[i + 1]
  BY HeadTailProperties
<1>7. IsInjective(t) /\ h \notin ToSet(t)
  BY <1>1, TakenFirst
<1> HIDE DEF t, h
<1>8. ASSUME NEW j \in 0..Len(s) PROVE b(j) = IF j = Len(s) THEN a(1) ELSE a(j + 1)
  <2>1. CASE j \in 1..(Len(s) - 1)
    <3>1. j \in 1..Len(t) /\ j # Len(s) /\ j + 1 \in 1..Len(s)
      BY <1>2, <1>6, <2>1
    <3> QED BY <1>6, <2>1, <3>1 DEF At
  <2>2. CASE j = 0
    <3>1. j \notin 1..Len(t) /\ j # Len(s) /\ 1 \in 1..Len(s) /\ j + 1 = 1
      BY <1>4, <2>2
    <3> QED BY <1>6, <3>1 DEF At
  <2>3. CASE j = Len(s)
    <3>1. j \notin 1..Len(t) /\ 1 \in 1..Len(s)
      BY <1>2, <1>4, <1>6, <2>3
    <3> QED BY <1>6, <2>3, <3>1 DEF At
  <2> QED BY <1>2, <2>1, <2>2, <2>3
<1> HIDE DEF a, b
<1>9. /\ head \in Ring(head, s) /\ a(1) \in Ring(head, s) /\ a(Len(s)) \in Ring(head, s)
      /\ a(1) \in Nodes /\ a(Len(s)) \in Nodes
      /\ a(1) # head /\ a(Len(s)) # head
  <2>1. 1 \in 0..(Len(s) + 1) /\ Len(s) \in 0..(Len(s) + 1) /\ 0 \in 0..(Len(s) + 1) /\ 0 \in 0..Len(s)
        /\ 1 \in 0..Len(s) /\ Len(s) \in 0..Len(s) /\ 1 # 0
    BY <1>2, <1>4
  <2> QED BY <1>2, <1>4, <2>1
<1>10. /\ r \in Memory(Nodes)
       /\ \A m \in Nodes : r.next[m] = (IF m = head THEN head ELSE IF m = a(Len(s)) THEN a(1) ELSE l.next[m])
       /\ \A m \in Nodes : r.prev[m] = (IF m = head THEN head ELSE IF m = a(1) THEN a(Len(s)) ELSE l.prev[m])
  <2>1. /\ r \in Memory(Nodes)
        /\ \A m \in Nodes : r.next[m] = (IF m = head THEN head ELSE IF m = l.prev[head] THEN l.next[head]
                                         ELSE l.next[m])
        /\ \A m \in Nodes : r.prev[m] = (IF m = head THEN head ELSE IF m = l.next[head] THEN l.prev[head]
                                         ELSE l.prev[m])
    <3>1. DelEffect(Nodes, l, head, r)
      BY DelPointers
    <3> QED BY <3>1 DEF DelEffect
  <2> QED BY <1>3, <2>1
<1> HIDE DEF r
<1>11. ASSUME NEW j \in 0..Len(t) PROVE r.next[b(j)] = b(j + 1) /\ r.prev[b(j + 1)] = b(j)
  <2>0. j \in Nat /\ j <= Len(s) - 1 /\ j \in 0..Len(s) /\ j + 1 \in 0..Len(s) /\ j # Len(s)
    BY <1>2, <1>4, <1>6
  <2>1. b(j) = a(j + 1)
    BY <1>8, <2>0
  <2>2. CASE j + 1 = Len(s)
    <3>1. b(j + 1) = a(1)
      BY <1>8, <2>0, <2>2
    <3> QED BY <1>9, <1>10, <2>1, <2>2, <3>1
  <2>3. CASE j + 1 # Len(s)
    <3>1. b(j + 1) = a((j + 1) + 1)
      BY <1>8, <2>0, <2>3
    <3>2. /\ j + 1 \in 0..(Len(s) + 1) /\ (j + 1) + 1 \in 0..(Len(s) + 1)
          /\ (j + 1) + 1 \in 1..(Len(s) + 1) /\ (j + 1) + 1 # 1 /\ (j + 1) + 1 # 0 /\ j + 1 # 0
          /\ 1 \in 1..(Len(s) + 1) /\ (j + 1) + 1 # Len(s) + 1 /\ Len(s) + 1 \in 1..(Len(s) + 1)
          /\ 0 \in 0..Len(s) /\ Len(s) \in 0..Len(s)
      BY <1>2, <2>0, <2>3
    <3>3. a(j + 1) # head /\ a(j + 1) # a(Len(s)) /\ a((j + 1) + 1) # head /\ a((j + 1) + 1) # a(1)
      BY <1>2, <2>0, <2>3, <3>2
    <3>4. l.next[a(j + 1)] = a((j + 1) + 1) /\ l.prev[a((j + 1) + 1)] = a(j + 1)
      BY <1>5, <2>0
    <3>5. a(j + 1) \in Nodes /\ a((j + 1) + 1) \in Nodes
      BY <1>2, <3>2
    <3> QED BY <1>10, <2>1, <3>1, <3>3, <3>4, <3>5
  <2> QED BY <2>2, <2>3
<1>12. Chain(r, h, t)
  BY <1>7, <1>11 DEF Chain, b
<1>13. Chain(r, head, <<>>)
  BY <1>10, EmptyChain
<1>14. SameAt(l, r, Nodes \ Ring(head, s))
  BY <1>9, <1>10 DEF SameAt
<1> QED BY <1>10, <1>12, <1>13, <1>14 DEF r, h, t

(* mthpc_list_replace_init() of the node at place k. *)
LEMMA ListReplaceInit ==
    ASSUME NEW Nodes, NEW l \in Memory(Nodes), NEW head \in Nodes, NEW s \in Seq(Nodes),
           Chain(l, head, s), NEW k \in 1..Len(s), NEW new \in Nodes, new \notin Ring(head, s)
    PROVE  LET r == mthpc_list_replace_init(l, s[k], new) IN
           /\ r \in Memory(Nodes) /\ Chain(r, head, [s EXCEPT ![k] = new]) /\ Chain(r, s[k], <<>>)
           /\ SameAt(l, r, Nodes \ (Ring(head, s) \union {new}))
<1> DEFINE a(j) == At(head, s, j)
           t == [s EXCEPT ![k] = new]
           b(j) == At(head, t, j)
           n == s[k]
           r == mthpc_list_replace_init(l, n, new)
<1>1. IsInjective(s) /\ head \notin ToSet(s)
  BY DEF Chain
<1>2. /\ Len(s) \in Nat
      /\ \A j \in 0..(Len(s) + 1) : a(j) \in Nodes /\ a(j) \in Ring(head, s)
      /\ \A i, j \in 0..Len(s) : a(i) = a(j) => i = j
      /\ \A i, j \in 1..(Len(s) + 1) : a(i) = a(j) => i = j
      /\ a(k) = n
  BY <1>1, Places
<1>3. l.next[n] = a(k + 1) /\ l.prev[n] = a(k - 1)
  <2>1. \A j \in 1..Len(s) : /\ l.next[s[j]] = At(head, s, j + 1)
                             /\ l.prev[s[j]] = At(head, s, j - 1)
    BY Ends
  <2> QED BY <2>1
<1>4. /\ k \in 0..Len(s) /\ k - 1 \in 0..Len(s) /\ k + 1 \in 1..(Len(s) + 1) /\ k \in 1..(Len(s) + 1)
      /\ k \in 0..(Len(s) + 1) /\ k - 1 \in 0..(Len(s) + 1) /\ k + 1 \in 0..(Len(s) + 1)
      /\ k \in Nat /\ k >= 1
  BY <1>2
<1>5. \A j \in 0..Len(s) : l.next[a(j)] = a(j + 1) /\ l.prev[a(j + 1)] = a(j)
  BY DEF Chain
<1>6. /\ t \in Seq(Nodes) /\ Len(t) = Len(s)
      /\ \A i \in 1..Len(s) : t[i] = IF i = k THEN new ELSE s[i]
  BY ExceptSeq, LenProperties
<1>7. IsInjective(t) /\ head \notin ToSet(t)
  <2>1. new # head /\ \A i \in 1..Len(s) : s[i] # new /\ s[i] # head
    BY <1>1, InList DEF Ring
  <2>2. \A i, j \in 1..Len(s) : s[i] = s[j] => i = j
    BY <1>1, Injective
  <2>3. \A x : x \in ToSet(t) <=> \E i \in 1..Len(t) : t[i] = x
    BY <1>6, InList
  <2>4. IsInjective(t) <=> \A i, j \in 1..Len(t) : t[i] = t[j] => i = j
    BY <1>6, Injective
  <2> HIDE DEF t
  <2> QED BY <1>6, <2>1, <2>2, <2>3, <2>4
<1> HIDE DEF t, n
<1>8. ASSUME NEW j \in 0..(Len(s) + 1) PROVE b(j) = IF j = k THEN new ELSE a(j)
  <2>1. CASE j \in 1..Len(s)
    BY <1>6, <2>1 DEF At
  <2>2. CASE j \notin 1..Len(s)
    BY <1>6, <2>2 DEF At
  <2> QED BY <2>1, <2>2
<1> HIDE DEF a, b
<1>9. /\ n \in Nodes /\ n \in Ring(head, s) /\ a(k - 1) \in Ring(head, s) /\ a(k + 1) \in Ring(head, s)
      /\ a(k - 1) \in Nodes /\ a(k + 1) \in Nodes
      /\ a(k - 1) # n /\ a(k + 1) # n /\ new # n /\ new # a(k - 1) /\ new # a(k + 1)
  BY <1>2, <1>4
<1>10. /\ r \in Memory(Nodes)
       /\ \A m \in Nodes : r.next[m] = (IF m = n THEN n ELSE IF m = a(k - 1) THEN new
                                        ELSE IF m = new THEN a(k + 1) ELSE l.next[m])
       /\ \A m \in Nodes : r.prev[m] = (IF m = n THEN n ELSE IF m = a(k + 1) THEN new
                                        ELSE IF m = new THEN a(k - 1) ELSE l.prev[m])
  <2>1. /\ l.next[n] # n /\ l.prev[n] # n /\ l.next[n] # new /\ l.prev[n] # new /\ new # n
    BY <1>3, <1>9
  <2>2. /\ r \in Memory(Nodes)
        /\ \A m \in Nodes : r.next[m] = (IF m = n THEN n ELSE IF m = l.prev[n] THEN new
                                         ELSE IF m = new THEN l.next[n] ELSE l.next[m])
        /\ \A m \in Nodes : r.prev[m] = (IF m = n THEN n ELSE IF m = l.next[n] THEN new
                                         ELSE IF m = new THEN l.prev[n] ELSE l.prev[m])
    BY <1>9, <2>1, ReplacePointers
  <2> QED BY <1>3, <2>2
<1> HIDE DEF r
<1>11. ASSUME NEW j \in 0..Len(t) PROVE r.next[b(j)] = b(j + 1) /\ r.prev[b(j + 1)] = b(j)
  <2>0. /\ j \in Nat /\ j \in 0..Len(s) /\ j \in 0..(Len(s) + 1) /\ j + 1 \in 0..(Len(s) + 1)
        /\ j + 1 \in 1..(Len(s) + 1)
    BY <1>2, <1>6
  <2>1. CASE j # k - 1 /\ j # k
    <3>1. j + 1 # k /\ j + 1 # k + 1
      BY <1>4, <2>0, <2>1
    <3>2. b(j) = a(j) /\ b(j + 1) = a(j + 1)
      BY <1>8, <2>0, <2>1, <3>1
    <3>3. /\ a(j) # n /\ a(j) # a(k - 1) /\ a(j + 1) # n /\ a(j + 1) # a(k + 1)
          /\ a(j) # new /\ a(j + 1) # new /\ a(j) \in Nodes /\ a(j + 1) \in Nodes
      BY <1>2, <1>4, <2>0, <2>1, <3>1
    <3>4. l.next[a(j)] = a(j + 1) /\ l.prev[a(j + 1)] = a(j)
      BY <1>5, <2>0
    <3> QED BY <1>10, <3>2, <3>3, <3>4
  <2>2. CASE j = k - 1
    <3>1. j + 1 = k /\ j # k
      BY <1>4, <2>2
    <3>2. b(j) = a(k - 1) /\ b(j + 1) = new
      BY <1>8, <2>0, <2>2, <3>1
    <3> QED BY <1>9, <1>10, <3>2
  <2>3. CASE j = k
    <3>1. j + 1 # k
      BY <1>4, <2>3
    <3>2. b(j) = new /\ b(j + 1) = a(k + 1)
      BY <1>8, <2>0, <2>3, <3>1
    <3> QED BY <1>9, <1>10, <3>2
  <2> QED BY <2>1, <2>2, <2>3
<1>12. Chain(r, head, t)
  BY <1>7, <1>11 DEF Chain, b
<1>13. Chain(r, n, <<>>)
  BY <1>9, <1>10, EmptyChain
<1>14. SameAt(l, r, Nodes \ (Ring(head, s) \union {new}))
  BY <1>9, <1>10 DEF SameAt
<1> QED BY <1>10, <1>12, <1>13, <1>14 DEF r, n, t

(* Two lists without common elements, one behind the other. *)
LEMMA Joined ==
    ASSUME NEW S, NEW s \in Seq(S), NEW u \in Seq(S)
    PROVE  /\ s \o u \in Seq(S) /\ Len(s \o u) = Len(s) + Len(u)
           /\ \A i \in 1..Len(s) : (s \o u)[i] = s[i]
           /\ \A i \in 1..Len(u) : (s \o u)[Len(s) + i] = u[i]
           /\ ToSet(s \o u) = ToSet(s) \union ToSet(u)
           /\ (IsInjective(s) /\ IsInjective(u) /\ ToSet(s) \intersect ToSet(u) = {}) => IsInjective(s \o u)
<1> DEFINE t == s \o u
<1>1. Len(s) \in Nat /\ Len(u) \in Nat
  BY LenProperties
<1>2. /\ t \in Seq(S) /\ Len(t) = Len(s) + Len(u)
      /\ \A i \in 1..(Len(s) + Len(u)) : t[i] = IF i <= Len(s) THEN s[i] ELSE u[i - Len(s)]
  BY ConcatProperties
<1> HIDE DEF t
<1>3. \A i \in 1..Len(s) : t[i] = s[i] /\ i \in 1..Len(t)
  BY <1>1, <1>2
<1>4. ASSUME NEW i \in 1..Len(u) PROVE t[Len(s) + i] = u[i] /\ Len(s) + i \in 1..Len(t)
  <2>1. Len(s) + i \in 1..(Len(s) + Len(u)) /\ ~(Len(s) + i <= Len(s)) /\ (Len(s) + i) - Len(s) = i
    BY <1>1
  <2> QED BY <1>2, <2>1
<1>5. ASSUME NEW i \in 1..Len(t)
      PROVE  i \in 1..Len(s) \/ (i - Len(s) \in 1..Len(u) /\ i = Len(s) + (i - Len(s)))
  BY <1>1, <1>2
<1>6. /\ \A x : x \in ToSet(t) <=> \E i \in 1..Len(t) : t[i] = x
      /\ \A x : x \in ToSet(s) <=> \E i \in 1..Len(s) : s[i] = x
      /\ \A x : x \in ToSet(u) <=> \E i \in 1..Len(u) : u[i] = x
  BY <1>2, InList
<1>7. ToSet(t) = ToSet(s) \union ToSet(u)
  <2>1. ASSUME NEW x \in ToSet(t) PROVE x \in ToSet(s) \/ x \in ToSet(u)
    <3>1. PICK i \in 1..Len(t) : t[i] = x
      BY <1>6
    <3>2. CASE i \in 1..Len(s)
      BY <1>3, <1>6, <3>1, <3>2
    <3>3. CASE i \notin 1..Len(s)
      <4>1. i - Len(s) \in 1..Len(u) /\ t[Len(s) + (i - Len(s))] = u[i - Len(s)] /\ i = Len(s) + (i - Len(s))
        BY <1>4, <1>5, <3>3
      <4> QED BY <1>6, <3>1, <4>1
    <3> QED BY <3>2, <3>3
  <2>2. ASSUME NEW x \in ToSet(s) PROVE x \in ToSet(t)
    BY <1>3, <1>6
  <2>3. ASSUME NEW x \in ToSet(u) PROVE x \in ToSet(t)
    BY <1>4, <1>6
  <2> QED BY <2>1, <2>2, <2>3
<1>8. ASSUME IsInjective(s), IsInjective(u), ToSet(s) \intersect ToSet(u) = {}
      PROVE  IsInjective(t)
  <2>1. /\ \A i, j \in 1..Len(s) : s[i] = s[j] => i = j
        /\ \A i, j \in 1..Len(u) : u[i] = u[j] => i = j
    BY <1>8, Injective
  <2>2. \A i \in 1..Len(s), j \in 1..Len(u) : s[i] # u[j]
    BY <1>6, <1>8
  <2>3. ASSUME NEW i \in 1..Len(t), NEW j \in 1..Len(t), t[i] = t[j] PROVE i = j
    <3>1. CASE i \in 1..Len(s) /\ j \in 1..Len(s)
      BY <1>3, <2>1, <2>3, <3>1
    <3>2. CASE i \in 1..Len(s) /\ j \notin 1..Len(s)
      <4>1. t[i] = s[i] /\ t[j] = u[j - Len(s)] /\ j - Len(s) \in 1..Len(u)
        BY <1>3, <1>4, <1>5, <3>2
      <4> QED BY <2>2, <2>3, <3>2, <4>1
    <3>3. CASE i \notin 1..Len(s) /\ j \in 1..Len(s)
      <4>1. t[j] = s[j] /\ t[i] = u[i - Len(s)] /\ i - Len(s) \in 1..Len(u)
        BY <1>3, <1>4, <1>5, <3>3
      <4> QED BY <2>2, <2>3, <3>3, <4>1
    <3>4. CASE i \notin 1..Len(s) /\ j \notin 1..Len(s)
      <4>1. /\ t[j] = u[j - Len(s)] /\ j - Len(s) \in 1..Len(u)
            /\ t[i] = u[i - Len(s)] /\ i - Len(s) \in 1..Len(u)
        BY <1>4, <1>5, <3>4
      <4>2. i - Len(s) = j - Len(s)
        BY <2>1, <2>3, <4>1
      <4> QED BY <1>1, <4>2
    <3> QED BY <3>1, <3>2, <3>3, <3>4
  <2> QED BY <1>2, <2>3, Injective
<1> QED BY <1>2, <1>3, <1>4, <1>7, <1>8 DEF t

(* __mthpc_list_splice() of the list u of the head list, after the node at *)
(* place q.                                                                *)
LEMMA Spliced ==
    ASSUME NEW Nodes, NEW l \in Memory(Nodes), NEW head \in Nodes, NEW s \in Seq(Nodes),
           Chain(l, head, s), NEW list \in Nodes, NEW u \in Seq(Nodes), Chain(l, list, u), u # <<>>,
           Ring(head, s) \intersect Ring(list, u) = {}, NEW q \in 0..Len(s),
           NEW t \in Seq(Nodes), IsInjective(t), head \notin ToSet(t), Len(t) = Len(s) + Len(u),
           \A k \in 0..q : At(head, t, k) = At(head, s, k),
           \A k \in 1..Len(u) : At(head, t, q + k) = u[k],
           \A k \in (q + 1)..(Len(s) + 1) : At(head, t, Len(u) + k) = At(head, s, k)
    PROVE  LET r == mthpc_list_splice_between(l, list, At(head, s, q), At(head, s, q + 1)) IN
           /\ r \in Memory(Nodes) /\ Chain(r, head, t)
           /\ SameAt(l, r, Nodes \ (Ring(head, s) \union Ring(list, u)))
<1> DEFINE a(k) == At(head, s, k)
           b(k) == At(head, t, k)
           c(k) == At(list, u, k)
           n == Len(s)
           m == Len(u)
           r == mthpc_list_splice_between(l, list, a(q), a(q + 1))
<1>1. IsInjective(s) /\ head \notin ToSet(s) /\ IsInjective(u) /\ list \notin ToSet(u)
  BY DEF Chain
<1>2. /\ n \in Nat
      /\ \A k \in 0..(n + 1) : a(k) \in Nodes /\ a(k) \in Ring(head, s)
      /\ \A j, k \in 0..n : a(j) = a(k) => j = k
      /\ \A j, k \in 1..(n + 1) : a(j) = a(k) => j = k
  BY <1>1, Places
<1>3. /\ m \in Nat
      /\ \A k \in 0..(m + 1) : c(k) \in Nodes /\ c(k) \in Ring(list, u)
      /\ \A j, k \in 0..m : c(j) = c(k) => j = k
      /\ \A k \in 1..m : c(k) = u[k]
  BY <1>1, Places
<1>4. m >= 1
  BY <1>3, EmptySeq
<1>5. /\ \A k \in 0..n : l.next[a(k)] = a(k + 1) /\ l.prev[a(k + 1)] = a(k)
      /\ \A k \in 0..m : l.next[c(k)] = c(k + 1) /\ l.prev[c(k + 1)] = c(k)
  BY DEF Chain
<1>6. l.next[list] = c(1) /\ l.prev[list] = c(m)
  BY Ends
<1>7. /\ \A k \in 0..q : b(k) = a(k)
      /\ \A k \in 1..m : b(q + k) = c(k)
      /\ \A k \in (q + 1)..(n + 1) : b(m + k) = a(k)
  BY <1>3
<1>8. Len(t) = n + m
  OBVIOUS
<1> HIDE DEF a, b, c, n, m
<1>9. q \in Nat /\ q <= n /\ q \in 0..n
  BY <1>2 DEF n
<1>10. /\ a(q) \in Nodes /\ a(q + 1) \in Nodes /\ a(q) \in Ring(head, s) /\ a(q + 1) \in Ring(head, s)
       /\ c(1) \in Nodes /\ c(m) \in Nodes /\ c(1) \in Ring(list, u) /\ c(m) \in Ring(list, u)
  BY <1>2, <1>3, <1>4, <1>9
<1>11. \A x \in Ring(head, s), y \in Ring(list, u) : x # y
  OBVIOUS
<1>12. /\ r \in Memory(Nodes)
       /\ \A x \in Nodes : r.next[x] = (IF x = c(m) THEN a(q + 1) ELSE IF x = a(q) THEN c(1) ELSE l.next[x])
       /\ \A x \in Nodes : r.prev[x] = (IF x = a(q + 1) THEN c(m) ELSE IF x = c(1) THEN a(q) ELSE l.prev[x])
  <2>1. /\ r \in Memory(Nodes)
        /\ \A x \in Nodes : r.next[x] = (IF x = l.prev[list] THEN a(q + 1)
                                         ELSE IF x = a(q) THEN l.next[list] ELSE l.next[x])
        /\ \A x \in Nodes : r.prev[x] = (IF x = a(q + 1) THEN l.prev[list]
                                         ELSE IF x = l.next[list] THEN a(q) ELSE l.prev[x])
    <3> DEFINE p == a(q)
               y == a(q + 1)
    <3>1. p \in Nodes /\ y \in Nodes
      BY <1>10
    <3>2. r = mthpc_list_splice_between(l, list, p, y)
      OBVIOUS
    <3> HIDE DEF p, y, r
    <3> DEFINE g == mthpc_list_splice_between(l, list, p, y)
    <3>3. g \in Memory(Nodes) /\ SpliceEffect(Nodes, l, g, list, p, y)
      BY <3>1, SplicePointers
    <3> HIDE DEF g
    <3>4. r = g
      BY <3>2 DEF g
    <3> QED BY <3>3, <3>4 DEF p, y, SpliceEffect
  <2> QED BY <1>6, <2>1
<1> HIDE DEF r
<1>13. ASSUME NEW k \in 0..Len(t) PROVE r.next[b(k)] = b(k + 1) /\ r.prev[b(k + 1)] = b(k)
  <2>0. k \in Nat /\ k <= n + m
    BY <1>2, <1>3, <1>8
  <2>1. CASE k < q
    <3>1. /\ k \in 0..q /\ k + 1 \in 0..q /\ k \in 0..n /\ k \in 0..(n + 1) /\ k # q
          /\ k + 1 \in 1..(n + 1) /\ q + 1 \in 1..(n + 1) /\ k + 1 # q + 1 /\ k + 1 \in 0..(n + 1)
      BY <1>2, <1>9, <2>0, <2>1
    <3>2. b(k) = a(k) /\ b(k + 1) = a(k + 1)
      BY <1>7, <3>1
    <3>3. a(k) # a(q) /\ a(k + 1) # a(q + 1)
      BY <1>2, <1>9, <3>1
    <3>4. a(k) # c(m) /\ a(k + 1) # c(1) /\ a(k) \in Nodes /\ a(k + 1) \in Nodes
      BY <1>2, <1>10, <1>11, <3>1
    <3> QED BY <1>5, <1>12, <3>1, <3>2, <3>3, <3>4
  <2>2. CASE k = q
    <3>1. b(k) = a(q) /\ b(k + 1) = c(1)
      <4>1. q \in 0..q /\ 1 \in 1..m
        BY <1>3, <1>4, <1>9
      <4> QED BY <1>7, <2>2, <4>1
    <3> QED BY <1>10, <1>11, <1>12, <3>1
  <2>3. CASE q < k /\ k < q + m
    <3>1. PICK i \in 1..(m - 1) : k = q + i
      <4>1. k - q \in 1..(m - 1) /\ k = q + (k - q)
        BY <1>3, <1>9, <2>0, <2>3
      <4> QED BY <4>1
    <3>2. /\ i \in 1..m /\ i + 1 \in 1..m /\ i \in 0..m /\ k + 1 = q + (i + 1) /\ i # m /\ i + 1 # 1
          /\ m \in 0..m /\ 1 \in 0..m /\ i + 1 \in 0..m /\ i \in 0..(m + 1) /\ i + 1 \in 0..(m + 1)
      BY <1>3, <1>4, <1>9, <3>1
    <3>3. b(k) = c(i) /\ b(k + 1) = c(i + 1)
      BY <1>7, <3>1, <3>2
    <3>4. c(i) # c(m) /\ c(i + 1) # c(1)
      BY <1>3, <3>2
    <3>5. /\ c(i) # a(q) /\ c(i + 1) # a(q + 1) /\ c(i) \in Nodes /\ c(i + 1) \in Nodes
      BY <1>3, <1>10, <1>11, <3>2
    <3>6. l.next[c(i)] = c(i + 1) /\ l.prev[c(i + 1)] = c(i)
      BY <1>5, <3>2
    <3> QED BY <1>12, <3>3, <3>4, <3>5, <3>6
  <2>4. CASE k = q + m
    <3>1. b(k) = c(m) /\ b(k + 1) = a(q + 1)
      <4>1. m \in 1..m /\ q + 1 \in (q + 1)..(n + 1) /\ k + 1 = m + (q + 1)
        BY <1>2, <1>3, <1>4, <1>9, <2>4
      <4> QED BY <1>7, <2>4, <4>1
    <3> QED BY <1>10, <1>12, <3>1
  <2>5. CASE k > q + m
    <3>1. PICK i \in (q + 1)..n : k = m + i
      <4>1. k - m \in (q + 1)..n /\ k = m + (k - m)
        BY <1>2, <1>3, <1>9, <2>0, <2>5
      <4> QED BY <4>1
    <3>2. /\ i \in (q + 1)..(n + 1) /\ i + 1 \in (q + 1)..(n + 1) /\ k + 1 = m + (i + 1)
          /\ i \in 0..n /\ i # q /\ i + 1 \in 1..(n + 1) /\ q + 1 \in 1..(n + 1) /\ i + 1 # q + 1
          /\ i \in 0..(n + 1) /\ i + 1 \in 0..(n + 1)
      BY <1>2, <1>3, <1>9, <3>1
    <3>3. b(k) = a(i) /\ b(k + 1) = a(i + 1)
      BY <1>7, <3>1, <3>2
    <3>4. a(i) # a(q) /\ a(i + 1) # a(q + 1)
      BY <1>2, <1>9, <3>2
    <3>5. a(i) # c(m) /\ a(i + 1) # c(1) /\ a(i) \in Nodes /\ a(i + 1) \in Nodes
      BY <1>2, <1>10, <1>11, <3>2
    <3>6. l.next[a(i)] = a(i + 1) /\ l.prev[a(i + 1)] = a(i)
      BY <1>5, <3>2
    <3> QED BY <1>12, <3>3, <3>4, <3>5, <3>6
  <2>6. k < q \/ k = q \/ (q < k /\ k < q + m) \/ k = q + m \/ k > q + m
    BY <1>3, <1>9, <2>0
  <2> QED BY <2>1, <2>2, <2>3, <2>4, <2>5, <2>6
<1>14. Chain(r, head, t)
  BY <1>13 DEF Chain, b
<1>15. SameAt(l, r, Nodes \ (Ring(head, s) \union Ring(list, u)))
  BY <1>10, <1>12 DEF SameAt
<1> QED BY <1>12, <1>14, <1>15 DEF r, a

(* mthpc_list_splice_tail(). *)
LEMMA ListSpliceTail ==
    ASSUME NEW Nodes, NEW l \in Memory(Nodes), NEW head \in Nodes, NEW s \in Seq(Nodes),
           Chain(l, head, s), NEW list \in Nodes, NEW u \in Seq(Nodes), Chain(l, list, u), u # <<>>,
           Ring(head, s) \intersect Ring(list, u) = {}
    PROVE  LET r == mthpc_list_splice_tail(l, list, head) IN
           /\ r \in Memory(Nodes) /\ Chain(r, head, s \o u)
           /\ SameAt(l, r, Nodes \ (Ring(head, s) \union Ring(list, u)))
<1> DEFINE t == s \o u
           q == Len(s)
           r == mthpc_list_splice_between(l, list, At(head, s, q), At(head, s, q + 1))
<1>1. IsInjective(s) /\ head \notin ToSet(s) /\ IsInjective(u) /\ list \notin ToSet(u)
  BY DEF Chain
<1>2. ToSet(s) \intersect ToSet(u) = {} /\ head \notin ToSet(u)
  BY DEF Ring
<1>3. /\ t \in Seq(Nodes) /\ Len(t) = Len(s) + Len(u)
      /\ \A i \in 1..Len(s) : t[i] = s[i]
      /\ \A i \in 1..Len(u) : t[Len(s) + i] = u[i]
      /\ ToSet(t) = ToSet(s) \union ToSet(u)
      /\ IsInjective(t)
  BY <1>1, <1>2, Joined
<1> HIDE DEF t
<1>4. Len(s) \in Nat /\ Len(u) \in Nat
  BY LenProperties
<1>5. q \in 0..Len(s) /\ At(head, s, q + 1) = head /\ l.prev[head] = At(head, s, q)
  <2>1. At(head, s, q + 1) = head
    BY <1>1, Places
  <2>2. l.prev[head] = At(head, s, q)
    BY Ends
  <2> QED BY <1>4, <2>1, <2>2
<1>6. \A k \in 0..q : At(head, t, k) = At(head, s, k)
  <2> TAKE k \in 0..q
  <2>1. k \in 1..Len(t) <=> k \in 1..Len(s)
    BY <1>3, <1>4
  <2> QED BY <1>3, <2>1 DEF At
<1>7. \A k \in 1..Len(u) : At(head, t, q + k) = u[k]
  <2> TAKE k \in 1..Len(u)
  <2>1. q + k \in 1..Len(t)
    BY <1>3, <1>4
  <2> QED BY <1>3, <2>1 DEF At
<1>8. \A k \in (q + 1)..(Len(s) + 1) : At(head, t, Len(u) + k) = At(head, s, k)
  <2> TAKE k \in (q + 1)..(Len(s) + 1)
  <2>1. Len(u) + k \notin 1..Len(t) /\ k \notin 1..Len(s)
    BY <1>3, <1>4
  <2> QED BY <2>1 DEF At
<1>9. head \notin ToSet(t)
  BY <1>1, <1>2, <1>3
<1>10. mthpc_list_splice_tail(l, list, head) = r
  <2>1. l.next[list] = list <=> u = <<>>
    BY Ends
  <2> QED BY <1>5, <2>1 DEF mthpc_list_splice_tail, mthpc_list_empty
<1> HIDE DEF q
<1>11. /\ r \in Memory(Nodes) /\ Chain(r, head, t)
       /\ SameAt(l, r, Nodes \ (Ring(head, s) \union Ring(list, u)))
  BY <1>3, <1>5, <1>6, <1>7, <1>8, <1>9, Spliced, Zenon
<1> HIDE DEF r
<1> QED BY <1>10, <1>11 DEF t

(* mthpc_list_splice(). *)
LEMMA ListSplice ==
    ASSUME NEW Nodes, NEW l \in Memory(Nodes), NEW head \in Nodes, NEW s \in Seq(Nodes),
           Chain(l, head, s), NEW list \in Nodes, NEW u \in Seq(Nodes), Chain(l, list, u), u # <<>>,
           Ring(head, s) \intersect Ring(list, u) = {}
    PROVE  LET r == mthpc_list_splice(l, list, head) IN
           /\ r \in Memory(Nodes) /\ Chain(r, head, u \o s)
           /\ SameAt(l, r, Nodes \ (Ring(head, s) \union Ring(list, u)))
<1> DEFINE t == u \o s
           q == 0
           r == mthpc_list_splice_between(l, list, At(head, s, q), At(head, s, q + 1))
<1>1. IsInjective(s) /\ head \notin ToSet(s) /\ IsInjective(u) /\ list \notin ToSet(u)
  BY DEF Chain
<1>2. ToSet(u) \intersect ToSet(s) = {} /\ head \notin ToSet(u)
  BY DEF Ring
<1>3. /\ t \in Seq(Nodes) /\ Len(t) = Len(u) + Len(s)
      /\ \A i \in 1..Len(u) : t[i] = u[i]
      /\ \A i \in 1..Len(s) : t[Len(u) + i] = s[i]
      /\ ToSet(t) = ToSet(u) \union ToSet(s)
      /\ IsInjective(t)
  BY <1>1, <1>2, Joined
<1> HIDE DEF t
<1>4. Len(s) \in Nat /\ Len(u) \in Nat /\ Len(t) = Len(s) + Len(u)
  BY <1>3, LenProperties
<1>5. q \in 0..Len(s) /\ At(head, s, q) = head /\ l.next[head] = At(head, s, q + 1)
  <2>1. At(head, s, 0) = head
    BY <1>1, Places
  <2>2. l.next[head] = At(head, s, 1)
    BY Ends
  <2> QED BY <1>4, <2>1, <2>2
<1>6. \A k \in 0..q : At(head, t, k) = At(head, s, k)
  BY <1>3, <1>4 DEF At
<1>7. \A k \in 1..Len(u) : At(head, t, q + k) = u[k]
  <2> TAKE k \in 1..Len(u)
  <2>1. q + k \in 1..Len(t) /\ q + k = k
    BY <1>3, <1>4
  <2> QED BY <1>3, <2>1 DEF At
<1>8. \A k \in (q + 1)..(Len(s) + 1) : At(head, t, Len(u) + k) = At(head, s, k)
  <2> TAKE k \in (q + 1)..(Len(s) + 1)
  <2>1. CASE k = Len(s) + 1
    <3>1. Len(u) + k \notin 1..Len(t) /\ k \notin 1..Len(s)
      BY <1>3, <1>4, <2>1
    <3> QED BY <3>1 DEF At
  <2>2. CASE k # Len(s) + 1
    <3>1. Len(u) + k \in 1..Len(t) /\ k \in 1..Len(s)
      BY <1>3, <1>4, <2>2
    <3> QED BY <1>3, <3>1 DEF At
  <2> QED BY <2>1, <2>2
<1>9. head \notin ToSet(t)
  BY <1>1, <1>2, <1>3
<1>10. mthpc_list_splice(l, list, head) = r
  <2>1. l.next[list] = list <=> u = <<>>
    BY Ends
  <2> QED BY <1>5, <2>1 DEF mthpc_list_splice, mthpc_list_empty
<1> HIDE DEF q
<1>11. /\ r \in Memory(Nodes) /\ Chain(r, head, t)
       /\ SameAt(l, r, Nodes \ (Ring(head, s) \union Ring(list, u)))
  BY <1>3, <1>4, <1>5, <1>6, <1>7, <1>8, <1>9, Spliced, Zenon
<1> HIDE DEF r
<1> QED BY <1>10, <1>11 DEF t

(* mthpc_list_for_each() visits the nodes of the list, in their order, and *)
(* comes back to the head.                                                 *)
LEMMA WalkIsChain ==
    ASSUME NEW Nodes, IsFiniteSet(Nodes), NEW l \in Memory(Nodes), NEW head \in Nodes,
           NEW s \in Seq(Nodes), Chain(l, head, s)
    PROVE  Walk(l, head) = s /\ Circular(l, head)
<1> DEFINE n == Cardinality(Nodes)
           a(k) == At(head, s, k)
           At2(f) == [k \in 0..n |-> IF k = 0 THEN head ELSE l.next[f[k - 1]]]
           Good(m) == \E f \in [0..m -> Nodes] : /\ f[0] = head
                                                  /\ \A k \in 1..m : f[k] = l.next[f[k - 1]]
<1>1. IsInjective(s) /\ head \notin ToSet(s)
  BY DEF Chain
<1>2. /\ Len(s) \in Nat /\ a(0) = head /\ a(Len(s) + 1) = head
      /\ \A k \in 0..(Len(s) + 1) : a(k) \in Nodes
      /\ \A j, k \in 0..Len(s) : a(j) = a(k) => j = k
      /\ \A k \in 1..Len(s) : a(k) = s[k]
  BY <1>1, Places
<1>3. \A k \in 0..Len(s) : l.next[a(k)] = a(k + 1)
  BY DEF Chain
<1> HIDE DEF a
<1>4. n \in Nat /\ Len(s) + 1 <= n
  <2> DEFINE f == [k \in 0..Len(s) |-> a(k)]
  <2>1. f \in Injection(0..Len(s), Nodes)
    <3>1. \A k \in 0..Len(s) : k \in 0..(Len(s) + 1)
      BY <1>2
    <3>2. f \in [0..Len(s) -> Nodes]
      BY <1>2, <3>1
    <3>3. \A j, k \in 0..Len(s) : f[j] = f[k] => j = k
      BY <1>2
    <3> HIDE DEF f
    <3> QED BY <3>2, <3>3 DEF Injection, IsInjective
  <2> HIDE DEF f
  <2>2. IsFiniteSet(0..Len(s)) /\ Cardinality(0..Len(s)) = Len(s) + 1
    BY <1>2, FS_Interval
  <2>3. Cardinality(0..Len(s)) <= Cardinality(Nodes)
    BY <2>1, FS_Injection
  <2>4. Cardinality(Nodes) \in Nat
    BY FS_CardinalityType
  <2> QED BY <2>2, <2>3, <2>4
<1> HIDE DEF n
<1>5. \A m \in Nat : Good(m)
  <2> SUFFICES ASSUME NEW m0 \in Nat, ~Good(m0) PROVE FALSE
    OBVIOUS
  <2> DEFINE T == {m \in Nat : ~Good(m)}
             i == Min(T)
  <2>1. T \in SUBSET Nat /\ T # {}
    OBVIOUS
  <2> HIDE DEF T
  <2>2. i \in T /\ \A y \in T : i <= y
    BY <2>1, LeastExists
  <2>3. i \in Nat /\ ~Good(i) /\ \A y \in Nat : y < i => Good(y)
    <3>1. i \in Nat /\ ~Good(i)
      BY <2>2 DEF T
    <3>2. \A y \in Nat : ~Good(y) => y \in T
      BY DEF T
    <3> HIDE DEF Good, i
    <3> QED BY <2>2, <3>1, <3>2
  <2> HIDE DEF i
  <2>4. CASE i = 0
    <3> DEFINE f == [k \in 0..0 |-> head]
    <3>1. f \in [0..0 -> Nodes] /\ f[0] = head /\ \A k \in 1..0 : f[k] = l.next[f[k - 1]]
      OBVIOUS
    <3> QED BY <2>3, <2>4, <3>1
  <2>5. CASE i # 0
    <3>1. i - 1 \in Nat /\ i - 1 < i
      BY <2>3, <2>5
    <3>2. PICK f \in [0..(i - 1) -> Nodes] : /\ f[0] = head
                                             /\ \A k \in 1..(i - 1) : f[k] = l.next[f[k - 1]]
      BY <2>3, <3>1
    <3> DEFINE g == [k \in 0..i |-> IF k = i THEN l.next[f[i - 1]] ELSE f[k]]
    <3>3. f[i - 1] \in Nodes /\ l.next[f[i - 1]] \in Nodes
      BY <3>1, <3>2, MemoryType
    <3>4. \A k \in 0..i : k # i => k \in 0..(i - 1)
      BY <2>3
    <3>5. g \in [0..i -> Nodes]
      BY <3>3, <3>4
    <3>6. g[0] = head
      BY <2>3, <2>5, <3>2
    <3>7. ASSUME NEW k \in 1..i PROVE g[k] = l.next[g[k - 1]]
      <4>1. k \in 0..i /\ k - 1 \in 0..i /\ k - 1 # i
        BY <2>3
      <4>2. g[k - 1] = f[k - 1]
        BY <4>1
      <4>3. CASE k = i
        BY <4>1, <4>2, <4>3
      <4>4. CASE k # i
        <5>1. k \in 1..(i - 1) /\ g[k] = f[k]
          BY <2>3, <4>1, <4>4
        <5> QED BY <3>2, <4>2, <5>1
      <4> QED BY <4>3, <4>4
    <3> HIDE DEF g
    <3> QED BY <2>3, <3>5, <3>6, <3>7
  <2> QED BY <2>4, <2>5
<1>6. \E f : f = At2(f)
  <2>1. PICK f \in [0..n -> Nodes] : f[0] = head /\ \A k \in 1..n : f[k] = l.next[f[k - 1]]
    BY <1>4, <1>5
  <2>2. \A k \in 0..n : f[k] = IF k = 0 THEN head ELSE l.next[f[k - 1]]
    <3>1. \A k \in 0..n : k # 0 => k \in 1..n
      BY <1>4
    <3> QED BY <2>1, <3>1
  <2>3. f = At2(f)
    <3>1. f = [k \in 0..n |-> f[k]]
      BY <2>1
    <3> QED BY <2>2, <3>1
  <2> QED BY <2>3
<1> DEFINE at == CHOOSE f : f = At2(f)
<1>7. at = At2(at)
  <2> HIDE DEF At2
  <2> QED BY <1>6, Zenon
<1> DEFINE back == CHOOSE k \in 0..n : k > 0 /\ at[k] = head /\ \A j \in 1..(k - 1) : at[j] # head
<1>d. Steps(l, head) = at
  <2>1. DOMAIN l.next = Nodes
    BY MemoryType
  <2> QED BY <2>1 DEF Steps, n
<1>e. DOMAIN at = 0..n
  <2> HIDE DEF at
  <2>1. DOMAIN At2(at) = 0..n
    OBVIOUS
  <2> HIDE DEF At2
  <2> QED BY <1>7, <2>1, Zenon
<1> HIDE DEF at
<1>8. Walk(l, head) = [k \in 1..(back - 1) |-> at[k]]
  BY <1>d, <1>e, Zenon DEF Walk
<1>9. at[0] = head /\ \A k \in 1..n : at[k] = l.next[at[k - 1]]
  <2>1. \A k \in 1..n : k \in 0..n /\ k # 0
    BY <1>4
  <2>2. 0 \in 0..n
    BY <1>4
  <2> QED BY <1>7, <2>1, <2>2
<1>10. \A k \in 0..(Len(s) + 1) : at[k] = a(k)
  <2> SUFFICES ASSUME NEW k0 \in 0..(Len(s) + 1), at[k0] # a(k0) PROVE FALSE
    OBVIOUS
  <2> DEFINE T == {k \in 0..(Len(s) + 1) : at[k] # a(k)}
             i == Min(T)
  <2>1. T \in SUBSET Nat /\ T # {}
    BY <1>2
  <2>2. i \in T /\ \A y \in T : i <= y
    <3> HIDE DEF T
    <3> QED BY <2>1, LeastExists
  <2>3. i \in 0..(Len(s) + 1) /\ at[i] # a(i)
    BY <2>2 DEF T
  <2> HIDE DEF i
  <2>4. i # 0
    BY <1>2, <1>9, <2>3
  <2>5. i - 1 \in 0..(Len(s) + 1) /\ i - 1 \in 0..Len(s) /\ i - 1 \notin T /\ i \in 1..n /\ (i - 1) + 1 = i
    <3> HIDE DEF T
    <3> QED BY <1>2, <1>4, <2>1, <2>2, <2>3, <2>4
  <2>6. at[i - 1] = a(i - 1)
    BY <2>5
  <2>7. at[i] = l.next[at[i - 1]]
    BY <1>9, <2>5
  <2>8. l.next[a(i - 1)] = a(i)
    BY <1>3, <2>5
  <2> QED BY <2>3, <2>6, <2>7, <2>8
<1>11. back = Len(s) + 1
  <2> DEFINE Is(k) == k > 0 /\ at[k] = head /\ \A j \in 1..(k - 1) : at[j] # head
  <2>1. \A j \in 1..Len(s) : at[j] # head
    <3> TAKE j \in 1..Len(s)
    <3>1. j \in 0..Len(s) /\ 0 \in 0..Len(s) /\ j # 0 /\ j \in 0..(Len(s) + 1)
      BY <1>2
    <3> QED BY <1>2, <1>10, <3>1
  <2>2. Len(s) + 1 \in 0..n /\ Is(Len(s) + 1)
    <3>1. Len(s) + 1 \in 0..(Len(s) + 1) /\ (Len(s) + 1) - 1 = Len(s) /\ Len(s) + 1 > 0
      BY <1>2
    <3>2. at[Len(s) + 1] = head
      BY <1>2, <1>10, <3>1
    <3> QED BY <1>2, <1>4, <2>1, <3>1, <3>2
  <2>3. ASSUME NEW k \in 0..n, Is(k) PROVE k = Len(s) + 1
    <3>1. k \notin 1..Len(s) /\ k > 0
      BY <2>1, <2>3
    <3>2. ~(k > Len(s) + 1)
      <4> SUFFICES ASSUME k > Len(s) + 1 PROVE FALSE
        OBVIOUS
      <4>1. Len(s) + 1 \in 1..(k - 1)
        BY <1>2, <1>4
      <4> QED BY <2>2, <2>3, <4>1
    <3> QED BY <1>2, <1>4, <3>1, <3>2
  <2>4. back = CHOOSE k \in 0..n : Is(k)
    OBVIOUS
  <2> HIDE DEF Is, back
  <2> QED BY <2>2, <2>3, <2>4
<1> HIDE DEF back
<1>12. \A k \in 1..Len(s) : at[k] = s[k]
  <2>1. \A k \in 1..Len(s) : k \in 0..(Len(s) + 1)
    BY <1>2
  <2> QED BY <1>2, <1>10, <2>1
<1>13. back - 1 = Len(s)
  BY <1>2, <1>11
<1>14. s = [k \in 1..Len(s) |-> s[k]]
  BY LenProperties
<1>15. [k \in 1..(back - 1) |-> at[k]] = [k \in 1..Len(s) |-> s[k]]
  BY <1>12, <1>13
<1>16. Circular(l, head)
  <2> DEFINE m == Len(s) + 1
  <2>1. m \in DOMAIN at /\ m > 0 /\ at[m] = head
    BY <1>2, <1>4, <1>10, <1>e
  <2>2. ASSUME NEW j \in 1..m PROVE l.prev[at[j]] = at[j - 1]
    <3>1. j - 1 \in 0..Len(s) /\ (j - 1) + 1 = j /\ j \in 0..(Len(s) + 1) /\ j - 1 \in 0..(Len(s) + 1)
      BY <1>2
    <3>2. l.prev[a((j - 1) + 1)] = a(j - 1)
      BY <3>1 DEF Chain, a
    <3> QED BY <1>10, <3>1, <3>2
  <2>3. \E k \in DOMAIN at : k > 0 /\ at[k] = head /\ \A j \in 1..k : l.prev[at[j]] = at[j - 1]
    <3> HIDE DEF m
    <3> QED BY <2>1, <2>2
  <2> QED BY <1>d, <2>3, Zenon DEF Circular
<1> QED BY <1>8, <1>14, <1>15, <1>16
-----------------------------------------------------------------------------
(* The lists of sub tasks, sub_task_list_head of every task and ADD: those *)
(* of the main tasks H hold S, that of ADD holds A, no task is in two of   *)
(* them, and the tasks in none are linked to themselves.                   *)

LNodes == Tasks \union {HEAD, NEW_ADD}
SNodes == Tasks \union {ADD}

InStages(H, S) == UNION {Ring(t, S[t]) : t \in H}

Subs(l, H, S, A) ==
    /\ l \in Memory(SNodes) /\ H \subseteq Tasks /\ S \in [Tasks -> Seq(Tasks)] /\ A \in Seq(Tasks)
    /\ Chain(l, ADD, A)
    /\ \A t \in H : Chain(l, t, S[t]) /\ Ring(t, S[t]) \intersect ToSet(A) = {}
    /\ \A t, u \in H : t # u => Ring(t, S[t]) \intersect Ring(u, S[u]) = {}
    /\ \A t \in Tasks : t \notin InStages(H, S) /\ t \notin ToSet(A) => Chain(l, t, <<>>)

\* What changes when task x leaves the stage of m, whose main task is then n,
\* and when the tasks X join the stage of m; H and G are the main tasks.
Left(H, S, G, T, x) == InStages(G, T) = InStages(H, S) \ {x}

Taken(H, S, G, T, m, n, x) ==
    /\ Ring(n, T[n]) = Ring(m, S[m]) \ {x} /\ Len(T[n]) = Len(S[m]) - 1
    /\ \A t \in H \ {m} : T[t] = S[t]
    /\ Left(H, S, G, T, x)

Gained(H, S, T, m, X, n) ==
    /\ Ring(m, T[m]) = Ring(m, S[m]) \union X /\ Len(T[m]) = Len(S[m]) + n
    /\ \A t \in H \ {m} : T[t] = S[t]
    /\ InStages(H, T) = InStages(H, S) \union X

Begun(H, S, G, T, t) ==
    /\ T[t] = <<>> /\ Ring(t, T[t]) = {t} /\ (\A u \in H : T[u] = S[u])
    /\ InStages(G, T) = InStages(H, S) \union {t}

(* The nodes of the two kinds of lists: the tasks and the heads.           *)
LEMMA NodeSets ==
    /\ IsFiniteSet(Tasks) /\ IsFiniteSet(LNodes) /\ IsFiniteSet(SNodes)
    /\ Tasks \subseteq LNodes /\ Tasks \subseteq SNodes
    /\ ADD \in SNodes /\ HEAD \in LNodes /\ NEW_ADD \in LNodes
    /\ ADD \notin Tasks /\ HEAD \notin Tasks /\ NEW_ADD \notin Tasks /\ NULL \notin Tasks
    /\ HEAD # NEW_ADD
    /\ Seq(Tasks) \subseteq Seq(LNodes) /\ Seq(Tasks) \subseteq Seq(SNodes)
<1>1. IsFiniteSet(Tasks)
  BY TaskflowAssumption, FS_Interval DEF Tasks
<1> DEFINE e == {HEAD, NEW_ADD}
           d == {ADD}
<1>2. IsFiniteSet(e) /\ IsFiniteSet(d)
  <2>1. IsFiniteSet({HEAD}) /\ IsFiniteSet(d)
    BY FS_Singleton
  <2>2. IsFiniteSet({HEAD} \union {NEW_ADD})
    BY <2>1, FS_AddElement
  <2>3. e = {HEAD} \union {NEW_ADD}
    OBVIOUS
  <2> QED BY <2>1, <2>2, <2>3
<1>3. LNodes = Tasks \union e /\ SNodes = Tasks \union d
  BY DEF LNodes, SNodes
<1> HIDE DEF e, d
<1>4. IsFiniteSet(LNodes) /\ IsFiniteSet(SNodes)
  BY <1>1, <1>2, <1>3, FS_Union
<1>5. Seq(Tasks) \subseteq Seq(LNodes) /\ Seq(Tasks) \subseteq Seq(SNodes)
  BY SeqMonotonic DEF LNodes, SNodes
<1> QED BY <1>1, <1>4, <1>5, TaskflowAssumption DEF LNodes, SNodes

(* The rings of the lists do not meet, and none contains ADD.              *)
LEMMA SubsFacts ==
    ASSUME NEW l, NEW H, NEW S, NEW A, Subs(l, H, S, A)
    PROVE  /\ \A x : x \in InStages(H, S) <=> \E t \in H : x \in Ring(t, S[t])
           /\ InStages(H, S) \subseteq Tasks /\ ToSet(A) \subseteq Tasks
           /\ InStages(H, S) \intersect ToSet(A) = {}
           /\ \A t \in H : /\ t \in Tasks /\ t \in SNodes /\ S[t] \in Seq(Tasks) /\ S[t] \in Seq(SNodes)
                           /\ IsInjective(S[t]) /\ t \notin ToSet(S[t]) /\ ToSet(S[t]) \subseteq Tasks
                           /\ t \in Ring(t, S[t]) /\ Ring(t, S[t]) = {t} \union ToSet(S[t])
                           /\ Ring(t, S[t]) \subseteq Tasks /\ ADD \notin Ring(t, S[t])
           /\ A \in Seq(SNodes) /\ IsInjective(A) /\ Ring(ADD, A) = {ADD} \union ToSet(A)
           /\ \A t \in H, u \in H : u \in Ring(t, S[t]) => u = t
           /\ \A t \in H : Chain(l, t, S[t]) /\ Ring(t, S[t]) \intersect Ring(ADD, A) = {}
<1>1. \A x : x \in InStages(H, S) <=> \E t \in H : x \in Ring(t, S[t])
  BY DEF InStages
<1>2. ToSet(A) \subseteq Tasks /\ A \in Seq(SNodes) /\ IsInjective(A)
  BY InList, NodeSets DEF Subs, Chain
<1>3. ASSUME NEW t \in H
      PROVE  /\ t \in Tasks /\ t \in SNodes /\ S[t] \in Seq(Tasks) /\ S[t] \in Seq(SNodes)
             /\ IsInjective(S[t]) /\ t \notin ToSet(S[t]) /\ ToSet(S[t]) \subseteq Tasks
             /\ t \in Ring(t, S[t]) /\ Ring(t, S[t]) = {t} \union ToSet(S[t])
             /\ Ring(t, S[t]) \subseteq Tasks /\ ADD \notin Ring(t, S[t])
  <2>1. t \in Tasks /\ t \in SNodes /\ S[t] \in Seq(Tasks)
    BY NodeSets DEF Subs
  <2>2. ToSet(S[t]) \subseteq Tasks /\ S[t] \in Seq(SNodes)
    BY <2>1, InList, NodeSets
  <2>3. IsInjective(S[t]) /\ t \notin ToSet(S[t])
    BY DEF Subs, Chain
  <2> QED BY <2>1, <2>2, <2>3, NodeSets DEF Ring
<1>4. InStages(H, S) \subseteq Tasks
  BY <1>1, <1>3
<1>5. InStages(H, S) \intersect ToSet(A) = {}
  BY <1>1 DEF Subs
<1>6. \A t \in H, u \in H : u \in Ring(t, S[t]) => u = t
  BY <1>3 DEF Subs
<1>7. Ring(ADD, A) = {ADD} \union ToSet(A)
  BY DEF Ring
<1>8. \A t \in H : Chain(l, t, S[t]) /\ Ring(t, S[t]) \intersect Ring(ADD, A) = {}
  BY <1>3, <1>7 DEF Subs
<1> QED BY <1>1, <1>2, <1>3, <1>4, <1>5, <1>6, <1>7, <1>8

(* The lists whose nodes are not touched stay as they are.                 *)
LEMMA SubsFrame ==
    ASSUME NEW l, NEW H, NEW S, NEW A, Subs(l, H, S, A), NEW r, NEW N, SameAt(l, r, SNodes \ N)
    PROVE  /\ \A t \in H : Ring(t, S[t]) \intersect N = {} => Chain(r, t, S[t])
           /\ Ring(ADD, A) \intersect N = {} => Chain(r, ADD, A)
           /\ \A t \in Tasks : t \notin InStages(H, S) /\ t \notin ToSet(A) /\ t \notin N => Chain(r, t, <<>>)
<1>1. ASSUME NEW t \in H, Ring(t, S[t]) \intersect N = {} PROVE Chain(r, t, S[t])
  <2>1. t \in SNodes /\ S[t] \in Seq(SNodes) /\ Chain(l, t, S[t])
    BY SubsFacts
  <2>2. Ring(t, S[t]) \subseteq SNodes
    BY SubsFacts, NodeSets
  <2>3. SameAt(l, r, Ring(t, S[t]))
    BY <1>1, <2>2 DEF SameAt
  <2> QED BY <2>1, <2>3, Untouched
<1>2. ASSUME Ring(ADD, A) \intersect N = {} PROVE Chain(r, ADD, A)
  <2>1. ADD \in SNodes /\ A \in Seq(SNodes) /\ Chain(l, ADD, A)
    BY SubsFacts, NodeSets DEF Subs
  <2>2. Ring(ADD, A) \subseteq SNodes
    BY SubsFacts, NodeSets
  <2>3. SameAt(l, r, Ring(ADD, A))
    BY <1>2, <2>2 DEF SameAt
  <2> QED BY <2>1, <2>3, Untouched
<1>3. ASSUME NEW t \in Tasks, t \notin InStages(H, S), t \notin ToSet(A), t \notin N
      PROVE  Chain(r, t, <<>>)
  <2>1. Chain(l, t, <<>>)
    BY <1>3 DEF Subs
  <2>2. t \in SNodes
    BY NodeSets
  <2>3. r.next[t] = l.next[t] /\ r.prev[t] = l.prev[t]
    BY <1>3, <2>2 DEF SameAt
  <2> QED BY <2>1, <2>3, EmptyChain
<1> QED BY <1>1, <1>2, <1>3

(* A sub task is taken out of its list.                                    *)
LEMMA SubDel ==
    ASSUME NEW l, NEW H, NEW S, NEW A, Subs(l, H, S, A), NEW m \in H, NEW x \in ToSet(S[m])
    PROVE  \E T : Subs(mthpc_list_del(l, x), H, T, A) /\ Taken(H, S, H, T, m, m, x)
<1> DEFINE s == S[m]
           r == mthpc_list_del(l, x)
<1>1. /\ m \in Tasks /\ m \in SNodes /\ s \in Seq(Tasks) /\ s \in Seq(SNodes)
      /\ IsInjective(s) /\ m \notin ToSet(s) /\ Ring(m, s) = {m} \union ToSet(s) /\ ADD \notin Ring(m, s)
      /\ Chain(l, m, s)
  BY SubsFacts
<1>2. l \in Memory(SNodes) /\ H \subseteq Tasks /\ S \in [Tasks -> Seq(Tasks)] /\ A \in Seq(Tasks)
  BY DEF Subs
<1> HIDE DEF s
<1>k. PICK k \in 1..Len(s) : s[k] = x
  BY <1>1, InList DEF s
<1> DEFINE t1 == RemoveAt(s, k)
           T == [S EXCEPT ![m] = t1]
<1>3. r \in Memory(SNodes) /\ Chain(r, m, t1) /\ Chain(r, x, <<>>) /\ SameAt(l, r, SNodes \ Ring(m, s))
  BY <1>1, <1>2, <1>k, ListDel
<1>4. t1 \in Seq(Tasks) /\ Len(t1) = Len(s) - 1 /\ ToSet(t1) = ToSet(s) \ {x}
  BY <1>1, <1>k, Removed, RemovedSet
<1>5. x \in ToSet(s) /\ x # m
  BY <1>1, <1>k, InList
<1> HIDE DEF t1, r
<1>6. /\ T \in [Tasks -> Seq(Tasks)] /\ T[m] = t1 /\ \A t \in Tasks : t # m => T[t] = S[t]
  BY <1>1, <1>2, <1>4
<1> HIDE DEF T
<1>7. Ring(m, T[m]) = Ring(m, s) \ {x}
  BY <1>1, <1>4, <1>5, <1>6 DEF Ring
<1>8. \A t \in H : t # m => T[t] = S[t] /\ Ring(t, T[t]) = Ring(t, S[t]) /\ Ring(t, S[t]) \intersect Ring(m, s) = {}
  BY <1>2, <1>6 DEF Subs, s
<1>9. InStages(H, T) = InStages(H, S) \ {x}
  <2>1. x \in Ring(m, s)
    BY <1>1, <1>5
  <2>2. ASSUME NEW y \in InStages(H, T) PROVE y \in InStages(H, S) \ {x}
    <3>1. PICK t \in H : y \in Ring(t, T[t])
      BY DEF InStages
    <3> QED BY <1>7, <1>8, <2>1, <3>1 DEF InStages, s
  <2>3. ASSUME NEW y \in InStages(H, S), y # x PROVE y \in InStages(H, T)
    <3>1. PICK t \in H : y \in Ring(t, S[t])
      BY DEF InStages
    <3> QED BY <1>7, <1>8, <2>3, <3>1 DEF InStages, s
  <2> QED BY <2>2, <2>3
<1>10. Subs(r, H, T, A)
  <2>1. Chain(r, ADD, A)
    <3>1. Ring(ADD, A) \intersect Ring(m, s) = {}
      BY SubsFacts DEF s
    <3> QED BY <1>3, <3>1, SubsFrame
  <2>2. ASSUME NEW t \in H PROVE Chain(r, t, T[t]) /\ Ring(t, T[t]) \intersect ToSet(A) = {}
    <3>1. Ring(t, S[t]) \intersect ToSet(A) = {}
      BY DEF Subs
    <3>2. CASE t = m
      BY <1>3, <1>6, <1>7, <3>1, <3>2 DEF s
    <3>3. CASE t # m
      <4>1. Chain(r, t, S[t])
        BY <1>3, <1>8, <3>3, SubsFrame
      <4> QED BY <1>8, <3>1, <3>3, <4>1
    <3> QED BY <3>2, <3>3
  <2>3. ASSUME NEW t \in H, NEW u \in H, t # u PROVE Ring(t, T[t]) \intersect Ring(u, T[u]) = {}
    <3>1. Ring(t, S[t]) \intersect Ring(u, S[u]) = {}
      BY <2>3 DEF Subs
    <3>2. Ring(t, T[t]) \subseteq Ring(t, S[t]) /\ Ring(u, T[u]) \subseteq Ring(u, S[u])
      BY <1>7, <1>8 DEF s
    <3> QED BY <3>1, <3>2
  <2>4. ASSUME NEW t \in Tasks, t \notin InStages(H, T), t \notin ToSet(A) PROVE Chain(r, t, <<>>)
    <3>1. CASE t = x
      BY <1>3, <3>1
    <3>2. CASE t # x
      <4>1. t \notin InStages(H, S)
        BY <1>9, <2>4, <3>2
      <4>2. t \notin Ring(m, s)
        BY <4>1, SubsFacts DEF s
      <4> QED BY <1>3, <2>4, <4>1, <4>2, SubsFrame
    <3> QED BY <3>1, <3>2
  <2> QED BY <1>2, <1>3, <1>6, <2>1, <2>2, <2>3, <2>4 DEF Subs
<1>11. Len(T[m]) = Len(s) - 1
  BY <1>4, <1>6
<1>12. \A t \in H \ {m} : T[t] = S[t]
  BY <1>8
<1>13. Taken(H, S, H, T, m, m, x)
  BY <1>7, <1>9, <1>11, <1>12 DEF Taken, Left, s
<1> QED BY <1>10, <1>13 DEF r

(* A main task is taken out of its list: the first sub task is its head.   *)
LEMMA HeadDel ==
    ASSUME NEW l, NEW H, NEW S, NEW A, Subs(l, H, S, A), NEW m \in H, S[m] # <<>>,
           NEW G, G = (H \ {m}) \union {l.next[m]}
    PROVE  /\ l.next[m] \in ToSet(S[m]) /\ l.next[m] \in Tasks /\ l.next[m] \notin H
           /\ \E T : Subs(mthpc_list_del(l, m), G, T, A) /\ Taken(H, S, G, T, m, l.next[m], m)
<1> DEFINE s == S[m]
           h == Head(s)
           t1 == Tail(s)
           T == [S EXCEPT ![h] = t1]
           r == mthpc_list_del(l, m)
<1>1. /\ m \in Tasks /\ m \in SNodes /\ s \in Seq(Tasks) /\ s \in Seq(SNodes)
      /\ IsInjective(s) /\ m \notin ToSet(s) /\ Ring(m, s) = {m} \union ToSet(s) /\ ADD \notin Ring(m, s)
      /\ Chain(l, m, s) /\ ToSet(s) \subseteq Tasks
  BY SubsFacts
<1>2. l \in Memory(SNodes) /\ H \subseteq Tasks /\ S \in [Tasks -> Seq(Tasks)] /\ A \in Seq(Tasks)
  BY DEF Subs
<1> HIDE DEF s
<1>k. s # <<>>
  BY DEF s
<1>g. G = (H \ {m}) \union {l.next[m]}
  OBVIOUS
<1>h. h = l.next[m]
  <2>1. l.next[m] = At(m, s, 1) /\ Len(s) # 0 /\ Len(s) \in Nat
    BY <1>1, <1>2, <1>k, Ends, EmptySeq, LenProperties
  <2> QED BY <1>1, <1>k, <2>1, HeadTailProperties DEF At
<1>3. r \in Memory(SNodes) /\ Chain(r, h, t1) /\ Chain(r, m, <<>>) /\ SameAt(l, r, SNodes \ Ring(m, s))
  BY <1>1, <1>2, <1>k, ListDelHead
<1>4. /\ t1 \in Seq(Tasks) /\ Len(t1) = Len(s) - 1
      /\ ToSet(s) = ToSet(t1) \union {h} /\ h \notin ToSet(t1) /\ h \in ToSet(s) /\ h \in Tasks
  <2>1. Len(t1) = Len(s) - 1
    BY <1>1, <1>k, HeadTailProperties
  <2>2. /\ h \in ToSet(s) /\ h \in Tasks /\ t1 \in Seq(Tasks) /\ ToSet(s) = ToSet(t1) \union {h}
        /\ h \notin ToSet(t1)
    BY <1>1, <1>k, TakenFirst
  <2> QED BY <2>1, <2>2
<1> HIDE DEF h, t1, r
<1>5. /\ T \in [Tasks -> Seq(Tasks)] /\ T[h] = t1 /\ \A t \in Tasks : t # h => T[t] = S[t]
  BY <1>1, <1>2, <1>4
<1> HIDE DEF T
<1>6. h \in Ring(m, s) /\ h # m /\ h \notin H
  <2>1. h \in Ring(m, s) /\ h # m
    BY <1>1, <1>4
  <2>2. \A u \in H : u \in Ring(m, s) => u = m
    BY SubsFacts DEF s
  <2> QED BY <2>1, <2>2
<1>7. Ring(h, T[h]) = Ring(m, s) \ {m}
  BY <1>1, <1>4, <1>5 DEF Ring
<1>8. \A t \in H \ {m} : T[t] = S[t] /\ Ring(t, T[t]) = Ring(t, S[t]) /\ Ring(t, S[t]) \intersect Ring(m, s) = {}
  BY <1>2, <1>5, <1>6 DEF Subs, s
<1>8g. G = (H \ {m}) \union {h}
  BY <1>g, <1>h
<1>9. InStages(G, T) = InStages(H, S) \ {m}
  <2>1. m \in Ring(m, s)
    BY <1>1
  <2>2. ASSUME NEW y \in InStages(G, T) PROVE y \in InStages(H, S) \ {m}
    <3>1. PICK t \in G : y \in Ring(t, T[t])
      BY DEF InStages
    <3>2. CASE t = h
      BY <1>7, <3>1, <3>2 DEF InStages, s
    <3>3. CASE t # h
      BY <1>8, <1>8g, <2>1, <3>1, <3>3 DEF InStages
    <3> QED BY <3>2, <3>3
  <2>3. ASSUME NEW y \in InStages(H, S), y # m PROVE y \in InStages(G, T)
    <3>1. PICK t \in H : y \in Ring(t, S[t])
      BY DEF InStages
    <3>2. CASE t = m
      <4>1. y \in Ring(h, T[h]) /\ h \in G
        BY <1>7, <1>8g, <2>3, <3>1, <3>2 DEF s
      <4> QED BY <4>1 DEF InStages
    <3>3. CASE t # m
      <4>1. y \in Ring(t, T[t]) /\ t \in G
        BY <1>8, <1>8g, <3>1, <3>3
      <4> QED BY <4>1 DEF InStages
    <3> QED BY <3>2, <3>3
  <2> QED BY <2>2, <2>3
<1>10. Subs(r, G, T, A)
  <2>1. Chain(r, ADD, A)
    <3>1. Ring(ADD, A) \intersect Ring(m, s) = {}
      BY SubsFacts DEF s
    <3> QED BY <1>3, <3>1, SubsFrame
  <2>2. ASSUME NEW t \in G PROVE Chain(r, t, T[t]) /\ Ring(t, T[t]) \intersect ToSet(A) = {}
    <3>1. \A u \in H : Ring(u, S[u]) \intersect ToSet(A) = {}
      BY DEF Subs
    <3>2. CASE t = h
      <4>1. Ring(m, s) \intersect ToSet(A) = {}
        BY <3>1 DEF s
      <4> QED BY <1>3, <1>5, <1>7, <3>2, <4>1
    <3>3. CASE t # h
      <4>0. t \in H \ {m} /\ t \in H
        BY <1>8g, <3>3
      <4>1. Chain(r, t, S[t])
        BY <1>3, <1>8, <4>0, SubsFrame
      <4> QED BY <1>8, <3>1, <4>0, <4>1
    <3> QED BY <3>2, <3>3
  <2>3. ASSUME NEW t \in G, NEW u \in G, t # u PROVE Ring(t, T[t]) \intersect Ring(u, T[u]) = {}
    <3>1. \A x, y \in H : x # y => Ring(x, S[x]) \intersect Ring(y, S[y]) = {}
      BY DEF Subs
    <3>2. CASE t = h
      BY <1>7, <1>8, <1>8g, <2>3, <3>2
    <3>3. CASE u = h
      BY <1>7, <1>8, <1>8g, <2>3, <3>3
    <3>4. CASE t # h /\ u # h
      BY <1>8, <1>8g, <2>3, <3>1, <3>4
    <3> QED BY <3>2, <3>3, <3>4
  <2>4. ASSUME NEW t \in Tasks, t \notin InStages(G, T), t \notin ToSet(A) PROVE Chain(r, t, <<>>)
    <3>1. CASE t = m
      BY <1>3, <3>1
    <3>2. CASE t # m
      <4>1. t \notin InStages(H, S)
        BY <1>9, <2>4, <3>2
      <4>2. t \notin Ring(m, s)
        BY <4>1, SubsFacts DEF s
      <4> QED BY <1>3, <2>4, <4>1, <4>2, SubsFrame
    <3> QED BY <3>1, <3>2
  <2>5. G \subseteq Tasks
    BY <1>2, <1>4, <1>8g
  <2> QED BY <1>2, <1>3, <1>5, <2>1, <2>2, <2>3, <2>4, <2>5 DEF Subs
<1>11. Len(T[h]) = Len(s) - 1
  BY <1>4, <1>5
<1>12. \A t \in H \ {m} : T[t] = S[t]
  BY <1>8
<1>13. h \in ToSet(s) /\ h \in Tasks
  BY <1>4
<1>14. Taken(H, S, G, T, m, h, m)
  BY <1>7, <1>9, <1>11, <1>12 DEF Taken, Left, s
<1> QED BY <1>6, <1>10, <1>13, <1>14, <1>h DEF r, s

(* A main task without sub tasks is in no list of sub tasks.               *)
LEMMA Freed ==
    ASSUME NEW l, NEW H, NEW S, NEW A, Subs(l, H, S, A), NEW m \in H, S[m] = <<>>,
           NEW G, G = H \ {m}
    PROVE  Subs(l, G, S, A) /\ Left(H, S, G, S, m)
<1>1. Ring(m, S[m]) = {m} /\ Chain(l, m, <<>>)
  BY ShortLists DEF Subs, Ring
<1>2. \A t, u \in H : t # u => Ring(t, S[t]) \intersect Ring(u, S[u]) = {}
  BY DEF Subs
<1>3. InStages(G, S) = InStages(H, S) \ {m}
  <2>1. \A t \in H \ {m} : m \notin Ring(t, S[t])
    BY <1>1, <1>2
  <2>2. \A y : y \in InStages(H \ {m}, S) <=> \E t \in H \ {m} : y \in Ring(t, S[t])
    BY DEF InStages
  <2>3. \A y : y \in InStages(H, S) <=> \E t \in H : y \in Ring(t, S[t])
    BY DEF InStages
  <2> QED BY <1>1, <2>1, <2>2, <2>3
<1>4. ASSUME NEW t \in Tasks, t \notin InStages(G, S), t \notin ToSet(A)
      PROVE  Chain(l, t, <<>>)
  <2>1. t = m \/ t \notin InStages(H, S)
    BY <1>3, <1>4
  <2> QED BY <1>1, <1>4, <2>1 DEF Subs
<1>5. Subs(l, G, S, A)
  BY <1>3, <1>4 DEF Subs
<1> QED BY <1>3, <1>5 DEF Left

(* A task that is in no list is put at either end of adding_list.          *)
LEMMA ToAdding ==
    ASSUME NEW l, NEW H, NEW S, NEW A, Subs(l, H, S, A),
           NEW t \in Tasks, t \notin InStages(H, S), t \notin ToSet(A)
    PROVE  /\ Subs(mthpc_list_add(l, t, ADD), H, S, <<t>> \o A)
           /\ Subs(mthpc_list_add_tail(l, t, ADD), H, S, Append(A, t))
<1>1. /\ l \in Memory(SNodes) /\ H \subseteq Tasks /\ S \in [Tasks -> Seq(Tasks)] /\ A \in Seq(Tasks)
      /\ Chain(l, ADD, A)
  BY DEF Subs
<1>2. ADD \in SNodes /\ A \in Seq(SNodes) /\ t \in SNodes /\ t \notin Ring(ADD, A)
  BY NodeSets, SubsFacts DEF Ring
<1>3. /\ <<t>> \o A \in Seq(Tasks) /\ ToSet(<<t>> \o A) = ToSet(A) \union {t}
      /\ Append(A, t) \in Seq(Tasks) /\ ToSet(Append(A, t)) = ToSet(A) \union {t}
  BY <1>1, AddedFirst, AddedLast
<1>5. ASSUME NEW r \in Memory(SNodes), NEW B \in Seq(Tasks), Chain(r, ADD, B),
             ToSet(B) = ToSet(A) \union {t}, SameAt(l, r, SNodes \ (Ring(ADD, A) \union {t}))
      PROVE  Subs(r, H, S, B)
  <2>1. ASSUME NEW u \in H PROVE Chain(r, u, S[u]) /\ Ring(u, S[u]) \intersect ToSet(B) = {}
    <3>1. t \notin Ring(u, S[u])
      BY DEF InStages
    <3>2. Ring(u, S[u]) \intersect Ring(ADD, A) = {} /\ Ring(u, S[u]) \intersect ToSet(A) = {}
      <4>1. Ring(u, S[u]) \intersect Ring(ADD, A) = {} /\ Ring(ADD, A) = {ADD} \union ToSet(A)
        BY SubsFacts
      <4> QED BY <4>1
    <3>3. Ring(u, S[u]) \intersect (Ring(ADD, A) \union {t}) = {}
      BY <3>1, <3>2
    <3>4. Chain(r, u, S[u])
      BY <1>5, <3>3, SubsFrame
    <3> QED BY <1>5, <3>1, <3>2, <3>4
  <2>2. ASSUME NEW u \in Tasks, u \notin InStages(H, S), u \notin ToSet(B) PROVE Chain(r, u, <<>>)
    <3>1. u \notin ToSet(A) /\ u # t /\ u # ADD
      BY <1>5, <2>2, NodeSets
    <3>2. u \notin Ring(ADD, A) \union {t}
      BY <3>1 DEF Ring
    <3> QED BY <1>5, <2>2, <3>1, <3>2, SubsFrame
  <2>3. \A u, v \in H : u # v => Ring(u, S[u]) \intersect Ring(v, S[v]) = {}
    BY DEF Subs
  <2> QED BY <1>1, <1>5, <2>1, <2>2, <2>3 DEF Subs
<1>6. Subs(mthpc_list_add(l, t, ADD), H, S, <<t>> \o A)
  <2> DEFINE r == mthpc_list_add(l, t, ADD)
  <2>1. /\ r \in Memory(SNodes) /\ Chain(r, ADD, <<t>> \o A)
        /\ SameAt(l, r, SNodes \ (Ring(ADD, A) \union {t}))
    BY <1>1, <1>2, ListAdd
  <2> HIDE DEF r
  <2>2. Subs(r, H, S, <<t>> \o A)
    BY <1>3, <1>5, <2>1
  <2> QED BY <2>2 DEF r
<1>7. Subs(mthpc_list_add_tail(l, t, ADD), H, S, Append(A, t))
  <2> DEFINE r == mthpc_list_add_tail(l, t, ADD)
  <2>1. /\ r \in Memory(SNodes) /\ Chain(r, ADD, Append(A, t))
        /\ SameAt(l, r, SNodes \ (Ring(ADD, A) \union {t}))
    BY <1>1, <1>2, ListAddTail
  <2> HIDE DEF r
  <2>2. Subs(r, H, S, Append(A, t))
    BY <1>3, <1>5, <2>1
  <2> QED BY <2>2 DEF r
<1> QED BY <1>6, <1>7

(* A list with one more task at either end.                                *)
LEMMA AddedOne ==
    ASSUME NEW A \in Seq(Tasks), NEW t \in Tasks
    PROVE  /\ ToSet(<<t>> \o A) = ToSet(A) \union {t} /\ Len(<<t>> \o A) = Len(A) + 1
           /\ ToSet(Append(A, t)) = ToSet(A) \union {t} /\ Len(Append(A, t)) = Len(A) + 1
<1>1. /\ ToSet(<<t>> \o A) = ToSet(A) \union {t} /\ ToSet(Append(A, t)) = ToSet(A) \union {t}
      /\ Len(Append(A, t)) = Len(A) + 1
  BY AddedFirst, AddedLast
<1>2. <<t>> \in Seq(Tasks) /\ Len(<<t>>) = 1
  OBVIOUS
<1>3. Len(<<t>> \o A) = Len(<<t>>) + Len(A)
  BY <1>2, ConcatProperties
<1> QED BY <1>1, <1>2, <1>3, LenProperties

(* A task that is in no list becomes a main task.                          *)
LEMMA AsHead ==
    ASSUME NEW l, NEW H, NEW S, NEW A, Subs(l, H, S, A),
           NEW t \in Tasks, t \notin InStages(H, S), t \notin ToSet(A), NEW G, G = H \union {t}
    PROVE  t \notin H /\ \E T : Subs(l, G, T, A) /\ Begun(H, S, G, T, t)
<1> DEFINE T == [S EXCEPT ![t] = <<>>]
<1>1. /\ l \in Memory(SNodes) /\ H \subseteq Tasks /\ S \in [Tasks -> Seq(Tasks)] /\ A \in Seq(Tasks)
      /\ Chain(l, ADD, A) /\ Chain(l, t, <<>>)
  BY DEF Subs
<1>2. \A u \in H : t \notin Ring(u, S[u]) /\ u \in Ring(u, S[u])
  BY DEF InStages, Ring
<1>3. t \notin H
  BY <1>2
<1>4. <<>> \in Seq(Tasks)
  OBVIOUS
<1>5. T \in [Tasks -> Seq(Tasks)] /\ T[t] = <<>> /\ \A u \in Tasks : u # t => T[u] = S[u]
  BY <1>1, <1>4
<1> HIDE DEF T
<1>6. Ring(t, T[t]) = {t}
  BY <1>5, ShortLists DEF Ring
<1>7. \A u \in H : u # t /\ T[u] = S[u]
  BY <1>1, <1>3, <1>5
<1>8. InStages(G, T) = InStages(H, S) \union {t}
  <2>1. \A y : y \in InStages(G, T) <=> \E u \in H \union {t} : y \in Ring(u, T[u])
    BY DEF InStages
  <2>2. \A y : y \in InStages(H, S) <=> \E u \in H : y \in Ring(u, S[u])
    BY DEF InStages
  <2> QED BY <1>6, <1>7, <2>1, <2>2
<1>9. Subs(l, G, T, A)
  <2>1. ASSUME NEW u \in H \union {t} PROVE Chain(l, u, T[u]) /\ Ring(u, T[u]) \intersect ToSet(A) = {}
    BY <1>1, <1>5, <1>6, <1>7 DEF Subs
  <2>2. ASSUME NEW u \in H \union {t}, NEW v \in H \union {t}, u # v
        PROVE  Ring(u, T[u]) \intersect Ring(v, T[v]) = {}
    <3>1. \A x, y \in H : x # y => Ring(x, S[x]) \intersect Ring(y, S[y]) = {}
      BY DEF Subs
    <3> QED BY <1>2, <1>6, <1>7, <2>2, <3>1
  <2>3. ASSUME NEW u \in Tasks, u \notin InStages(G, T), u \notin ToSet(A) PROVE Chain(l, u, <<>>)
    BY <1>8, <2>3 DEF Subs
  <2> QED BY <1>1, <1>5, <2>1, <2>2, <2>3 DEF Subs
<1>10. T[t] = <<>> /\ \A u \in H : T[u] = S[u]
  BY <1>5, <1>7
<1>11. Begun(H, S, G, T, t)
  BY <1>6, <1>8, <1>10 DEF Begun
<1> QED BY <1>3, <1>9, <1>11

(* A task that is in no list is added to the sub tasks of m.               *)
LEMMA SubIn ==
    ASSUME NEW l, NEW H, NEW S, NEW A, Subs(l, H, S, A), NEW m \in H,
           NEW t \in Tasks, t \notin InStages(H, S), t \notin ToSet(A)
    PROVE  \E T : Subs(mthpc_list_add_tail(l, t, m), H, T, A) /\ Gained(H, S, T, m, {t}, 1)
<1> DEFINE s == S[m]
           t1 == Append(s, t)
           T == [S EXCEPT ![m] = t1]
           r == mthpc_list_add_tail(l, t, m)
<1>1. /\ m \in Tasks /\ m \in SNodes /\ s \in Seq(Tasks) /\ s \in Seq(SNodes)
      /\ Ring(m, s) = {m} \union ToSet(s) /\ ADD \notin Ring(m, s) /\ Chain(l, m, s)
  BY SubsFacts
<1>2. l \in Memory(SNodes) /\ H \subseteq Tasks /\ S \in [Tasks -> Seq(Tasks)] /\ A \in Seq(Tasks)
  BY DEF Subs
<1>3. t \in SNodes /\ \A u \in H : t \notin Ring(u, S[u])
  BY NodeSets DEF InStages
<1>4. t \notin Ring(m, s)
  BY <1>3
<1> HIDE DEF s
<1>5. r \in Memory(SNodes) /\ Chain(r, m, t1) /\ SameAt(l, r, SNodes \ (Ring(m, s) \union {t}))
  BY <1>1, <1>2, <1>3, <1>4, ListAddTail
<1>6. t1 \in Seq(Tasks) /\ Len(t1) = Len(s) + 1 /\ ToSet(t1) = ToSet(s) \union {t}
  BY <1>1, AddedLast
<1> HIDE DEF t1, r
<1>7. /\ T \in [Tasks -> Seq(Tasks)] /\ T[m] = t1 /\ \A u \in Tasks : u # m => T[u] = S[u]
  BY <1>1, <1>2, <1>6
<1> HIDE DEF T
<1>8. Ring(m, T[m]) = Ring(m, s) \union {t}
  BY <1>6, <1>7 DEF Ring
<1>9. \A u \in H : u # m => /\ T[u] = S[u] /\ Ring(u, T[u]) = Ring(u, S[u])
                            /\ Ring(u, S[u]) \intersect Ring(m, s) = {}
  BY <1>2, <1>7 DEF Subs, s
<1>10. InStages(H, T) = InStages(H, S) \union {t}
  <2>1. \A y : y \in InStages(H, T) <=> \E u \in H : y \in Ring(u, T[u])
    BY DEF InStages
  <2>2. \A y : y \in InStages(H, S) <=> \E u \in H : y \in Ring(u, S[u])
    BY DEF InStages
  <2> QED BY <1>8, <1>9, <2>1, <2>2 DEF s
<1>11. Subs(r, H, T, A)
  <2>1. Chain(r, ADD, A)
    <3>1. Ring(ADD, A) \intersect Ring(m, s) = {} /\ Ring(ADD, A) = {ADD} \union ToSet(A)
      BY SubsFacts DEF s
    <3>2. Ring(ADD, A) \intersect (Ring(m, s) \union {t}) = {}
      BY <3>1, NodeSets
    <3> QED BY <1>5, <3>2, SubsFrame
  <2>2. ASSUME NEW u \in H PROVE Chain(r, u, T[u]) /\ Ring(u, T[u]) \intersect ToSet(A) = {}
    <3>1. Ring(u, S[u]) \intersect ToSet(A) = {}
      BY DEF Subs
    <3>2. CASE u = m
      BY <1>5, <1>7, <1>8, <3>1, <3>2 DEF s
    <3>3. CASE u # m
      <4>1. Ring(u, S[u]) \intersect (Ring(m, s) \union {t}) = {}
        BY <1>3, <1>9, <3>3
      <4>2. Chain(r, u, S[u])
        BY <1>5, <4>1, SubsFrame
      <4> QED BY <1>9, <3>1, <3>3, <4>2
    <3> QED BY <3>2, <3>3
  <2>3. ASSUME NEW u \in H, NEW v \in H, u # v PROVE Ring(u, T[u]) \intersect Ring(v, T[v]) = {}
    <3>1. Ring(u, S[u]) \intersect Ring(v, S[v]) = {} /\ t \notin Ring(u, S[u]) /\ t \notin Ring(v, S[v])
      BY <1>3, <2>3 DEF Subs
    <3> QED BY <1>8, <1>9, <2>3, <3>1 DEF s
  <2>4. ASSUME NEW u \in Tasks, u \notin InStages(H, T), u \notin ToSet(A) PROVE Chain(r, u, <<>>)
    <3>1. u \notin InStages(H, S) /\ u # t
      BY <1>10, <2>4
    <3>2. u \notin Ring(m, s) \union {t}
      BY <3>1 DEF InStages, s
    <3> QED BY <1>5, <2>4, <3>1, <3>2, SubsFrame
  <2> QED BY <1>2, <1>5, <1>7, <2>1, <2>2, <2>3, <2>4 DEF Subs
<1>12. Len(T[m]) = Len(s) + 1
  BY <1>6, <1>7
<1>13. \A u \in H \ {m} : T[u] = S[u]
  BY <1>9
<1>14. Gained(H, S, T, m, {t}, 1)
  BY <1>8, <1>10, <1>12, <1>13 DEF Gained, s
<1> QED BY <1>11, <1>14 DEF r

(* adding_list is spliced into the sub tasks of m, before or after them,   *)
(* and goes out of scope.                                                  *)
LEMMA SplicedIn ==
    ASSUME NEW l, NEW H, NEW S, NEW A, Subs(l, H, S, A), NEW m \in H, A # <<>>,
           NEW q, q = mthpc_list_splice_tail(l, ADD, m) \/ q = mthpc_list_splice(l, ADD, m)
    PROVE  \E T : Subs(mthpc_list_init(q, ADD), H, T, <<>>) /\ Gained(H, S, T, m, ToSet(A), Len(A))
<1> DEFINE s == S[m]
           r == mthpc_list_init(q, ADD)
           N == Ring(m, s) \union Ring(ADD, A)
<1>1. /\ m \in Tasks /\ m \in SNodes /\ s \in Seq(Tasks) /\ s \in Seq(SNodes)
      /\ Ring(m, s) = {m} \union ToSet(s) /\ ADD \notin Ring(m, s) /\ Chain(l, m, s)
      /\ Ring(m, s) \intersect Ring(ADD, A) = {}
      /\ Ring(m, s) \subseteq Tasks
  BY SubsFacts
<1>2. l \in Memory(SNodes) /\ H \subseteq Tasks /\ S \in [Tasks -> Seq(Tasks)] /\ A \in Seq(Tasks)
      /\ Chain(l, ADD, A)
  BY DEF Subs
<1>3. A \in Seq(SNodes) /\ Ring(ADD, A) = {ADD} \union ToSet(A) /\ ToSet(A) \subseteq Tasks
  BY SubsFacts
<1>3a. ADD \in SNodes /\ ADD \notin Tasks
  BY NodeSets
<1> HIDE DEF s
<1>4. PICK t1 : /\ q \in Memory(SNodes) /\ Chain(q, m, t1) /\ SameAt(l, q, SNodes \ N)
                /\ t1 \in Seq(Tasks) /\ Len(t1) = Len(s) + Len(A) /\ ToSet(t1) = ToSet(s) \union ToSet(A)
  <2>1. CASE q = mthpc_list_splice_tail(l, ADD, m)
    <3>1. /\ q \in Memory(SNodes) /\ Chain(q, m, s \o A)
          /\ SameAt(l, q, SNodes \ (Ring(m, s) \union Ring(ADD, A)))
      BY <1>1, <1>2, <1>3, <1>3a, <2>1, ListSpliceTail, Zenon
    <3>2. /\ s \o A \in Seq(Tasks) /\ Len(s \o A) = Len(s) + Len(A) 
          /\ ToSet(s \o A) = ToSet(s) \union ToSet(A)
      BY <1>1, <1>2, Joined
    <3> QED BY <3>1, <3>2
  <2>2. CASE q = mthpc_list_splice(l, ADD, m)
    <3>1. /\ q \in Memory(SNodes) /\ Chain(q, m, A \o s)
          /\ SameAt(l, q, SNodes \ (Ring(m, s) \union Ring(ADD, A)))
      BY <1>1, <1>2, <1>3, <1>3a, <2>2, ListSplice, Zenon
    <3>2. A \o s \in Seq(Tasks) /\ Len(A \o s) = Len(A) + Len(s) /\ ToSet(A \o s) = ToSet(s) \union ToSet(A)
      BY <1>1, <1>2, Joined
    <3>3. Len(s) \in Nat /\ Len(A) \in Nat
      BY <1>1, <1>2, LenProperties
    <3>4. Len(A \o s) = Len(s) + Len(A)
      BY <3>2, <3>3
    <3> DEFINE t1 == A \o s
    <3>5. /\ q \in Memory(SNodes) /\ Chain(q, m, t1) /\ SameAt(l, q, SNodes \ N)
          /\ t1 \in Seq(Tasks) /\ Len(t1) = Len(s) + Len(A) /\ ToSet(t1) = ToSet(s) \union ToSet(A)
      BY <3>1, <3>2, <3>4
    <3> QED BY <3>5
  <2> QED BY <2>1, <2>2
<1> DEFINE T == [S EXCEPT ![m] = t1]
<1>5. t1 \in Seq(Tasks) /\ Len(t1) = Len(s) + Len(A) /\ ToSet(t1) = ToSet(s) \union ToSet(A)
  BY <1>4
<1>6. t1 \in Seq(SNodes) /\ Ring(m, t1) = Ring(m, s) \union ToSet(A)
  BY <1>1, <1>5, NodeSets DEF Ring
<1>7. /\ r \in Memory(SNodes)
      /\ \A n \in SNodes : r.next[n] = (IF n = ADD THEN ADD ELSE q.next[n])
      /\ \A n \in SNodes : r.prev[n] = (IF n = ADD THEN ADD ELSE q.prev[n])
  BY <1>3a, <1>4, InitPointers
<1> HIDE DEF r
<1>8. SameAt(q, r, SNodes \ {ADD})
  BY <1>7 DEF SameAt
<1>9. Chain(r, m, t1)
  <2>1. Ring(m, t1) \subseteq SNodes \ {ADD}
    BY <1>1, <1>3, <1>3a, <1>6, NodeSets
  <2>2. SameAt(q, r, Ring(m, t1))
    BY <1>8, <2>1 DEF SameAt
  <2> QED BY <1>1, <1>4, <1>6, <2>2, Untouched
<1>10. Chain(r, ADD, <<>>)
  BY <1>3a, <1>7, EmptyChain
<1>11. SameAt(l, r, SNodes \ N)
  <2>1. ADD \in N
    BY <1>3
  <2> HIDE DEF N
  <2> QED BY <1>4, <1>8, <2>1 DEF SameAt
<1>12. /\ T \in [Tasks -> Seq(Tasks)] /\ T[m] = t1 /\ \A u \in Tasks : u # m => T[u] = S[u]
  BY <1>1, <1>2, <1>5
<1> HIDE DEF T
<1>13. Ring(m, T[m]) = Ring(m, s) \union ToSet(A)
  BY <1>6, <1>12
<1>14. \A u \in H : u # m => /\ T[u] = S[u] /\ Ring(u, T[u]) = Ring(u, S[u])
                             /\ Ring(u, S[u]) \intersect Ring(m, s) = {}
                             /\ Ring(u, S[u]) \intersect Ring(ADD, A) = {}
  <2>1. \A u \in H : Ring(u, S[u]) \intersect Ring(ADD, A) = {}
    BY SubsFacts
  <2> QED BY <1>2, <1>12, <2>1 DEF Subs, s
<1>15. InStages(H, T) = InStages(H, S) \union ToSet(A)
  <2>1. \A y : y \in InStages(H, T) <=> \E u \in H : y \in Ring(u, T[u])
    BY DEF InStages
  <2>2. \A y : y \in InStages(H, S) <=> \E u \in H : y \in Ring(u, S[u])
    BY DEF InStages
  <2> QED BY <1>13, <1>14, <2>1, <2>2 DEF s
<1>16. Subs(r, H, T, <<>>)
  <2>2. ASSUME NEW u \in H PROVE Chain(r, u, T[u]) /\ Ring(u, T[u]) \intersect ToSet(<<>>) = {}
    <3>1. CASE u = m
      BY <1>9, <1>12, <3>1, ShortLists
    <3>2. CASE u # m
      <4>1. Ring(u, S[u]) \intersect N = {}
        BY <1>14, <3>2
      <4>2. Chain(r, u, S[u])
        BY <1>11, <4>1, SubsFrame
      <4> QED BY <1>14, <3>2, <4>2, ShortLists
    <3> QED BY <3>1, <3>2
  <2>3. ASSUME NEW u \in H, NEW v \in H, u # v PROVE Ring(u, T[u]) \intersect Ring(v, T[v]) = {}
    <3>1. Ring(u, S[u]) \intersect Ring(v, S[v]) = {}
      BY <2>3 DEF Subs
    <3>2. Ring(u, S[u]) \intersect ToSet(A) = {} /\ Ring(v, S[v]) \intersect ToSet(A) = {}
      BY DEF Subs
    <3> QED BY <1>13, <1>14, <2>3, <3>1, <3>2 DEF s
  <2>4. ASSUME NEW u \in Tasks, u \notin InStages(H, T) PROVE Chain(r, u, <<>>)
    <3>1. u \notin InStages(H, S) /\ u \notin ToSet(A)
      BY <1>15, <2>4
    <3>2. u \notin N
      <4>1. u \notin Ring(m, s)
        BY <3>1 DEF InStages, s
      <4> QED BY <1>3, <1>3a, <3>1, <4>1
    <3> QED BY <1>11, <3>1, <3>2, SubsFrame
  <2>5. <<>> \in Seq(Tasks)
    OBVIOUS
  <2> QED BY <1>2, <1>7, <1>10, <1>12, <2>2, <2>3, <2>4, <2>5 DEF Subs
<1>17. Len(T[m]) = Len(s) + Len(A)
  BY <1>5, <1>12
<1>18. \A u \in H \ {m} : T[u] = S[u]
  BY <1>14
<1>19. Gained(H, S, T, m, ToSet(A), Len(A))
  BY <1>13, <1>15, <1>17, <1>18 DEF Gained, s
<1> QED BY <1>16, <1>19 DEF r

(* ADD is initialised while its list is empty.                             *)
LEMMA AddInit ==
    ASSUME NEW l, NEW H, NEW S, Subs(l, H, S, <<>>)
    PROVE  Subs(mthpc_list_init(l, ADD), H, S, <<>>)
<1> DEFINE r == mthpc_list_init(l, ADD)
           A == <<>>
<1>1. /\ l \in Memory(SNodes) /\ H \subseteq Tasks /\ S \in [Tasks -> Seq(Tasks)] /\ A \in Seq(Tasks)
      /\ \A t \in H : Ring(t, S[t]) \intersect ToSet(A) = {}
      /\ \A t, u \in H : t # u => Ring(t, S[t]) \intersect Ring(u, S[u]) = {}
  BY DEF Subs
<1>2. ADD \in SNodes /\ ADD \notin Tasks
  BY NodeSets
<1>3. /\ r \in Memory(SNodes)
      /\ \A n \in SNodes : r.next[n] = (IF n = ADD THEN ADD ELSE l.next[n])
      /\ \A n \in SNodes : r.prev[n] = (IF n = ADD THEN ADD ELSE l.prev[n])
  BY <1>1, <1>2, InitPointers
<1> HIDE DEF r
<1>4. Chain(r, ADD, A)
  BY <1>2, <1>3, EmptyChain
<1>5. SameAt(l, r, SNodes \ {ADD})
  BY <1>3 DEF SameAt
<1> DEFINE N == {ADD}
<1>5a. SameAt(l, r, SNodes \ N) /\ Subs(l, H, S, A)
  BY <1>5
<1>6. ASSUME NEW t \in H PROVE Chain(r, t, S[t])
  <2>1. Ring(t, S[t]) \intersect N = {}
    BY SubsFacts
  <2> HIDE DEF N, A
  <2> QED BY <1>5a, <2>1, SubsFrame
<1>7. ASSUME NEW t \in Tasks, t \notin InStages(H, S), t \notin ToSet(A) PROVE Chain(r, t, <<>>)
  <2>1. t \notin N
    BY <1>2
  <2> HIDE DEF N, A
  <2> QED BY <1>5a, <1>7, <2>1, SubsFrame
<1> HIDE DEF A
<1>8. Subs(r, H, S, A)
  BY <1>1, <1>3, <1>4, <1>6, <1>7 DEF Subs
<1> QED BY <1>8 DEF r, A

(* The only task of adding_list is taken out of it.                        *)
LEMMA OutOfAdding ==
    ASSUME NEW l, NEW H, NEW S, NEW t \in Tasks, Subs(l, H, S, <<t>>)
    PROVE  Subs(mthpc_list_del(l, t), H, S, <<>>) /\ t \notin InStages(H, S)
<1> DEFINE A == <<t>>
           r == mthpc_list_del(l, t)
<1>1. /\ l \in Memory(SNodes) /\ H \subseteq Tasks /\ S \in [Tasks -> Seq(Tasks)] /\ A \in Seq(Tasks)
      /\ Chain(l, ADD, A)
      /\ \A u, v \in H : u # v => Ring(u, S[u]) \intersect Ring(v, S[v]) = {}
  BY DEF Subs
<1>2. /\ ADD \in SNodes /\ ADD \notin Tasks /\ A \in Seq(SNodes) /\ ToSet(A) = {t}
      /\ Ring(ADD, A) = {ADD, t} /\ Len(A) = 1 /\ A[1] = t
  BY NodeSets, ShortLists DEF Ring
<1>a. Subs(l, H, S, A)
  OBVIOUS
<1> HIDE DEF A
<1>3. RemoveAt(A, 1) = <<>>
  <2>0. 1 \in 1..Len(A)
    BY <1>2
  <2>1. RemoveAt(A, 1) \in Seq(SNodes) /\ Len(RemoveAt(A, 1)) = Len(A) - 1
    BY <1>2, <2>0, Removed
  <2> QED BY <1>2, <2>1, EmptySeq
<1>4. /\ r \in Memory(SNodes) /\ Chain(r, ADD, <<>>) /\ Chain(r, t, <<>>)
      /\ SameAt(l, r, SNodes \ Ring(ADD, A))
  <2>1. 1 \in 1..Len(A)
    BY <1>2
  <2>2. LET g == mthpc_list_del(l, A[1]) IN
        /\ g \in Memory(SNodes) /\ Chain(g, ADD, RemoveAt(A, 1)) /\ Chain(g, A[1], <<>>)
        /\ SameAt(l, g, SNodes \ Ring(ADD, A))
    BY <1>1, <1>2, <2>1, ListDel
  <2> QED BY <1>2, <1>3, <2>2
<1> HIDE DEF r
<1>5. t \notin InStages(H, S)
  BY <1>2, <1>a, SubsFacts
<1>6. ASSUME NEW u \in H PROVE Chain(r, u, S[u])
  <2>1. Ring(u, S[u]) \intersect Ring(ADD, A) = {}
    BY <1>a, SubsFacts
  <2> QED BY <1>4, <1>a, <2>1, SubsFrame
<1>7. ASSUME NEW u \in Tasks, u \notin InStages(H, S) PROVE Chain(r, u, <<>>)
  <2>1. CASE u = t
    BY <1>4, <2>1
  <2>2. CASE u # t
    <3>1. u \notin ToSet(A) /\ u \notin Ring(ADD, A)
      BY <1>2, <2>2
    <3> QED BY <1>4, <1>7, <1>a, <3>1, SubsFrame
  <2> QED BY <2>1, <2>2
<1>8. Subs(r, H, S, <<>>)
  <2>1. <<>> \in Seq(Tasks) /\ ToSet(<<>>) = {}
    BY ShortLists
  <2> QED BY <1>1, <1>4, <1>6, <1>7, <2>1 DEF Subs
<1> QED BY <1>5, <1>8 DEF r
-----------------------------------------------------------------------------
(* The plan in the heap: the main tasks M in order, the sub tasks S of     *)
(* each, the tasks A on adding_list, and nr_sub_task of every task.        *)

IsHeap(h) ==
    /\ DOMAIN h = {"list_node", "sub_list", "is_sub", "nr", "main"}
    /\ h.list_node \in Memory(LNodes) /\ h.sub_list \in Memory(SNodes)
    /\ h.is_sub \in [Tasks -> BOOLEAN] /\ h.nr \in [Tasks -> Int]
    /\ h.main \in [Tasks -> Tasks \union {NULL}]

\* The tasks that are no main tasks are linked to themselves.
Aside(l, M) == \A n \in Tasks \ ToSet(M) : Chain(l, n, <<>>)

Planned(h, M, S, A) ==
    /\ IsHeap(h) /\ M \in Seq(Tasks)
    /\ Chain(h.list_node, HEAD, M) /\ Aside(h.list_node, M)
    /\ Subs(h.sub_list, ToSet(M), S, A)
    /\ \A t \in Tasks : h.nr[t] = IF t \in ToSet(M) THEN Len(S[t]) + 1 ELSE 1

StageAt(M, S, i) == Ring(M[i], S[M[i]])

\* x is in an earlier stage than y.
Before(M, S, x, y) ==
    \E i, j \in 1..Len(M) : i < j /\ x \in StageAt(M, S, i) /\ y \in StageAt(M, S, j)

\* UpToDate() of a plan.
AgreesAt(h, M, S, t) ==
    IF h.is_sub[t] THEN h.main[t] \in ToSet(M) /\ t \in ToSet(S[h.main[t]]) ELSE t \in ToSet(M)

\* The plan (N, T, B) in g is that of h without t, which is on adding_list.
Without(h, M, S, A, g, N, T, B, t) ==
    /\ Planned(g, N, T, B)
    /\ ToSet(B) = ToSet(A) \union {t} /\ Len(B) = Len(A) + 1
    /\ InStages(ToSet(N), T) = InStages(ToSet(M), S) \ {t}
    /\ \A x, y \in Tasks \ {t} : Before(M, S, x, y) => Before(N, T, x, y)
    /\ \A m \in ToSet(M) \ {t} : m \in ToSet(N) /\ Ring(m, T[m]) = Ring(m, S[m]) \ {t}
    /\ \A u \in Tasks \ {t} : g.is_sub[u] = h.is_sub[u] /\ g.main[u] = h.main[u]

(* A task that is no main task now is linked as it was, or to itself.      *)
LEMMA AsideKept ==
    ASSUME NEW l, NEW r, NEW M, NEW N, Aside(l, M),
           \A n \in Tasks \ ToSet(N) : \/ Chain(r, n, <<>>)
                                       \/ n \notin ToSet(M) /\ SameAt(l, r, {n})
    PROVE  Aside(r, N)
<1>1. ASSUME NEW n \in Tasks \ ToSet(N), n \notin ToSet(M), SameAt(l, r, {n}) PROVE Chain(r, n, <<>>)
  <2>1. l.next[n] = n /\ l.prev[n] = n
    BY <1>1, EmptyChain DEF Aside
  <2>2. r.next[n] = n /\ r.prev[n] = n
    BY <1>1, <2>1 DEF SameAt
  <2> QED BY <2>2, EmptyChain
<1> QED BY <1>1 DEF Aside

(* What Planned says, in the form the proofs use.                          *)
LEMMA PlannedFacts ==
    ASSUME NEW h, NEW M, NEW S, NEW A, Planned(h, M, S, A)
    PROVE  /\ IsHeap(h) /\ M \in Seq(Tasks) /\ M \in Seq(LNodes) /\ Len(M) \in Nat
           /\ Chain(h.list_node, HEAD, M) /\ Subs(h.sub_list, ToSet(M), S, A) /\ Aside(h.list_node, M)
           /\ IsInjective(M) /\ ToSet(M) \subseteq Tasks
           /\ \A x : x \in ToSet(M) <=> \E i \in 1..Len(M) : M[i] = x
           /\ \A i, j \in 1..Len(M) : M[i] = M[j] => i = j
           /\ \A i \in 1..Len(M) : M[i] \in ToSet(M) /\ M[i] \in Tasks
           /\ Ring(HEAD, M) = {HEAD} \union ToSet(M)
           /\ \A t \in Tasks : h.nr[t] = IF t \in ToSet(M) THEN Len(S[t]) + 1 ELSE 1
           /\ S \in [Tasks -> Seq(Tasks)] /\ A \in Seq(Tasks)
<1>1. /\ IsHeap(h) /\ M \in Seq(Tasks) /\ Chain(h.list_node, HEAD, M) /\ Subs(h.sub_list, ToSet(M), S, A)
      /\ \A t \in Tasks : h.nr[t] = IF t \in ToSet(M) THEN Len(S[t]) + 1 ELSE 1
      /\ Aside(h.list_node, M)
  BY DEF Planned
<1>2. M \in Seq(LNodes)
  BY <1>1, NodeSets
<1>3. IsInjective(M)
  BY <1>1 DEF Chain
<1>4. Len(M) \in Nat
  BY <1>1, LenProperties
<1>5. ToSet(M) \subseteq Tasks /\ \A x : x \in ToSet(M) <=> \E i \in 1..Len(M) : M[i] = x
  BY <1>1, InList
<1>6. \A i, j \in 1..Len(M) : M[i] = M[j] => i = j
  BY <1>1, <1>3, Injective
<1>7. \A i \in 1..Len(M) : M[i] \in ToSet(M) /\ M[i] \in Tasks
  BY <1>5
<1>8. Ring(HEAD, M) = {HEAD} \union ToSet(M)
  BY DEF Ring
<1>9. S \in [Tasks -> Seq(Tasks)] /\ A \in Seq(Tasks)
  BY <1>1 DEF Subs
<1> QED BY <1>1, <1>2, <1>3, <1>4, <1>5, <1>6, <1>7, <1>8, <1>9

(* mthpc_taskflow_rlist_del() of a sub task.                               *)
LEMMA SubTaskDeleted ==
    ASSUME NEW h, NEW M, NEW S, NEW A, Planned(h, M, S, A), NEW t \in Tasks,
           h.main[t] \in ToSet(M), t \in ToSet(S[h.main[t]])
    PROVE  \E T, B : Without(h, M, S, A, DelSubTask(h, t), M, T, B, t)
<1> DEFINE m == h.main[t]
           g == DelSubTask(h, t)
           l == h.sub_list
<1>1. /\ IsHeap(h) /\ M \in Seq(Tasks) /\ Len(M) \in Nat
      /\ Chain(h.list_node, HEAD, M) /\ Subs(l, ToSet(M), S, A)
      /\ \A i \in 1..Len(M) : M[i] \in ToSet(M) /\ M[i] \in Tasks
      /\ \A u \in Tasks : h.nr[u] = IF u \in ToSet(M) THEN Len(S[u]) + 1 ELSE 1
      /\ S \in [Tasks -> Seq(Tasks)] /\ A \in Seq(Tasks) /\ ToSet(M) \subseteq Tasks
  BY PlannedFacts
<1>2. m \in ToSet(M) /\ m \in Tasks /\ S[m] \in Seq(Tasks) /\ t \in ToSet(S[m]) /\ t # m
  BY <1>1, SubsFacts
<1>f. /\ DOMAIN h = {"list_node", "sub_list", "is_sub", "nr", "main"}
      /\ h.list_node \in Memory(LNodes)
      /\ h.is_sub \in [Tasks -> BOOLEAN] /\ h.nr \in [Tasks -> Int]
      /\ h.main \in [Tasks -> Tasks \union {NULL}]
  BY <1>1 DEF IsHeap
<1> DEFINE l1 == mthpc_list_del(l, t)
           l2 == mthpc_list_add(l1, t, ADD)
<1>3. /\ DOMAIN g = {"list_node", "sub_list", "is_sub", "nr", "main"}
      /\ g.list_node = h.list_node /\ g.sub_list = l2 /\ g.is_sub = h.is_sub
      /\ g.nr = [h.nr EXCEPT ![m] = @ - 1] /\ g.main = [h.main EXCEPT ![t] = NULL]
  BY <1>f DEF DelSubTask
<1>3a. \A u \in Tasks : /\ g.nr[u] = (IF u = m THEN h.nr[m] - 1 ELSE h.nr[u])
                        /\ u # t => g.main[u] = h.main[u]
  BY <1>2, <1>3, <1>f
<1> HIDE DEF m, g, l
<1>4. m \in ToSet(M) /\ t \in ToSet(S[m]) /\ Subs(l, ToSet(M), S, A)
  BY <1>1, <1>2
<1>5a. PICK T : Subs(l1, ToSet(M), T, A) /\ Taken(ToSet(M), S, ToSet(M), T, m, m, t)
  <2>1. m \in ToSet(M)
    BY <1>4
  <2>2. t \in ToSet(S[m])
    BY <1>4
  <2>3. Subs(l, ToSet(M), S, A)
    BY <1>4
  <2> QED BY <2>1, <2>2, <2>3, SubDel
<1> HIDE DEF l1
<1>5. /\ Ring(m, T[m]) = Ring(m, S[m]) \ {t} /\ Len(T[m]) = Len(S[m]) - 1
      /\ \A u \in ToSet(M) : u # m => T[u] = S[u]
      /\ InStages(ToSet(M), T) = InStages(ToSet(M), S) \ {t}
  BY <1>5a DEF Taken, Left
<1> DEFINE B == <<t>> \o A
<1>6. t \notin InStages(ToSet(M), T) /\ t \notin ToSet(A)
  <2>1. t \in InStages(ToSet(M), S)
    BY <1>2 DEF InStages, Ring
  <2> QED BY <1>1, <1>5, <2>1, SubsFacts
<1>7a. Subs(l2, ToSet(M), T, B)
  BY <1>5a, <1>6, ToAdding
<1>7b. ToSet(B) = ToSet(A) \union {t} /\ Len(B) = Len(A) + 1
  BY <1>1, AddedOne
<1>7. Subs(l2, ToSet(M), T, B) /\ ToSet(B) = ToSet(A) \union {t} /\ Len(B) = Len(A) + 1
  BY <1>7a, <1>7b
<1> HIDE DEF l2, B
<1>8. \A u \in ToSet(M) : Ring(u, T[u]) = Ring(u, S[u]) \ {t}
  <2> TAKE u \in ToSet(M)
  <2>1. CASE u = m
    BY <1>5, <2>1
  <2>2. CASE u # m
    <3>1. t \in Ring(m, S[m])
      BY <1>2 DEF Ring
    <3>2. Ring(u, S[u]) \intersect Ring(m, S[m]) = {}
      BY <1>1, <1>2, <2>2 DEF Subs
    <3> QED BY <1>5, <2>2, <3>1, <3>2
  <2> QED BY <2>1, <2>2
<1>9. \A u \in Tasks : g.nr[u] = IF u \in ToSet(M) THEN Len(T[u]) + 1 ELSE 1
  <2> TAKE u \in Tasks
  <2>0. Len(S[m]) \in Nat
    BY <1>2, LenProperties
  <2>1. CASE u = m
    <3>1. h.nr[m] = Len(S[m]) + 1
      BY <1>1, <1>2
    <3>2. g.nr[u] = h.nr[m] - 1 /\ u \in ToSet(M) /\ Len(T[u]) = Len(S[m]) - 1
      BY <1>2, <1>3a, <1>5, <2>1
    <3> QED BY <3>1, <3>2, <2>0
  <2>2. CASE u # m
    <3>1. g.nr[u] = h.nr[u]
      BY <1>3a, <2>2
    <3>2. h.nr[u] = IF u \in ToSet(M) THEN Len(S[u]) + 1 ELSE 1
      BY <1>1
    <3>3. u \in ToSet(M) => T[u] = S[u]
      BY <1>5, <2>2
    <3> QED BY <3>1, <3>2, <3>3
  <2> QED BY <2>1, <2>2
<1>10. IsHeap(g)
  <2>1. l2 \in Memory(SNodes)
    BY <1>7 DEF Subs
  <2>2. [h.nr EXCEPT ![m] = @ - 1] \in [Tasks -> Int]
    BY <1>f, <1>2
  <2>3. [h.main EXCEPT ![t] = NULL] \in [Tasks -> Tasks \union {NULL}]
    BY <1>f
  <2> QED BY <1>3, <1>f, <2>1, <2>2, <2>3 DEF IsHeap
<1>11. Planned(g, M, T, B)
  <2>1. g.list_node = h.list_node /\ g.sub_list = l2
    BY <1>3
  <2>2. Aside(g.list_node, M)
    BY <2>1 DEF Planned
  <2> QED BY <1>1, <1>7, <1>9, <1>10, <2>1, <2>2 DEF Planned
<1>12. ASSUME NEW x \in Tasks \ {t}, NEW y \in Tasks \ {t}, Before(M, S, x, y) PROVE Before(M, T, x, y)
  <2>1. PICK i, j \in 1..Len(M) : i < j /\ x \in StageAt(M, S, i) /\ y \in StageAt(M, S, j)
    BY <1>12 DEF Before
  <2>a. M[i] \in ToSet(M) /\ M[j] \in ToSet(M) /\ x # t /\ y # t
    BY <1>1
  <2>b. /\ Ring(M[i], T[M[i]]) = Ring(M[i], S[M[i]]) \ {t}
        /\ Ring(M[j], T[M[j]]) = Ring(M[j], S[M[j]]) \ {t}
    BY <1>8, <2>a
  <2>2. x \in StageAt(M, T, i) /\ y \in StageAt(M, T, j)
    BY <2>1, <2>a, <2>b DEF StageAt
  <2> QED BY <2>1, <2>2 DEF Before
<1>13. \A u \in Tasks \ {t} : g.is_sub[u] = h.is_sub[u] /\ g.main[u] = h.main[u]
  BY <1>3, <1>3a
<1>14. Without(h, M, S, A, g, M, T, B, t)
  BY <1>5, <1>7, <1>8, <1>11, <1>12, <1>13 DEF Without
<1> QED BY <1>14 DEF g

(* mthpc_taskflow_rlist_del() of a main task without sub tasks.            *)
LEMMA SingleDeleted ==
    ASSUME NEW h, NEW M, NEW S, NEW A, Planned(h, M, S, A), NEW t \in ToSet(M), S[t] = <<>>
    PROVE  \E N, B : Without(h, M, S, A, DelSingle(h, t), N, S, B, t)
<1> DEFINE g == DelSingle(h, t)
           l == h.sub_list
           p == mthpc_list_del(h.list_node, t)
           l2 == mthpc_list_add_tail(l, t, ADD)
<1>1. /\ IsHeap(h) /\ M \in Seq(Tasks) /\ M \in Seq(LNodes) /\ Len(M) \in Nat
      /\ Chain(h.list_node, HEAD, M) /\ Subs(l, ToSet(M), S, A) /\ IsInjective(M)
      /\ \A i \in 1..Len(M) : M[i] \in ToSet(M) /\ M[i] \in Tasks
      /\ \A u \in Tasks : h.nr[u] = IF u \in ToSet(M) THEN Len(S[u]) + 1 ELSE 1
      /\ ToSet(M) \subseteq Tasks /\ A \in Seq(Tasks)
      /\ \A x : x \in ToSet(M) <=> \E i \in 1..Len(M) : M[i] = x
  BY PlannedFacts
<1>f. /\ DOMAIN h = {"list_node", "sub_list", "is_sub", "nr", "main"}
      /\ h.list_node \in Memory(LNodes)
      /\ h.is_sub \in [Tasks -> BOOLEAN] /\ h.nr \in [Tasks -> Int]
      /\ h.main \in [Tasks -> Tasks \union {NULL}]
  BY <1>1 DEF IsHeap
<1>2. /\ DOMAIN g = {"list_node", "sub_list", "is_sub", "nr", "main"}
      /\ g.list_node = p /\ g.sub_list = l2 /\ g.is_sub = h.is_sub
      /\ g.nr = h.nr /\ g.main = h.main
  BY <1>f DEF DelSingle
<1> HIDE DEF g, l
<1>3. PICK k \in 1..Len(M) : M[k] = t
  BY <1>1
<1> DEFINE N == RemoveAt(M, k)
<1>4. /\ p \in Memory(LNodes) /\ Chain(p, HEAD, N)
      /\ Chain(p, t, <<>>) /\ SameAt(h.list_node, p, LNodes \ Ring(HEAD, M))
  BY <1>1, <1>3, <1>f, NodeSets, ListDel
<1>5. /\ N \in Seq(Tasks) /\ Len(N) = Len(M) - 1 /\ ToSet(N) = ToSet(M) \ {t}
      /\ \A i \in 1..(Len(M) - 1) : N[i] = IF i < k THEN M[i] ELSE M[i + 1]
  BY <1>1, <1>3, Removed, RemovedSet
<1> HIDE DEF p, N
<1>s. Aside(p, N)
  <2>1. Aside(h.list_node, M) /\ Ring(HEAD, M) = {HEAD} \union ToSet(M)
    BY PlannedFacts
  <2>2. ASSUME NEW n \in Tasks \ ToSet(N), n # t PROVE n \notin ToSet(M) /\ SameAt(h.list_node, p, {n})
    <3>1. n \notin ToSet(M) /\ n \in LNodes \ Ring(HEAD, M)
      BY <1>5, <2>1, <2>2, NodeSets
    <3> QED BY <1>4, <3>1 DEF SameAt
  <2>3. ASSUME NEW n \in Tasks \ ToSet(N)
        PROVE  Chain(p, n, <<>>) \/ (n \notin ToSet(M) /\ SameAt(h.list_node, p, {n}))
    <3>1. CASE n = t
      BY <1>4, <3>1
    <3>2. CASE n # t
      BY <2>2, <3>2
    <3> QED BY <3>1, <3>2
  <2> QED BY <2>1, <2>3, AsideKept, Zenon
<1>6a. Subs(l, ToSet(N), S, A) /\ Left(ToSet(M), S, ToSet(N), S, t)
  BY <1>1, <1>5, Freed
<1>6. Subs(l, ToSet(N), S, A) /\ InStages(ToSet(N), S) = InStages(ToSet(M), S) \ {t}
  BY <1>6a DEF Left
<1>7. t \in Tasks /\ t \notin InStages(ToSet(N), S) /\ t \notin ToSet(A)
  <2>1. t \in InStages(ToSet(M), S) /\ t \in Tasks
    BY <1>1 DEF InStages, Ring
  <2> QED BY <1>1, <1>6, <2>1, SubsFacts
<1> DEFINE B == Append(A, t)
<1>8a. Subs(l2, ToSet(N), S, B)
  BY <1>6, <1>7, ToAdding
<1>8b. ToSet(B) = ToSet(A) \union {t} /\ Len(B) = Len(A) + 1
  BY <1>1, <1>7, AddedOne
<1>8. Subs(l2, ToSet(N), S, B) /\ ToSet(B) = ToSet(A) \union {t} /\ Len(B) = Len(A) + 1
  BY <1>8a, <1>8b
<1> HIDE DEF l2, B
<1>9. IsHeap(g)
  <2>1. l2 \in Memory(SNodes)
    BY <1>8 DEF Subs
  <2> QED BY <1>2, <1>4, <1>f, <2>1 DEF IsHeap
<1>10. \A u \in Tasks : g.nr[u] = IF u \in ToSet(N) THEN Len(S[u]) + 1 ELSE 1
  <2>1. Len(S[t]) = 0
    OBVIOUS
  <2> QED BY <1>1, <1>2, <1>5, <2>1
<1>11. Planned(g, N, S, B)
  <2>1. g.list_node = p /\ g.sub_list = l2
    BY <1>2
  <2> QED BY <1>4, <1>5, <1>8, <1>9, <1>10, <1>s, <2>1 DEF Planned
<1>12. Ring(t, S[t]) = {t}
  BY ShortLists DEF Ring
<1>13. ASSUME NEW x \in Tasks \ {t}, NEW y \in Tasks \ {t}, Before(M, S, x, y) PROVE Before(N, S, x, y)
  <2>1. PICK i, j \in 1..Len(M) : i < j /\ x \in StageAt(M, S, i) /\ y \in StageAt(M, S, j)
    BY <1>13 DEF Before
  <2>2. i # k /\ j # k
    BY <1>3, <1>12, <2>1 DEF StageAt
  <2> DEFINE f(a) == IF a < k THEN a ELSE a - 1
  <2>3. ASSUME NEW a \in 1..Len(M), a # k PROVE f(a) \in 1..(Len(M) - 1) /\ N[f(a)] = M[a]
    <3>1. CASE a < k
      <4>1. a \in 1..(Len(M) - 1)
        BY <1>1, <3>1
      <4> QED BY <1>5, <3>1, <4>1
    <3>2. CASE ~(a < k)
      <4>1. a - 1 \in 1..(Len(M) - 1) /\ ~(a - 1 < k) /\ (a - 1) + 1 = a
        BY <1>1, <2>3, <3>2
      <4> QED BY <1>5, <3>2, <4>1
    <3> QED BY <3>1, <3>2
  <2>4. f(i) < f(j)
    BY <1>1, <2>1, <2>2
  <2>5. f(i) \in 1..Len(N) /\ f(j) \in 1..Len(N) /\ N[f(i)] = M[i] /\ N[f(j)] = M[j]
    BY <1>5, <2>2, <2>3
  <2> HIDE DEF f
  <2> QED BY <2>1, <2>4, <2>5 DEF Before, StageAt
<1>14. \A m \in ToSet(M) \ {t} : m \in ToSet(N) /\ Ring(m, S[m]) = Ring(m, S[m]) \ {t}
  <2> TAKE m \in ToSet(M) \ {t}
  <2>1. m \in ToSet(N)
    BY <1>5
  <2>2. t \notin Ring(m, S[m])
    BY <1>7, <2>1 DEF InStages
  <2> QED BY <2>1, <2>2
<1>15. \A u \in Tasks \ {t} : g.is_sub[u] = h.is_sub[u] /\ g.main[u] = h.main[u]
  BY <1>2
<1>16. Without(h, M, S, A, g, N, S, B, t)
  BY <1>6, <1>8, <1>11, <1>13, <1>14, <1>15 DEF Without
<1> QED BY <1>16 DEF g

(* mthpc_taskflow_rlist_del() of a main task with sub tasks.               *)
LEMMA MainTaskDeleted ==
    ASSUME NEW h, NEW M, NEW S, NEW A, Planned(h, M, S, A), NEW t \in ToSet(M), S[t] # <<>>
    PROVE  \E N, T, B : Without(h, M, S, A, DelMainTask(h, t), N, T, B, t)
<1> DEFINE g == DelMainTask(h, t)
           l == h.sub_list
           n == l.next[t]
           p == mthpc_list_replace_init(h.list_node, t, n)
           l1 == mthpc_list_del(l, t)
           l2 == mthpc_list_add(l1, t, ADD)
           B == <<t>> \o A
<1>1. /\ IsHeap(h) /\ M \in Seq(Tasks) /\ M \in Seq(LNodes) /\ Len(M) \in Nat
      /\ Chain(h.list_node, HEAD, M) /\ Subs(l, ToSet(M), S, A) /\ IsInjective(M)
      /\ \A i \in 1..Len(M) : M[i] \in ToSet(M) /\ M[i] \in Tasks
      /\ \A i, j \in 1..Len(M) : M[i] = M[j] => i = j
      /\ \A u \in Tasks : h.nr[u] = IF u \in ToSet(M) THEN Len(S[u]) + 1 ELSE 1
      /\ ToSet(M) \subseteq Tasks /\ A \in Seq(Tasks)
      /\ \A x : x \in ToSet(M) <=> \E i \in 1..Len(M) : M[i] = x
      /\ Ring(HEAD, M) = {HEAD} \union ToSet(M)
  BY PlannedFacts
<1>f. /\ DOMAIN h = {"list_node", "sub_list", "is_sub", "nr", "main"}
      /\ h.list_node \in Memory(LNodes)
      /\ h.is_sub \in [Tasks -> BOOLEAN] /\ h.nr \in [Tasks -> Int]
      /\ h.main \in [Tasks -> Tasks \union {NULL}]
  BY <1>1 DEF IsHeap
<1>2. /\ DOMAIN g = {"list_node", "sub_list", "is_sub", "nr", "main"}
      /\ g.list_node = p /\ g.sub_list = l2 /\ g.is_sub = h.is_sub
      /\ g.nr = [h.nr EXCEPT ![n] = h.nr[t] - 1, ![t] = 1] /\ g.main = h.main
  BY <1>f DEF DelMainTask
<1> DEFINE G == (ToSet(M) \ {t}) \union {n}
<1>t. t \in Tasks /\ Subs(l, ToSet(M), S, A)
  BY <1>1
<1> HIDE DEF g, l
<1>3. /\ n \in Tasks /\ n \notin ToSet(M)
      /\ \E T : Subs(l1, G, T, A) /\ Taken(ToSet(M), S, G, T, t, n, t)
  <2>1. G = (ToSet(M) \ {t}) \union {l.next[t]}
    OBVIOUS
  <2>2. Subs(l, ToSet(M), S, A)
    BY <1>t
  <2> HIDE DEF G
  <2> QED BY <2>1, <2>2, HeadDel
<1>4. PICK T : Subs(l1, G, T, A) /\ Taken(ToSet(M), S, G, T, t, n, t)
  BY <1>3
<1>5. /\ Ring(n, T[n]) = Ring(t, S[t]) \ {t} /\ Len(T[n]) = Len(S[t]) - 1
      /\ \A u \in ToSet(M) \ {t} : T[u] = S[u]
      /\ InStages(G, T) = InStages(ToSet(M), S) \ {t}
  BY <1>4 DEF Taken, Left
<1>6. PICK k \in 1..Len(M) : M[k] = t
  BY <1>1
<1> DEFINE N == [M EXCEPT ![k] = n]
<1>7. /\ p \in Memory(LNodes) /\ Chain(p, HEAD, N)
      /\ Chain(p, t, <<>>) /\ SameAt(h.list_node, p, LNodes \ (Ring(HEAD, M) \union {n}))
  <2>1. HEAD \in LNodes /\ n \in LNodes /\ n \notin Ring(HEAD, M)
    BY <1>1, <1>3, NodeSets
  <2> HIDE DEF n
  <2> QED BY <1>1, <1>6, <1>f, <2>1, ListReplaceInit
<1> HIDE DEF n, p, l1
<1>8. /\ N \in Seq(Tasks) /\ Len(N) = Len(M)
      /\ \A i \in 1..Len(M) : N[i] = IF i = k THEN n ELSE M[i]
  BY <1>1, <1>3
<1> HIDE DEF N
<1>9. ToSet(N) = G
  <2>1. \A x : x \in ToSet(N) <=> \E i \in 1..Len(M) : N[i] = x
    BY <1>8, InList
  <2>2. ASSUME NEW x \in ToSet(N) PROVE x \in G
    <3>1. PICK i \in 1..Len(M) : N[i] = x
      BY <2>1
    <3>2. CASE i = k
      BY <1>8, <3>1, <3>2
    <3>3. CASE i # k
      BY <1>1, <1>6, <1>8, <3>1, <3>3
    <3> QED BY <3>2, <3>3
  <2>3. ASSUME NEW x \in G PROVE x \in ToSet(N)
    <3>1. CASE x = n
      BY <1>8, <2>1, <3>1
    <3>2. CASE x # n
      <4>1. PICK i \in 1..Len(M) : M[i] = x
        BY <1>1, <3>2
      <4>2. i # k
        BY <1>6, <3>2, <4>1
      <4> QED BY <1>8, <2>1, <4>1, <4>2
    <3> QED BY <3>1, <3>2
  <2> QED BY <2>2, <2>3
<1>s. Aside(p, N)
  <2>1. Aside(h.list_node, M)
    BY DEF Planned
  <2>2. ASSUME NEW u \in Tasks \ ToSet(N), u # t PROVE u \notin ToSet(M) /\ SameAt(h.list_node, p, {u})
    <3>1. u \notin ToSet(M) /\ u \in LNodes \ (Ring(HEAD, M) \union {n})
      BY <1>1, <1>9, <2>2, NodeSets
    <3> QED BY <1>7, <3>1 DEF SameAt
  <2>3. ASSUME NEW u \in Tasks \ ToSet(N)
        PROVE  Chain(p, u, <<>>) \/ (u \notin ToSet(M) /\ SameAt(h.list_node, p, {u}))
    <3>1. CASE u = t
      BY <1>7, <3>1
    <3>2. CASE u # t
      BY <2>2, <3>2
    <3> QED BY <3>1, <3>2
  <2> QED BY <2>1, <2>3, AsideKept, Zenon
<1>10. t \notin ToSet(A) /\ t \in InStages(ToSet(M), S)
  <2>1. t \in InStages(ToSet(M), S)
    BY DEF InStages, Ring
  <2> QED BY <1>t, <2>1, SubsFacts
<1>11. t \notin InStages(ToSet(N), T) /\ Subs(l1, ToSet(N), T, A)
  BY <1>4, <1>5, <1>9
<1>12a. Subs(l2, ToSet(N), T, B)
  BY <1>t, <1>10, <1>11, ToAdding
<1>12. ToSet(B) = ToSet(A) \union {t} /\ Len(B) = Len(A) + 1
  BY <1>1, <1>t, AddedOne
<1> HIDE DEF l2, B, G
<1>13. t \notin ToSet(N) /\ n \in ToSet(N) /\ n # t /\ \A m \in ToSet(M) \ {t} : m \in ToSet(N) /\ m # n
  BY <1>3, <1>9 DEF G
<1>14. ASSUME NEW m \in ToSet(M) \ {t} PROVE m \in ToSet(N) /\ Ring(m, T[m]) = Ring(m, S[m]) \ {t}
  <2>1. T[m] = S[m] /\ m \in ToSet(M) /\ m # t
    BY <1>5
  <2>2. Ring(m, S[m]) \intersect Ring(t, S[t]) = {} /\ t \in Ring(t, S[t])
    BY <1>t, <2>1 DEF Subs, Ring
  <2> QED BY <1>13, <2>1, <2>2
<1>15. ASSUME NEW u \in Tasks PROVE g.nr[u] = IF u \in ToSet(N) THEN Len(T[u]) + 1 ELSE 1
  <2>0. g.nr[u] = IF u = t THEN 1 ELSE IF u = n THEN h.nr[t] - 1 ELSE h.nr[u]
    BY <1>2, <1>3, <1>f, <1>t
  <2>1. CASE u = t
    BY <1>13, <2>0, <2>1
  <2>2. CASE u = n
    <3>1. h.nr[t] = Len(S[t]) + 1
      BY <1>1
    <3>2. S[t] \in Seq(Tasks)
      BY <1>t, SubsFacts
    <3>3. Len(S[t]) \in Nat
      BY <3>2, LenProperties
    <3> QED BY <1>5, <1>13, <2>0, <2>2, <3>1, <3>3
  <2>3. CASE u # t /\ u # n
    <3>1. u \in ToSet(N) <=> u \in ToSet(M)
      BY <1>9, <2>3 DEF G
    <3>2. u \in ToSet(M) => T[u] = S[u]
      BY <1>5, <2>3
    <3>3. g.nr[u] = h.nr[u]
      BY <2>0, <2>3
    <3> QED BY <1>1, <3>1, <3>2, <3>3
  <2> QED BY <2>1, <2>2, <2>3
<1>16. IsHeap(g)
  <2>1. l2 \in Memory(SNodes)
    BY <1>12a DEF Subs
  <2>2. [h.nr EXCEPT ![n] = h.nr[t] - 1, ![t] = 1] \in [Tasks -> Int]
    BY <1>f, <1>t
  <2> QED BY <1>2, <1>7, <1>f, <2>1, <2>2 DEF IsHeap
<1>17. Planned(g, N, T, B)
  <2>1. g.list_node = p /\ g.sub_list = l2
    BY <1>2
  <2> QED BY <1>7, <1>8, <1>12a, <1>15, <1>16, <1>s, <2>1 DEF Planned
<1>18. ASSUME NEW i \in 1..Len(M) PROVE StageAt(N, T, i) = StageAt(M, S, i) \ {t}
  <2>1. CASE i = k
    BY <1>5, <1>6, <1>8, <2>1 DEF StageAt
  <2>2. CASE i # k
    <3>1. M[i] \in ToSet(M) \ {t} /\ N[i] = M[i]
      BY <1>1, <1>6, <1>8, <2>2
    <3> QED BY <1>14, <3>1 DEF StageAt
  <2> QED BY <2>1, <2>2
<1>19. ASSUME NEW x \in Tasks \ {t}, NEW y \in Tasks \ {t}, Before(M, S, x, y) PROVE Before(N, T, x, y)
  <2>1. PICK i, j \in 1..Len(M) : i < j /\ x \in StageAt(M, S, i) /\ y \in StageAt(M, S, j)
    BY <1>19 DEF Before
  <2>2. x \in StageAt(N, T, i) /\ y \in StageAt(N, T, j)
    BY <1>18, <2>1
  <2> QED BY <1>8, <2>1, <2>2 DEF Before
<1>20. \A u \in Tasks \ {t} : g.is_sub[u] = h.is_sub[u] /\ g.main[u] = h.main[u]
  BY <1>2
<1>21. InStages(ToSet(N), T) = InStages(ToSet(M), S) \ {t}
  BY <1>5, <1>9
<1>22. \A m \in ToSet(M) \ {t} : m \in ToSet(N) /\ Ring(m, T[m]) = Ring(m, S[m]) \ {t}
  BY <1>14
<1>23. \A x, y \in Tasks \ {t} : Before(M, S, x, y) => Before(N, T, x, y)
  BY <1>19
<1>24. Without(h, M, S, A, g, N, T, B, t)
  BY <1>12, <1>17, <1>20, <1>21, <1>22, <1>23 DEF Without
<1> QED BY <1>24 DEF g

(* mthpc_taskflow_rlist_del() of one task.                                 *)
LEMMA FlagSet ==
    ASSUME NEW h, NEW M, NEW S, NEW A, NEW g, NEW N, NEW T, NEW B, NEW t \in Tasks,
           Without(h, M, S, A, g, N, T, B, t)
    PROVE  /\ Without(h, M, S, A, [g EXCEPT !.is_sub[t] = TRUE], N, T, B, t)
           /\ [g EXCEPT !.is_sub[t] = TRUE].is_sub[t]
<1> DEFINE d == [g EXCEPT !.is_sub[t] = TRUE]
<1>1. Planned(g, N, T, B)
  BY DEF Without
<1>2. /\ IsHeap(g) /\ DOMAIN g = {"list_node", "sub_list", "is_sub", "nr", "main"}
      /\ g.is_sub \in [Tasks -> BOOLEAN]
  BY <1>1 DEF Planned, IsHeap
<1>3. /\ DOMAIN d = {"list_node", "sub_list", "is_sub", "nr", "main"}
      /\ d.list_node = g.list_node /\ d.sub_list = g.sub_list /\ d.nr = g.nr /\ d.main = g.main
      /\ d.is_sub = [g.is_sub EXCEPT ![t] = TRUE]
  BY <1>2
<1> HIDE DEF d
<1>4. /\ d.is_sub \in [Tasks -> BOOLEAN] /\ d.is_sub[t]
      /\ \A u \in Tasks \ {t} : d.is_sub[u] = g.is_sub[u]
  BY <1>2, <1>3
<1>5. IsHeap(d)
  BY <1>2, <1>3, <1>4 DEF IsHeap
<1>6. Planned(d, N, T, B)
  BY <1>1, <1>3, <1>5 DEF Planned
<1>7. \A u \in Tasks \ {t} : d.is_sub[u] = h.is_sub[u] /\ d.main[u] = h.main[u]
  BY <1>3, <1>4 DEF Without
<1>8. Without(h, M, S, A, d, N, T, B, t)
  BY <1>6, <1>7 DEF Without
<1> QED BY <1>4, <1>8 DEF d

(* The loop body of mthpc_taskflow_rlist_del(), for any task.              *)
LEMMA TaskDeleted ==
    ASSUME NEW h, NEW M, NEW S, NEW A, Planned(h, M, S, A), NEW t \in Tasks, AgreesAt(h, M, S, t)
    PROVE  /\ \E N, T, B : Without(h, M, S, A, DelTask(h, t), N, T, B, t)
           /\ DelTask(h, t).is_sub[t]
<1>1. \E N, T, B : Without(h, M, S, A, DelFromStage(h, t), N, T, B, t)
  <2>1. CASE h.is_sub[t]
    <3>1. h.main[t] \in ToSet(M) /\ t \in ToSet(S[h.main[t]])
      BY <2>1 DEF AgreesAt
    <3>2. DelFromStage(h, t) = DelSubTask(h, t)
      BY <2>1 DEF DelFromStage
    <3> QED BY <3>1, <3>2, SubTaskDeleted
  <2>2. CASE ~h.is_sub[t]
    <3>1. t \in ToSet(M)
      BY <2>2 DEF AgreesAt
    <3>2. S[t] \in Seq(Tasks) /\ h.nr[t] = Len(S[t]) + 1
      BY <3>1, PlannedFacts
    <3>3. h.nr[t] = 1 <=> S[t] = <<>>
      <4>1. Len(S[t]) \in Nat /\ (S[t] = <<>> <=> Len(S[t]) = 0)
        BY <3>2, LenProperties, EmptySeq
      <4> QED BY <3>2, <4>1
    <3>4. CASE S[t] = <<>>
      <4>1. DelFromStage(h, t) = DelSingle(h, t)
        BY <2>2, <3>3, <3>4 DEF DelFromStage
      <4>2. \E N, B : Without(h, M, S, A, DelSingle(h, t), N, S, B, t)
        BY <3>1, <3>4, SingleDeleted
      <4> QED BY <4>1, <4>2
    <3>5. CASE S[t] # <<>>
      <4>1. DelFromStage(h, t) = DelMainTask(h, t)
        BY <2>2, <3>3, <3>5 DEF DelFromStage
      <4> QED BY <3>1, <3>5, <4>1, MainTaskDeleted
    <3> QED BY <3>4, <3>5
  <2> QED BY <2>1, <2>2
<1>2. PICK N, T, B : Without(h, M, S, A, DelFromStage(h, t), N, T, B, t)
  BY <1>1
<1>3. /\ Without(h, M, S, A, [DelFromStage(h, t) EXCEPT !.is_sub[t] = TRUE], N, T, B, t)
      /\ [DelFromStage(h, t) EXCEPT !.is_sub[t] = TRUE].is_sub[t]
  BY <1>2, FlagSet
<1> QED BY <1>3 DEF DelTask

\* The plan (N, T) in g is that of h without the n tasks X, which are on
\* adding_list as B.
Cleared(h, M, S, g, N, T, B, X, n) ==
    /\ Planned(g, N, T, B) /\ ToSet(B) = X /\ Len(B) = n
    /\ InStages(ToSet(N), T) = InStages(ToSet(M), S) \ X
    /\ \A x, y \in Tasks \ X : Before(M, S, x, y) => Before(N, T, x, y)
    /\ \A m \in ToSet(M) \ X : m \in ToSet(N) /\ Ring(m, T[m]) = Ring(m, S[m]) \ X
    /\ \A u \in Tasks \ X : g.is_sub[u] = h.is_sub[u] /\ g.main[u] = h.main[u]
    /\ \A u \in X : g.is_sub[u]

(* One more task is taken out.                                             *)
LEMMA ClearedOneMore ==
    ASSUME NEW h, NEW M, NEW S, NEW g, NEW N, NEW T, NEW B, NEW X, NEW n,
           Cleared(h, M, S, g, N, T, B, X, n), NEW t \in Tasks, t \notin X, AgreesAt(g, N, T, t)
    PROVE  \E P, U, C : Cleared(h, M, S, DelTask(g, t), P, U, C, X \union {t}, n + 1)
<1> DEFINE d == DelTask(g, t)
           Y == X \union {t}
<1>1. Planned(g, N, T, B) /\ ToSet(B) = X /\ Len(B) = n
  BY DEF Cleared
<1>2. d.is_sub[t]
  BY <1>1, TaskDeleted
<1>3. PICK P, U, C : Without(g, N, T, B, d, P, U, C, t)
  BY <1>1, TaskDeleted
<1> HIDE DEF d
<1>4. /\ Planned(d, P, U, C) /\ ToSet(C) = ToSet(B) \union {t} /\ Len(C) = Len(B) + 1
      /\ InStages(ToSet(P), U) = InStages(ToSet(N), T) \ {t}
      /\ \A x, y \in Tasks \ {t} : Before(N, T, x, y) => Before(P, U, x, y)
      /\ \A m \in ToSet(N) \ {t} : m \in ToSet(P) /\ Ring(m, U[m]) = Ring(m, T[m]) \ {t}
      /\ \A u \in Tasks \ {t} : d.is_sub[u] = g.is_sub[u] /\ d.main[u] = g.main[u]
  BY <1>3 DEF Without
<1>5. /\ InStages(ToSet(N), T) = InStages(ToSet(M), S) \ X
      /\ \A x, y \in Tasks \ X : Before(M, S, x, y) => Before(N, T, x, y)
      /\ \A m \in ToSet(M) \ X : m \in ToSet(N) /\ Ring(m, T[m]) = Ring(m, S[m]) \ X
      /\ \A u \in Tasks \ X : g.is_sub[u] = h.is_sub[u] /\ g.main[u] = h.main[u]
      /\ \A u \in X : g.is_sub[u]
  BY DEF Cleared
<1>6. Planned(d, P, U, C) /\ ToSet(C) = Y /\ Len(C) = n + 1
  BY <1>1, <1>4
<1>7. InStages(ToSet(P), U) = InStages(ToSet(M), S) \ Y
  BY <1>4, <1>5
<1>8. ASSUME NEW x \in Tasks \ Y, NEW y \in Tasks \ Y, Before(M, S, x, y) PROVE Before(P, U, x, y)
  <2>1. x \in Tasks \ X /\ y \in Tasks \ X /\ x \in Tasks \ {t} /\ y \in Tasks \ {t}
    OBVIOUS
  <2> QED BY <1>4, <1>5, <1>8, <2>1
<1>9. ASSUME NEW m \in ToSet(M) \ Y PROVE m \in ToSet(P) /\ Ring(m, U[m]) = Ring(m, S[m]) \ Y
  <2>1. m \in ToSet(M) \ X /\ m # t
    OBVIOUS
  <2>2. m \in ToSet(N) \ {t} /\ Ring(m, T[m]) = Ring(m, S[m]) \ X
    BY <1>5, <2>1
  <2>3. m \in ToSet(P) /\ Ring(m, U[m]) = Ring(m, T[m]) \ {t}
    BY <1>4, <2>2
  <2> QED BY <2>2, <2>3
<1>10. ASSUME NEW u \in Tasks \ Y PROVE d.is_sub[u] = h.is_sub[u] /\ d.main[u] = h.main[u]
  <2>1. u \in Tasks \ X /\ u \in Tasks \ {t}
    OBVIOUS
  <2> QED BY <1>4, <1>5, <2>1
<1>11. X \subseteq Tasks
  <2>1. Subs(g.sub_list, ToSet(N), T, B)
    BY <1>1 DEF Planned
  <2> QED BY <1>1, <2>1, SubsFacts
<1>12. ASSUME NEW u \in Y PROVE d.is_sub[u]
  <2>1. CASE u = t
    BY <1>2, <2>1
  <2>2. CASE u # t
    <3>1. u \in Tasks \ {t} /\ u \in X
      BY <1>11, <2>2
    <3> QED BY <1>4, <1>5, <3>1
  <2> QED BY <2>1, <2>2
<1>13. Cleared(h, M, S, d, P, U, C, Y, n + 1)
  BY <1>6, <1>7, <1>8, <1>9, <1>10, <1>12 DEF Cleared
<1> QED BY <1>13 DEF d

(* A task that stays, and whose main task stays, is where it was.          *)
LEMMA StillAgrees ==
    ASSUME NEW h, NEW M, NEW S, NEW A, Planned(h, M, S, A),
           NEW g, NEW N, NEW T, NEW B, NEW X, NEW n, Cleared(h, M, S, g, N, T, B, X, n),
           NEW u \in Tasks \ X, AgreesAt(h, M, S, u), h.is_sub[u] => h.main[u] \notin X
    PROVE  AgreesAt(g, N, T, u)
<1>1. g.is_sub[u] = h.is_sub[u] /\ g.main[u] = h.main[u]
  BY DEF Cleared
<1>2. \A m \in ToSet(M) \ X : m \in ToSet(N) /\ Ring(m, T[m]) = Ring(m, S[m]) \ X
  BY DEF Cleared
<1>3. CASE h.is_sub[u]
  <2> DEFINE m == h.main[u]
  <2>1. m \in ToSet(M) /\ u \in ToSet(S[m]) /\ m \notin X
    BY <1>3 DEF AgreesAt
  <2>2. Subs(h.sub_list, ToSet(M), S, A)
    BY DEF Planned
  <2>3. m \notin ToSet(S[m])
    BY <2>1, <2>2, SubsFacts
  <2>4. u # m /\ u \in Ring(m, S[m]) \ X
    BY <2>1, <2>3 DEF Ring
  <2>5. m \in ToSet(N) /\ u \in ToSet(T[m])
    BY <1>2, <2>1, <2>4 DEF Ring
  <2> QED BY <1>1, <1>3, <2>5 DEF AgreesAt
<1>4. CASE ~h.is_sub[u]
  <2>1. u \in ToSet(M)
    BY <1>4 DEF AgreesAt
  <2> QED BY <1>1, <1>2, <1>4, <2>1 DEF AgreesAt
<1> QED BY <1>3, <1>4

(* The folds of mthpc_taskflow_rlist_del() over one task and over two.     *)
LEMMA DelOne ==
    ASSUME NEW b, NEW t
    PROVE  FoldLeft(DelTask, b, <<t>>) = DelTask(b, t)
<1> DEFINE step(f) == [s \in SUBSET {1} |-> IF s = {} THEN b ELSE LET x == Max(s) IN DelTask(f[s \ {x}], <<t>>[x])]
           g == [s \in SUBSET {1} |-> IF s = {} THEN b ELSE DelTask(b, t)]
           iter == CHOOSE f : f = step(f)
<1>1. Max({1}) = 1
  BY DEF Max
<1>2. g = step(g)
  <2>0. ASSUME NEW s \in SUBSET {1} PROVE g[s] = step(g)[s]
    <3>0. step(g)[s] = IF s = {} THEN b ELSE DelTask(g[s \ {Max(s)}], <<t>>[Max(s)])
      OBVIOUS
    <3>1. s = {} \/ s = {1}
      OBVIOUS
    <3>2. CASE s = {}
      BY <3>0, <3>2
    <3>3. CASE s = {1}
      <4>1. s \ {Max(s)} = {}
        BY <1>1, <3>3
      <4>2. g[{}] = b /\ g[{1}] = DelTask(b, t)
        OBVIOUS
      <4>3. s # {} /\ <<t>>[Max(s)] = t
        BY <1>1, <3>3
      <4>4. step(g)[s] = DelTask(b, t)
        BY <3>0, <4>1, <4>2, <4>3, Zenon
      <4> QED BY <3>3, <4>2, <4>4
    <3> QED BY <3>1, <3>2, <3>3
  <2>1. DOMAIN g = DOMAIN step(g)
    OBVIOUS
  <2>2. g = [s \in SUBSET {1} |-> step(g)[s]]
    BY <2>0
  <2>3. step(g) = [s \in SUBSET {1} |-> step(g)[s]]
    OBVIOUS
  <2> QED BY <2>2, <2>3
<1>3. iter = step(iter)
  <2> HIDE DEF g, step
  <2> QED BY <1>2, Zenon
<1>4. FoldLeft(DelTask, b, <<t>>) = iter[{1}]
  <2>1. DOMAIN <<t>> = {1}
    OBVIOUS
  <2> HIDE DEF g
  <2> QED BY <2>1 DEF FoldLeft, MapThenFoldSet
<1> HIDE DEF iter
<1>5. step(iter)[{}] = b
  OBVIOUS
<1>6. step(iter)[{1}] = DelTask(iter[{1} \ {1}], t)
  <2>1. step(iter)[{1}] = DelTask(iter[{1} \ {Max({1})}], <<t>>[Max({1})])
    OBVIOUS
  <2>2. <<t>>[1] = t
    OBVIOUS
  <2> QED BY <1>1, <2>1, <2>2, Zenon
<1>7. {1} \ {1} = {}
  OBVIOUS
<1> HIDE DEF step
<1>8. iter[{}] = b /\ iter[{1}] = DelTask(iter[{1} \ {1}], t)
  BY <1>3, <1>5, <1>6, Zenon
<1> QED BY <1>4, <1>7, <1>8

DelBoth(b, t, u) == DelTask(DelTask(b, t), u)

(* The fold over two tasks.                                                *)
LEMMA DelTwo ==
    ASSUME NEW b, NEW t, NEW u
    PROVE  FoldLeft(DelTask, b, <<t, u>>) = DelBoth(b, t, u)
<1> DEFINE D == SUBSET {1, 2}
           step(f) == [s \in SUBSET {1, 2} |->
                          IF s = {} THEN b ELSE LET x == Max(s) IN DelTask(f[s \ {x}], <<t, u>>[x])]
           at(s) == IF s = {} THEN b ELSE IF s = {1} THEN DelTask(b, t)
                    ELSE IF s = {2} THEN DelTask(b, u) ELSE DelTask(DelTask(b, t), u)
           g == [s \in SUBSET {1, 2} |-> at(s)]
           iter == CHOOSE f : f = step(f)
<1>1. Max({1}) = 1 /\ Max({2}) = 2 /\ Max({1, 2}) = 2
  BY DEF Max
<1>2. g = step(g)
  <2>0. ASSUME NEW s \in SUBSET {1, 2} PROVE at(s) = step(g)[s]
    <3>0. step(g)[s] = IF s = {} THEN b ELSE DelTask(g[s \ {Max(s)}], <<t, u>>[Max(s)])
      OBVIOUS
    <3>1. s = {} \/ s = {1} \/ s = {2} \/ s = {1, 2}
      OBVIOUS
    <3>2. CASE s = {}
      BY <3>0, <3>2
    <3>3. CASE s = {1}
      <4>1. s \ {Max(s)} = {}
        BY <1>1, <3>3
      <4>2. g[{}] = b
        OBVIOUS
      <4>3. s # {} /\ <<t, u>>[Max(s)] = t
        BY <1>1, <3>3
      <4>4. step(g)[s] = DelTask(b, t)
        BY <3>0, <4>1, <4>2, <4>3, Zenon
      <4>5. at(s) = DelTask(b, t)
        BY <3>3
      <4> QED BY <4>4, <4>5
    <3>4. CASE s = {2}
      <4>1. s \ {Max(s)} = {}
        BY <1>1, <3>4
      <4>2. g[{}] = b
        OBVIOUS
      <4>3. s # {} /\ <<t, u>>[Max(s)] = u
        BY <1>1, <3>4
      <4>4. step(g)[s] = DelTask(b, u)
        BY <3>0, <4>1, <4>2, <4>3, Zenon
      <4>5. at(s) = DelTask(b, u)
        BY <3>4
      <4> QED BY <4>4, <4>5
    <3>5. CASE s = {1, 2}
      <4>1. s \ {Max(s)} = {1}
        BY <1>1, <3>5
      <4>2. g[{1}] = DelTask(b, t)
        OBVIOUS
      <4>3. s # {} /\ <<t, u>>[Max(s)] = u
        BY <1>1, <3>5
      <4>4. step(g)[s] = DelTask(DelTask(b, t), u)
        BY <3>0, <4>1, <4>2, <4>3, Zenon
      <4>5. at(s) = DelTask(DelTask(b, t), u)
        BY <3>5
      <4> QED BY <4>4, <4>5
    <3> QED BY <3>1, <3>2, <3>3, <3>4, <3>5
  <2> HIDE DEF at
  <2>1. g = [s \in SUBSET {1, 2} |-> step(g)[s]]
    BY <2>0
  <2>2. step(g) = [s \in SUBSET {1, 2} |-> step(g)[s]]
    OBVIOUS
  <2> QED BY <2>1, <2>2
<1>3. iter = step(iter)
  <2> HIDE DEF g, step
  <2> QED BY <1>2, Zenon
<1>4. FoldLeft(DelTask, b, <<t, u>>) = iter[{1, 2}]
  <2>1. DOMAIN <<t, u>> = {1, 2}
    OBVIOUS
  <2> HIDE DEF g
  <2> QED BY <2>1 DEF FoldLeft, MapThenFoldSet
<1> HIDE DEF iter, g
<1>5. step(iter)[{}] = b
  OBVIOUS
<1>6. step(iter)[{1}] = DelTask(iter[{1} \ {1}], t)
  <2>1. step(iter)[{1}] = DelTask(iter[{1} \ {Max({1})}], <<t, u>>[Max({1})])
    OBVIOUS
  <2>2. <<t, u>>[1] = t
    OBVIOUS
  <2> QED BY <1>1, <2>1, <2>2, Zenon
<1>7. step(iter)[{1, 2}] = DelTask(iter[{1, 2} \ {2}], u)
  <2>1. step(iter)[{1, 2}] = DelTask(iter[{1, 2} \ {Max({1, 2})}], <<t, u>>[Max({1, 2})])
    OBVIOUS
  <2>2. <<t, u>>[2] = u
    OBVIOUS
  <2> QED BY <1>1, <2>1, <2>2, Zenon
<1>8. {1} \ {1} = {} /\ {1, 2} \ {2} = {1}
  OBVIOUS
<1> HIDE DEF step
<1>9. iter[{}] = b /\ iter[{1}] = DelTask(iter[{1} \ {1}], t) /\ iter[{1, 2}] = DelTask(iter[{1, 2} \ {2}], u)
  BY <1>3, <1>5, <1>6, <1>7, Zenon
<1> QED BY <1>4, <1>8, <1>9 DEF DelBoth

(* The fold of the loop over new_adding_list with one task.                *)
LEMMA RelinkOne ==
    ASSUME NEW b, NEW t
    PROVE  FoldLeft(Relink, b, <<t>>) = Relink(b, t)
<1> DEFINE step(f) == [s \in SUBSET {1} |-> IF s = {} THEN b ELSE LET x == Max(s) IN Relink(f[s \ {x}], <<t>>[x])]
           g == [s \in SUBSET {1} |-> IF s = {} THEN b ELSE Relink(b, t)]
           iter == CHOOSE f : f = step(f)
<1>1. Max({1}) = 1
  BY DEF Max
<1>2. g = step(g)
  <2>0. ASSUME NEW s \in SUBSET {1} PROVE g[s] = step(g)[s]
    <3>0. step(g)[s] = IF s = {} THEN b ELSE Relink(g[s \ {Max(s)}], <<t>>[Max(s)])
      OBVIOUS
    <3>1. s = {} \/ s = {1}
      OBVIOUS
    <3>2. CASE s = {}
      BY <3>0, <3>2
    <3>3. CASE s = {1}
      <4>1. s \ {Max(s)} = {}
        BY <1>1, <3>3
      <4>2. g[{}] = b /\ g[{1}] = Relink(b, t)
        OBVIOUS
      <4>3. s # {} /\ <<t>>[Max(s)] = t
        BY <1>1, <3>3
      <4>4. step(g)[s] = Relink(b, t)
        BY <3>0, <4>1, <4>2, <4>3, Zenon
      <4> QED BY <3>3, <4>2, <4>4
    <3> QED BY <3>1, <3>2, <3>3
  <2>1. DOMAIN g = DOMAIN step(g)
    OBVIOUS
  <2>2. g = [s \in SUBSET {1} |-> step(g)[s]]
    BY <2>0
  <2>3. step(g) = [s \in SUBSET {1} |-> step(g)[s]]
    OBVIOUS
  <2> QED BY <2>2, <2>3
<1>3. iter = step(iter)
  <2> HIDE DEF g, step
  <2> QED BY <1>2, Zenon
<1>4. FoldLeft(Relink, b, <<t>>) = iter[{1}]
  <2>1. DOMAIN <<t>> = {1}
    OBVIOUS
  <2> HIDE DEF g
  <2> QED BY <2>1 DEF FoldLeft, MapThenFoldSet
<1> HIDE DEF iter
<1>5. step(iter)[{}] = b
  OBVIOUS
<1>6. step(iter)[{1}] = Relink(iter[{1} \ {1}], t)
  <2>1. step(iter)[{1}] = Relink(iter[{1} \ {Max({1})}], <<t>>[Max({1})])
    OBVIOUS
  <2>2. <<t>>[1] = t
    OBVIOUS
  <2> QED BY <1>1, <2>1, <2>2, Zenon
<1>7. {1} \ {1} = {}
  OBVIOUS
<1> HIDE DEF step
<1>8. iter[{}] = b /\ iter[{1}] = Relink(iter[{1} \ {1}], t)
  BY <1>3, <1>5, <1>6, Zenon
<1> QED BY <1>4, <1>7, <1>8

(* mthpc_taskflow_rlist_del(): the tasks it is called with, and no others, *)
(* are out of the plan and on adding_list.                                 *)
LEMMA RlistDel ==
    ASSUME NEW h, NEW M, NEW S, Planned(h, M, S, <<>>), NEW news \in News, IsInjective(news),
           \A u \in ToSet(news) : AgreesAt(h, M, S, u) /\ (h.is_sub[u] => h.main[u] \notin ToSet(news))
    PROVE  \E N, T, B : Cleared(h, M, S, mthpc_taskflow_rlist_del(h, news), N, T, B, ToSet(news), Len(news))
<1> DEFINE b == [h EXCEPT !.sub_list = mthpc_list_init(@, ADD)]
<1>1. /\ IsHeap(h) /\ Subs(h.sub_list, ToSet(M), S, <<>>) /\ M \in Seq(Tasks) /\ Chain(h.list_node, HEAD, M)
      /\ \A t \in Tasks : h.nr[t] = IF t \in ToSet(M) THEN Len(S[t]) + 1 ELSE 1
      /\ Aside(h.list_node, M)
  BY DEF Planned
<1>2. /\ DOMAIN b = {"list_node", "sub_list", "is_sub", "nr", "main"}
      /\ b.list_node = h.list_node /\ b.sub_list = mthpc_list_init(h.sub_list, ADD)
      /\ b.is_sub = h.is_sub /\ b.nr = h.nr /\ b.main = h.main
  BY <1>1 DEF IsHeap
<1>b. mthpc_taskflow_rlist_del(h, news) = FoldLeft(DelTask, b, news)
  BY DEF mthpc_taskflow_rlist_del
<1> HIDE DEF b
<1>3. Subs(b.sub_list, ToSet(M), S, <<>>)
  BY <1>1, <1>2, AddInit
<1>4. IsHeap(b)
  <2>1. b.sub_list \in Memory(SNodes)
    BY <1>3 DEF Subs
  <2> QED BY <1>1, <1>2, <2>1 DEF IsHeap
<1>5. Planned(b, M, S, <<>>)
  BY <1>1, <1>2, <1>3, <1>4 DEF Planned
<1>6. Cleared(h, M, S, b, M, S, <<>>, {}, 0)
  BY <1>2, <1>5, ShortLists DEF Cleared
<1>7. ASSUME NEW u, AgreesAt(h, M, S, u) PROVE AgreesAt(b, M, S, u)
  BY <1>2, <1>7 DEF AgreesAt
<1>8. CASE \E t \in Tasks : news = <<t>>
  <2>1. PICK t \in Tasks : news = <<t>>
    BY <1>8
  <2>2. ToSet(news) = {t} /\ {} \union {t} = {t} /\ Len(news) = 0 + 1
    BY <2>1, ShortLists
  <2>3. AgreesAt(b, M, S, t) /\ t \notin {}
    BY <1>7, <2>2
  <2>4. \E P, U, C : Cleared(h, M, S, DelTask(b, t), P, U, C, {} \union {t}, 0 + 1)
    BY <1>6, <2>3, ClearedOneMore
  <2>5. mthpc_taskflow_rlist_del(h, news) = DelTask(b, t)
    BY <1>b, <2>1, DelOne
  <2> QED BY <2>2, <2>4, <2>5
<1>9. CASE \E t, u \in Tasks : news = <<t, u>>
  <2>1. PICK t, u \in Tasks : news = <<t, u>>
    BY <1>9
  <2>2. news \in Seq(Tasks) /\ Len(news) = 2 /\ news[1] = t /\ news[2] = u
    BY <2>1
  <2>3. \A x : x \in ToSet(news) <=> \E i \in 1..Len(news) : news[i] = x
    BY <2>2, InList
  <2>4. ToSet(news) = {t, u}
    <3>1. ASSUME NEW x PROVE x \in ToSet(news) <=> x = t \/ x = u
      BY <2>2, <2>3
    <3> QED BY <3>1
  <2>5. t # u
    BY <2>2, Injective
  <2>6. AgreesAt(b, M, S, t) /\ t \notin {}
    BY <1>7, <2>4
  <2>7. \E P, U, C : Cleared(h, M, S, DelTask(b, t), P, U, C, {} \union {t}, 0 + 1)
    BY <1>6, <2>6, ClearedOneMore
  <2>8. PICK P, U, C : Cleared(h, M, S, DelTask(b, t), P, U, C, {t}, 1)
    <3>1. {} \union {t} = {t} /\ 0 + 1 = 1
      OBVIOUS
    <3> QED BY <2>7, <3>1
  <2>9. AgreesAt(h, M, S, u) /\ (h.is_sub[u] => h.main[u] \notin {t}) /\ u \in Tasks \ {t}
    BY <2>1, <2>4, <2>5
  <2>10. AgreesAt(DelTask(b, t), P, U, u) /\ u \notin {t}
    BY <2>8, <2>9, StillAgrees
  <2>11. \E Q, V, D : Cleared(h, M, S, DelTask(DelTask(b, t), u), Q, V, D, {t} \union {u}, 1 + 1)
    BY <2>8, <2>10, ClearedOneMore
  <2>12. {t} \union {u} = ToSet(news) /\ Len(news) = 1 + 1
    BY <2>2, <2>4
  <2>13. mthpc_taskflow_rlist_del(h, news) = DelTask(DelTask(b, t), u)
    <3>1. FoldLeft(DelTask, b, <<t, u>>) = DelBoth(b, t, u)
      BY DelTwo
    <3>2. mthpc_taskflow_rlist_del(h, news) = DelBoth(b, t, u)
      BY <1>b, <2>1, <3>1
    <3> QED BY <3>2 DEF DelBoth
  <2> QED BY <2>11, <2>12, <2>13
<1> QED BY <1>8, <1>9 DEF News

\* The heap with other lists.
WithSubs(h, l) == [h EXCEPT !.sub_list = l]
WithNodes(h, l) == [h EXCEPT !.list_node = l]

(* The tasks on adding_list join the stage of m.                           *)
LEMMA JoinsStage ==
    ASSUME NEW g, NEW N, NEW T, NEW B, Planned(g, N, T, B), B # <<>>, NEW m \in ToSet(N),
           NEW q, q = mthpc_list_splice_tail(g.sub_list, ADD, m) \/ q = mthpc_list_splice(g.sub_list, ADD, m),
           NEW f, f = Forget(WithSubs(JoinStage(g, m, Len(B)), q))
    PROVE  /\ \E U : Planned(f, N, U, <<>>) /\ Gained(ToSet(N), T, U, m, ToSet(B), Len(B))
           /\ f.is_sub = g.is_sub
<1> DEFINE j == WithSubs(JoinStage(g, m, Len(B)), q)
           new == ToSet(Walk(g.sub_list, ADD))
           nain == [u \in Tasks |-> IF u \in new THEN m ELSE g.main[u]]
           fields == {"list_node", "sub_list", "is_sub", "nr", "main"}
<1>1. /\ IsHeap(g) /\ Subs(g.sub_list, ToSet(N), T, B) /\ N \in Seq(Tasks) /\ Chain(g.list_node, HEAD, N)
      /\ N \in Seq(LNodes) /\ ToSet(N) \subseteq Tasks /\ Ring(HEAD, N) = {HEAD} \union ToSet(N)
      /\ \A t \in Tasks : g.nr[t] = IF t \in ToSet(N) THEN Len(T[t]) + 1 ELSE 1
      /\ T \in [Tasks -> Seq(Tasks)] /\ B \in Seq(Tasks)
  BY PlannedFacts
<1>2. /\ DOMAIN g = fields /\ g.list_node \in Memory(LNodes) /\ g.is_sub \in [Tasks -> BOOLEAN]
      /\ g.nr \in [Tasks -> Int] /\ g.main \in [Tasks -> Tasks \union {NULL}]
  BY <1>1 DEF IsHeap
<1>m. m \in Tasks /\ Len(B) \in Nat
  BY <1>1, LenProperties
<1>3. /\ DOMAIN j = fields /\ j.list_node = g.list_node /\ j.sub_list = q /\ j.is_sub = g.is_sub
      /\ j.nr = [g.nr EXCEPT ![m] = @ + Len(B)] /\ j.main = nain
  BY <1>2 DEF JoinStage, WithSubs
<1>4. nain \in [Tasks -> Tasks \union {NULL}]
  BY <1>2, <1>m
<1> HIDE DEF j, nain
<1>5. /\ DOMAIN f = fields /\ f.list_node = mthpc_list_init(g.list_node, NEW_ADD)
      /\ f.sub_list = mthpc_list_init(q, ADD) /\ f.is_sub = g.is_sub
      /\ f.nr = [g.nr EXCEPT ![m] = @ + Len(B)] /\ f.main = nain
  BY <1>3 DEF Forget, j
<1>6. PICK U : Subs(mthpc_list_init(q, ADD), ToSet(N), U, <<>>) /\ Gained(ToSet(N), T, U, m, ToSet(B), Len(B))
  BY <1>1, SplicedIn
<1>7. /\ f.list_node \in Memory(LNodes)
      /\ \A n \in LNodes : f.list_node.next[n] = (IF n = NEW_ADD THEN NEW_ADD ELSE g.list_node.next[n])
      /\ \A n \in LNodes : f.list_node.prev[n] = (IF n = NEW_ADD THEN NEW_ADD ELSE g.list_node.prev[n])
  <2>1. NEW_ADD \in LNodes
    BY NodeSets
  <2> QED BY <1>2, <1>5, <2>1, InitPointers
<1>8. Chain(f.list_node, HEAD, N)
  <2>1. NEW_ADD \notin Ring(HEAD, N) /\ Ring(HEAD, N) \subseteq LNodes /\ HEAD \in LNodes
    BY <1>1, NodeSets
  <2>2. SameAt(g.list_node, f.list_node, Ring(HEAD, N))
    BY <1>7, <2>1 DEF SameAt
  <2> QED BY <1>1, <2>1, <2>2, Untouched
<1>s. Aside(f.list_node, N)
  <2>1. ASSUME NEW n \in Tasks \ ToSet(N) PROVE SameAt(g.list_node, f.list_node, {n})
    <3>1. n \in LNodes /\ n # NEW_ADD
      BY NodeSets
    <3> QED BY <1>7, <3>1 DEF SameAt
  <2>2. Aside(g.list_node, N)
    BY PlannedFacts
  <2> QED BY <2>1, <2>2, AsideKept
<1>9. IsHeap(f)
  <2>1. f.sub_list \in Memory(SNodes)
    BY <1>5, <1>6 DEF Subs
  <2>2. [g.nr EXCEPT ![m] = @ + Len(B)] \in [Tasks -> Int]
    BY <1>2, <1>m
  <2> QED BY <1>2, <1>4, <1>5, <1>7, <2>1, <2>2 DEF IsHeap
<1>10. ASSUME NEW t \in Tasks PROVE f.nr[t] = IF t \in ToSet(N) THEN Len(U[t]) + 1 ELSE 1
  <2>1. f.nr[t] = IF t = m THEN g.nr[m] + Len(B) ELSE g.nr[t]
    BY <1>2, <1>5, <1>m
  <2>2. Len(U[m]) = Len(T[m]) + Len(B) /\ \A u \in ToSet(N) \ {m} : U[u] = T[u]
    BY <1>6 DEF Gained
  <2>3. CASE t = m
    <3>1. g.nr[m] = Len(T[m]) + 1 /\ T[m] \in Seq(Tasks)
      BY <1>1, <1>m
    <3>2. Len(T[m]) \in Nat
      BY <3>1, LenProperties
    <3> QED BY <1>m, <2>1, <2>2, <2>3, <3>1, <3>2
  <2>4. CASE t # m
    <3>1. t \in ToSet(N) => U[t] = T[t]
      BY <2>2, <2>4
    <3>2. f.nr[t] = g.nr[t]
      BY <2>1, <2>4
    <3> QED BY <1>1, <3>1, <3>2
  <2> QED BY <2>3, <2>4
<1>11. Planned(f, N, U, <<>>)
  <2>1. Subs(f.sub_list, ToSet(N), U, <<>>)
    BY <1>5, <1>6
  <2> QED BY <1>1, <1>8, <1>9, <1>10, <1>s, <2>1 DEF Planned
<1> QED BY <1>5, <1>6, <1>11

\* x is a main task of a list of its own.
Relinked(g, r, x) ==
    /\ DOMAIN r = {"list_node", "sub_list", "is_sub", "nr", "main"}
    /\ r.list_node = mthpc_list_add_tail(mthpc_list_init(g.list_node, NEW_ADD), x, NEW_ADD)
    /\ r.sub_list = mthpc_list_del(g.sub_list, x)
    /\ r.is_sub = [g.is_sub EXCEPT ![x] = FALSE] /\ r.nr = [g.nr EXCEPT ![x] = 1]
    /\ r.main = g.main

(* The one task on adding_list becomes a main task.                        *)
LEMMA NewMainTask ==
    ASSUME NEW g, NEW N, NEW T, NEW x \in Tasks, Planned(g, N, T, <<x>>)
    PROVE  Relinked(g, RelinkAsMain(g, 1), x)
<1> DEFINE b == [g EXCEPT !.is_sub[x] = FALSE, !.nr[x] = 1, !.list_node = mthpc_list_init(@, NEW_ADD)]
           fields == {"list_node", "sub_list", "is_sub", "nr", "main"}
<1>1. IsHeap(g) /\ Subs(g.sub_list, ToSet(N), T, <<x>>)
  BY DEF Planned
<1>2. DOMAIN g = fields /\ g.sub_list \in Memory(SNodes)
  BY <1>1 DEF IsHeap
<1>3. <<x>> \in Seq(SNodes) /\ Chain(g.sub_list, ADD, <<x>>) /\ ADD \in SNodes /\ IsFiniteSet(SNodes)
  BY <1>1, NodeSets DEF Subs
<1>4. Walk(g.sub_list, ADD) = <<x>>
  BY <1>2, <1>3, WalkIsChain
<1>5. g.sub_list.next[ADD] = x
  <2>1. g.sub_list.next[ADD] = At(ADD, <<x>>, 1)
    BY <1>2, <1>3, Ends
  <2> QED BY <2>1 DEF At
<1>6. /\ DOMAIN b = fields /\ b.list_node = mthpc_list_init(g.list_node, NEW_ADD)
      /\ b.sub_list = g.sub_list /\ b.is_sub = [g.is_sub EXCEPT ![x] = FALSE]
      /\ b.nr = [g.nr EXCEPT ![x] = 1] /\ b.main = g.main
  BY <1>2
<1>7. RelinkAsMain(g, 1) = FoldLeft(Relink, b, <<x>>)
  BY <1>4, <1>5 DEF RelinkAsMain
<1> HIDE DEF b
<1>8. RelinkAsMain(g, 1) = Relink(b, x)
  BY <1>7, RelinkOne
<1> DEFINE r == Relink(b, x)
<1>9. /\ DOMAIN r = fields /\ r.list_node = mthpc_list_add_tail(b.list_node, x, NEW_ADD)
      /\ r.sub_list = mthpc_list_del(b.sub_list, x) /\ r.is_sub = b.is_sub /\ r.nr = b.nr /\ r.main = b.main
  BY <1>6 DEF Relink
<1> HIDE DEF r
<1>10. Relinked(g, r, x)
  BY <1>6, <1>9 DEF Relinked
<1> QED BY <1>8, <1>10 DEF r

\* x is the only task of a list of main tasks of its own, beside that of N.
TwoLists(l, N, x) ==
    /\ l \in Memory(LNodes) /\ Chain(l, HEAD, N) /\ Chain(l, NEW_ADD, <<x>>)
    /\ Ring(HEAD, N) \intersect Ring(NEW_ADD, <<x>>) = {}

(* The one task on adding_list is linked to new_adding_list.               *)
LEMMA NewMainLists ==
    ASSUME NEW g, NEW N, NEW T, NEW x \in Tasks, Planned(g, N, T, <<x>>)
    PROVE  /\ TwoLists(RelinkAsMain(g, 1).list_node, N, x)
           /\ SameAt(g.list_node, RelinkAsMain(g, 1).list_node, Tasks \ {x})
           /\ x \notin ToSet(N)
<1> DEFINE l0 == g.list_node
           l1 == mthpc_list_init(l0, NEW_ADD)
           l2 == mthpc_list_add_tail(l1, x, NEW_ADD)
<1>1. /\ IsHeap(g) /\ Subs(g.sub_list, ToSet(N), T, <<x>>) /\ Chain(l0, HEAD, N)
      /\ N \in Seq(LNodes) /\ ToSet(N) \subseteq Tasks /\ Ring(HEAD, N) = {HEAD} \union ToSet(N)
  BY PlannedFacts
<1>2. /\ l0 \in Memory(LNodes) /\ HEAD \in LNodes /\ NEW_ADD \in LNodes /\ HEAD # NEW_ADD /\ x \in LNodes
      /\ HEAD \notin Tasks /\ NEW_ADD \notin Tasks /\ Tasks \subseteq LNodes
  BY <1>1, NodeSets DEF IsHeap
<1>3. x \notin ToSet(N)
  <2>1. InStages(ToSet(N), T) \intersect ToSet(<<x>>) = {} /\ \A t \in ToSet(N) : t \in Ring(t, T[t])
    BY <1>1, SubsFacts
  <2>2. ToSet(<<x>>) = {x}
    BY ShortLists
  <2> QED BY <2>1, <2>2 DEF InStages
<1> HIDE DEF l0
<1>4. /\ l1 \in Memory(LNodes)
      /\ \A n \in LNodes : l1.next[n] = (IF n = NEW_ADD THEN NEW_ADD ELSE l0.next[n])
      /\ \A n \in LNodes : l1.prev[n] = (IF n = NEW_ADD THEN NEW_ADD ELSE l0.prev[n])
  BY <1>2, InitPointers
<1> HIDE DEF l1
<1>5. Chain(l1, HEAD, N)
  <2>1. NEW_ADD \notin Ring(HEAD, N) /\ Ring(HEAD, N) \subseteq LNodes
    BY <1>1, <1>2
  <2>2. SameAt(l0, l1, Ring(HEAD, N))
    BY <1>4, <2>1 DEF SameAt
  <2> QED BY <1>1, <1>2, <2>2, Untouched
<1>6. Chain(l1, NEW_ADD, <<>>)
  BY <1>2, <1>4, EmptyChain
<1>7. Ring(NEW_ADD, <<>>) = {NEW_ADD} /\ Ring(NEW_ADD, <<x>>) = {NEW_ADD, x} /\ <<>> \in Seq(LNodes)
  BY ShortLists DEF Ring
<1>8. /\ l2 \in Memory(LNodes) /\ Chain(l2, NEW_ADD, Append(<<>>, x))
      /\ SameAt(l1, l2, LNodes \ (Ring(NEW_ADD, <<>>) \union {x}))
  <2>1. x \notin Ring(NEW_ADD, <<>>)
    BY <1>2, <1>7
  <2> QED BY <1>2, <1>4, <1>6, <1>7, <2>1, ListAddTail
<1>9. Append(<<>>, x) = <<x>>
  OBVIOUS
<1> HIDE DEF l2
<1>10. Ring(HEAD, N) \intersect Ring(NEW_ADD, <<x>>) = {}
  BY <1>1, <1>2, <1>3, <1>7
<1>11. Chain(l2, HEAD, N)
  <2>1. Ring(HEAD, N) \subseteq LNodes \ (Ring(NEW_ADD, <<>>) \union {x})
    BY <1>1, <1>2, <1>3, <1>7
  <2>2. SameAt(l1, l2, Ring(HEAD, N))
    BY <1>8, <2>1 DEF SameAt
  <2> QED BY <1>1, <1>2, <1>5, <2>2, Untouched
<1>12. TwoLists(l2, N, x)
  BY <1>8, <1>9, <1>10, <1>11 DEF TwoLists
<1>13. RelinkAsMain(g, 1).list_node = l2
  <2>1. Relinked(g, RelinkAsMain(g, 1), x)
    BY NewMainTask
  <2> QED BY <2>1 DEF Relinked, l0, l1, l2
<1>14. SameAt(l0, l2, Tasks \ {x})
  <2>1. ASSUME NEW n \in Tasks \ {x}
        PROVE  n \in LNodes /\ n # NEW_ADD /\ n \in LNodes \ (Ring(NEW_ADD, <<>>) \union {x})
    BY <1>2, <1>7
  <2> QED BY <1>4, <1>8, <2>1 DEF SameAt
<1> QED BY <1>3, <1>12, <1>13, <1>14 DEF l0

(* Spliced before the first main task, or after the last.                  *)
LEMMA SplicedAtEnd ==
    ASSUME NEW l, NEW N \in Seq(Tasks), NEW x \in Tasks, TwoLists(l, N, x), N # <<>>
    PROVE  /\ LET q == mthpc_list_splice_tail(l, NEW_ADD, N[1]) IN
              /\ q \in Memory(LNodes) /\ Chain(q, HEAD, <<x>> \o N)
              /\ SameAt(l, q, Tasks \ (ToSet(N) \union {x}))
           /\ LET q == mthpc_list_splice(l, NEW_ADD, N[Len(N)]) IN
              /\ q \in Memory(LNodes) /\ Chain(q, HEAD, N \o <<x>>)
              /\ SameAt(l, q, Tasks \ (ToSet(N) \union {x}))
<1>1. /\ l \in Memory(LNodes) /\ Chain(l, HEAD, N) /\ Chain(l, NEW_ADD, <<x>>)
      /\ Ring(HEAD, N) \intersect Ring(NEW_ADD, <<x>>) = {}
  BY DEF TwoLists
<1>2. HEAD \in LNodes /\ NEW_ADD \in LNodes /\ N \in Seq(LNodes) /\ <<x>> \in Seq(LNodes) /\ <<x>> # <<>>
  BY NodeSets
<1>3. Len(N) \in Nat /\ Len(N) # 0
  BY LenProperties, EmptySeq
<1>4. /\ l.next[HEAD] = N[1] /\ l.prev[HEAD] = N[Len(N)]
      /\ l.prev[N[1]] = HEAD /\ l.next[N[Len(N)]] = HEAD
  <2>1. /\ l.next[HEAD] = At(HEAD, N, 1) /\ l.prev[HEAD] = At(HEAD, N, Len(N))
        /\ \A k \in 1..Len(N) : l.next[N[k]] = At(HEAD, N, k + 1) /\ l.prev[N[k]] = At(HEAD, N, k - 1)
    BY <1>1, <1>2, Ends
  <2>2. At(HEAD, N, 1) = N[1] /\ At(HEAD, N, Len(N)) = N[Len(N)]
    BY <1>3 DEF At
  <2>3. At(HEAD, N, 1 - 1) = HEAD /\ At(HEAD, N, Len(N) + 1) = HEAD
    BY <1>3 DEF At
  <2>4. 1 \in 1..Len(N) /\ Len(N) \in 1..Len(N)
    BY <1>3
  <2> QED BY <2>1, <2>2, <2>3, <2>4
<1>5. mthpc_list_splice_tail(l, NEW_ADD, N[1]) = mthpc_list_splice(l, NEW_ADD, HEAD)
  BY <1>4 DEF mthpc_list_splice_tail, mthpc_list_splice
<1>6. mthpc_list_splice(l, NEW_ADD, N[Len(N)]) = mthpc_list_splice_tail(l, NEW_ADD, HEAD)
  BY <1>4 DEF mthpc_list_splice_tail, mthpc_list_splice
<1> DEFINE u == <<x>>
<1>7. /\ l \in Memory(LNodes) /\ Chain(l, HEAD, N) /\ Chain(l, NEW_ADD, u)
      /\ Ring(HEAD, N) \intersect Ring(NEW_ADD, u) = {} /\ u \in Seq(LNodes) /\ u # <<>>
  BY <1>1, <1>2
<1> DEFINE Others == LNodes \ (Ring(HEAD, N) \union Ring(NEW_ADD, u))
<1>o. \A n \in Tasks \ (ToSet(N) \union {x}) : n \in Others
  BY ShortLists, NodeSets DEF Ring
<1> HIDE DEF u
<1>8. LET q == mthpc_list_splice(l, NEW_ADD, HEAD) IN
      q \in Memory(LNodes) /\ Chain(q, HEAD, u \o N) /\ SameAt(l, q, Others)
  BY <1>2, <1>7, ListSplice, Zenon
<1>9. LET q == mthpc_list_splice_tail(l, NEW_ADD, HEAD) IN
      q \in Memory(LNodes) /\ Chain(q, HEAD, N \o u) /\ SameAt(l, q, Others)
  BY <1>2, <1>7, ListSpliceTail, Zenon
<1> HIDE DEF Others
<1>10. ASSUME NEW q, SameAt(l, q, Others) PROVE SameAt(l, q, Tasks \ (ToSet(N) \union {x}))
  BY <1>o, <1>10 DEF SameAt
<1> QED BY <1>5, <1>6, <1>8, <1>9, <1>10 DEF u

\* The plan of P in f is that of N in g with x as one more main task.
OneMoreMain(g, N, T, f, P, x) ==
    /\ \E U : Planned(f, P, U, <<>>) /\ Begun(ToSet(N), T, ToSet(P), U, x)
    /\ \A u \in Tasks \ {x} : f.is_sub[u] = g.is_sub[u]

(* The one task on adding_list is linked to the main tasks.                *)
LEMMA BecomesMain ==
    ASSUME NEW g, NEW N, NEW T, NEW x \in Tasks, NEW B, B = <<x>>, Planned(g, N, T, B),
           NEW P \in Seq(Tasks), ToSet(P) = ToSet(N) \union {x},
           NEW q \in Memory(LNodes), Chain(q, HEAD, P), SameAt(g.list_node, q, Tasks \ ToSet(P)),
           NEW f, f = Forget(WithNodes(RelinkAsMain(g, 1), q))
    PROVE  OneMoreMain(g, N, T, f, P, x)
<1>0. Planned(g, N, T, <<x>>)
  OBVIOUS
<1> DEFINE r == RelinkAsMain(g, 1)
           j == WithNodes(r, q)
           fields == {"list_node", "sub_list", "is_sub", "nr", "main"}
<1>1. /\ IsHeap(g) /\ Subs(g.sub_list, ToSet(N), T, <<x>>)
      /\ \A t \in Tasks : g.nr[t] = IF t \in ToSet(N) THEN Len(T[t]) + 1 ELSE 1
  BY <1>0, PlannedFacts
<1>2. /\ DOMAIN g = fields /\ g.is_sub \in [Tasks -> BOOLEAN]
      /\ g.nr \in [Tasks -> Int] /\ g.main \in [Tasks -> Tasks \union {NULL}]
  BY <1>1 DEF IsHeap
<1>3. /\ DOMAIN r = fields /\ r.sub_list = mthpc_list_del(g.sub_list, x)
      /\ r.is_sub = [g.is_sub EXCEPT ![x] = FALSE] /\ r.nr = [g.nr EXCEPT ![x] = 1] /\ r.main = g.main
  <2>1. Relinked(g, r, x)
    BY <1>0, NewMainTask
  <2> HIDE DEF r
  <2> QED BY <2>1 DEF Relinked
<1> HIDE DEF r
<1>4. /\ DOMAIN j = fields /\ j.list_node = q /\ j.sub_list = r.sub_list
      /\ j.is_sub = r.is_sub /\ j.nr = r.nr /\ j.main = r.main
  BY <1>3 DEF WithNodes
<1>j. f = Forget(j)
  BY DEF r
<1> HIDE DEF j
<1>5. /\ DOMAIN f = fields /\ f.list_node = mthpc_list_init(q, NEW_ADD)
      /\ f.sub_list = mthpc_list_init(j.sub_list, ADD)
      /\ f.is_sub = j.is_sub /\ f.nr = j.nr /\ f.main = j.main
  BY <1>4, <1>j DEF Forget
<1>6. Subs(mthpc_list_del(g.sub_list, x), ToSet(N), T, <<>>) /\ x \notin InStages(ToSet(N), T)
  BY <1>1, OutOfAdding
<1>7. Subs(f.sub_list, ToSet(N), T, <<>>)
  <2>1. Subs(j.sub_list, ToSet(N), T, <<>>)
    BY <1>3, <1>4, <1>6
  <2> QED BY <1>5, <2>1, AddInit
<1>8. x \notin ToSet(<<>>)
  BY ShortLists
<1>9. x \notin ToSet(N) /\ \E U : Subs(f.sub_list, ToSet(P), U, <<>>) /\ Begun(ToSet(N), T, ToSet(P), U, x)
  BY <1>6, <1>7, <1>8, AsHead
<1>10. PICK U : Subs(f.sub_list, ToSet(P), U, <<>>) /\ Begun(ToSet(N), T, ToSet(P), U, x)
  BY <1>9
<1>11. /\ f.list_node \in Memory(LNodes)
       /\ \A n \in LNodes : f.list_node.next[n] = (IF n = NEW_ADD THEN NEW_ADD ELSE q.next[n])
       /\ \A n \in LNodes : f.list_node.prev[n] = (IF n = NEW_ADD THEN NEW_ADD ELSE q.prev[n])
  <2>1. NEW_ADD \in LNodes
    BY NodeSets
  <2> QED BY <1>5, <2>1, InitPointers
<1>12. Chain(f.list_node, HEAD, P)
  <2>1. ToSet(P) \subseteq Tasks /\ P \in Seq(LNodes) /\ HEAD \in LNodes
    BY InList, NodeSets
  <2>2. NEW_ADD \notin Ring(HEAD, P) /\ Ring(HEAD, P) \subseteq LNodes
    BY <2>1, NodeSets DEF Ring
  <2>3. SameAt(q, f.list_node, Ring(HEAD, P))
    BY <1>11, <2>2 DEF SameAt
  <2> QED BY <2>1, <2>3, Untouched
<1>s. Aside(f.list_node, P)
  <2>1. ASSUME NEW n \in Tasks \ ToSet(P) PROVE n \notin ToSet(N) /\ SameAt(g.list_node, f.list_node, {n})
    <3>1. n \in LNodes /\ n # NEW_ADD /\ n \notin ToSet(N)
      BY NodeSets
    <3>2. q.next[n] = g.list_node.next[n] /\ q.prev[n] = g.list_node.prev[n]
      BY DEF SameAt
    <3> QED BY <1>11, <3>1, <3>2 DEF SameAt
  <2>2. Aside(g.list_node, N)
    BY <1>0, PlannedFacts
  <2> QED BY <2>1, <2>2, AsideKept
<1>13. IsHeap(f)
  <2>1. f.sub_list \in Memory(SNodes)
    BY <1>10 DEF Subs
  <2>2. [g.nr EXCEPT ![x] = 1] \in [Tasks -> Int]
    BY <1>2
  <2>3. [g.is_sub EXCEPT ![x] = FALSE] \in [Tasks -> BOOLEAN]
    BY <1>2
  <2> QED BY <1>2, <1>3, <1>4, <1>5, <1>11, <2>1, <2>2, <2>3 DEF IsHeap
<1>14. ASSUME NEW t \in Tasks PROVE f.nr[t] = IF t \in ToSet(P) THEN Len(U[t]) + 1 ELSE 1
  <2>1. f.nr[t] = IF t = x THEN 1 ELSE g.nr[t]
    BY <1>2, <1>3, <1>4, <1>5
  <2>2. U[x] = <<>> /\ \A u \in ToSet(N) : U[u] = T[u]
    BY <1>10 DEF Begun
  <2>3. CASE t = x
    <3>1. Len(U[x]) = 0
      BY <2>2
    <3> QED BY <2>1, <2>3, <3>1
  <2>4. CASE t # x
    <3>1. t \in ToSet(P) <=> t \in ToSet(N)
      BY <2>4
    <3>2. t \in ToSet(N) => U[t] = T[t]
      BY <2>2
    <3>3. f.nr[t] = g.nr[t]
      BY <2>1, <2>4
    <3> QED BY <1>1, <3>1, <3>2, <3>3
  <2> QED BY <2>3, <2>4
<1>15. Planned(f, P, U, <<>>)
  BY <1>10, <1>12, <1>13, <1>14, <1>s DEF Planned
<1>16. \A u \in Tasks \ {x} : f.is_sub[u] = g.is_sub[u]
  BY <1>2, <1>3, <1>4, <1>5
<1> QED BY <1>10, <1>15, <1>16 DEF OneMoreMain
-----------------------------------------------------------------------------
(* precede() and succeed().                                                *)

\* A task without the sub-task flag is a main task.  The converse does not
\* hold: the first sub task of a main task that is moved keeps its flag.
Unflagged(h, M, S) == \A u \in InStages(ToSet(M), S) : ~h.is_sub[u] => u \in ToSet(M)

\* (P, U) in f is a plan of the tasks of (M, S) in h, with the tasks X moved.
MovedTo(h, M, S, f, P, U, X) ==
    /\ Planned(f, P, U, <<>>)
    /\ InStages(ToSet(P), U) = InStages(ToSet(M), S)
    /\ \A x, y \in Tasks \ X : Before(M, S, x, y) => Before(P, U, x, y)
    /\ Unflagged(h, M, S) => Unflagged(f, P, U)

\* The stages of (N, T) are those of (P, U), o places later, or parts of them.
Shifted(N, T, P, U, o) ==
    \A i \in 1..Len(N) : i + o \in 1..Len(P) /\ StageAt(N, T, i) \subseteq StageAt(P, U, i + o)

(* Then what is before stays before.                                       *)
LEMMA BeforeShifted ==
    ASSUME NEW N, NEW T, NEW P, NEW U, NEW o \in Nat, Shifted(N, T, P, U, o), Len(N) \in Nat,
           NEW x, NEW y, Before(N, T, x, y)
    PROVE  Before(P, U, x, y)
<1>1. PICK i, j \in 1..Len(N) : i < j /\ x \in StageAt(N, T, i) /\ y \in StageAt(N, T, j)
  BY DEF Before
<1>2. /\ i + o \in 1..Len(P) /\ x \in StageAt(P, U, i + o)
      /\ j + o \in 1..Len(P) /\ y \in StageAt(P, U, j + o)
  BY <1>1 DEF Shifted
<1>3. i + o < j + o
  BY <1>1
<1> QED BY <1>2, <1>3 DEF Before

(* The stages of a plan.                                                   *)
LEMMA StageFacts ==
    ASSUME NEW g, NEW N, NEW T, NEW B, Planned(g, N, T, B)
    PROVE  /\ Len(N) \in Nat
           /\ \A i \in 1..Len(N) : StageAt(N, T, i) = Ring(N[i], T[N[i]]) /\ N[i] \in ToSet(N) /\ N[i] \in Tasks
           /\ \A i, j \in 1..Len(N) : N[i] = N[j] => i = j
BY PlannedFacts DEF StageAt

(* The moved tasks join the stage at a.                                    *)
LEMMA MovedIntoStage ==
    ASSUME NEW h, NEW M, NEW S, NEW g, NEW N, NEW T, NEW B, NEW X, NEW n,
           Cleared(h, M, S, g, N, T, B, X, n), B # <<>>, X \subseteq InStages(ToSet(M), S),
           NEW a \in 1..Len(N),
           NEW q, q = mthpc_list_splice_tail(g.sub_list, ADD, N[a]) \/ q = mthpc_list_splice(g.sub_list, ADD, N[a]),
           NEW f, f = Forget(WithSubs(JoinStage(g, N[a], n), q))
    PROVE  \E U : MovedTo(h, M, S, f, N, U, X) /\ Shifted(N, T, N, U, 0) /\ X \subseteq StageAt(N, U, a)
<1> DEFINE m == N[a]
<1>1. /\ Planned(g, N, T, B) /\ ToSet(B) = X /\ Len(B) = n
      /\ InStages(ToSet(N), T) = InStages(ToSet(M), S) \ X
      /\ \A x, y \in Tasks \ X : Before(M, S, x, y) => Before(N, T, x, y)
      /\ \A u \in ToSet(M) \ X : u \in ToSet(N)
      /\ \A u \in Tasks \ X : g.is_sub[u] = h.is_sub[u]
      /\ \A u \in X : g.is_sub[u]
  BY DEF Cleared
<1>2. /\ Len(N) \in Nat /\ m \in ToSet(N)
      /\ \A i \in 1..Len(N) : StageAt(N, T, i) = Ring(N[i], T[N[i]]) /\ N[i] \in ToSet(N)
      /\ \A i, j \in 1..Len(N) : N[i] = N[j] => i = j
  BY <1>1, StageFacts
<1> HIDE DEF m
<1>3. /\ \E U : Planned(f, N, U, <<>>) /\ Gained(ToSet(N), T, U, m, ToSet(B), Len(B))
      /\ f.is_sub = g.is_sub
  <2>1. f = Forget(WithSubs(JoinStage(g, m, Len(B)), q))
    BY <1>1 DEF m
  <2>2. q = mthpc_list_splice_tail(g.sub_list, ADD, m) \/ q = mthpc_list_splice(g.sub_list, ADD, m)
    BY DEF m
  <2> QED BY <1>1, <1>2, <2>1, <2>2, JoinsStage
<1>4. PICK U : Planned(f, N, U, <<>>) /\ Gained(ToSet(N), T, U, m, ToSet(B), Len(B))
  BY <1>3
<1>5. /\ Ring(m, U[m]) = Ring(m, T[m]) \union X
      /\ \A t \in ToSet(N) \ {m} : U[t] = T[t]
      /\ InStages(ToSet(N), U) = InStages(ToSet(N), T) \union X
  BY <1>1, <1>4 DEF Gained
<1>6. Shifted(N, T, N, U, 0)
  <2>1. ASSUME NEW i \in 1..Len(N) PROVE i + 0 \in 1..Len(N) /\ StageAt(N, T, i) \subseteq StageAt(N, U, i + 0)
    <3>1. i + 0 = i
      BY <1>2
    <3>2. StageAt(N, T, i) \subseteq StageAt(N, U, i)
      BY <1>2, <1>5 DEF StageAt
    <3> QED BY <3>1, <3>2
  <2> QED BY <2>1 DEF Shifted
<1>7. X \subseteq StageAt(N, U, a)
  BY <1>5 DEF StageAt, m
<1>8. InStages(ToSet(N), U) = InStages(ToSet(M), S)
  BY <1>1, <1>5
<1>9. ASSUME NEW x \in Tasks \ X, NEW y \in Tasks \ X, Before(M, S, x, y) PROVE Before(N, U, x, y)
  <2>1. Before(N, T, x, y)
    BY <1>1, <1>9
  <2> QED BY <1>2, <1>6, <2>1, BeforeShifted
<1>10. ASSUME Unflagged(h, M, S) PROVE Unflagged(f, N, U)
  <2>1. ASSUME NEW u \in InStages(ToSet(N), U), ~f.is_sub[u] PROVE u \in ToSet(N)
    <3>1. u \in InStages(ToSet(M), S) /\ u \notin X
      BY <1>1, <1>3, <1>8, <2>1
    <3>2. u \in Tasks
      <4>1. Subs(f.sub_list, ToSet(N), U, <<>>)
        BY <1>4 DEF Planned
      <4> QED BY <4>1, SubsFacts
    <3>3. ~h.is_sub[u]
      BY <1>1, <1>3, <2>1, <3>1, <3>2
    <3>4. u \in ToSet(M)
      BY <1>10, <3>1, <3>3 DEF Unflagged
    <3> QED BY <1>1, <3>1, <3>4
  <2> QED BY <2>1 DEF Unflagged
<1>11. MovedTo(h, M, S, f, N, U, X)
  BY <1>4, <1>8, <1>9, <1>10 DEF MovedTo
<1> QED BY <1>6, <1>7, <1>11

\* The tasks of N are in P, o places later.
Placed(N, P, o) == \A i \in 1..Len(N) : i + o \in 1..Len(P) /\ P[i + o] = N[i]

(* The one moved task becomes a main task.                                 *)
LEMMA MovedToEnd ==
    ASSUME NEW h, NEW M, NEW S, NEW g, NEW N, NEW T, NEW x \in Tasks,
           NEW B, B = <<x>>, Cleared(h, M, S, g, N, T, B, {x}, 1), x \in InStages(ToSet(M), S),
           NEW P \in Seq(Tasks), ToSet(P) = ToSet(N) \union {x}, NEW o \in Nat, Placed(N, P, o),
           NEW q \in Memory(LNodes), Chain(q, HEAD, P), SameAt(g.list_node, q, Tasks \ ToSet(P)),
           NEW f, f = Forget(WithNodes(RelinkAsMain(g, 1), q))
    PROVE  \E U : /\ MovedTo(h, M, S, f, P, U, {x}) /\ Shifted(N, T, P, U, o)
                  /\ \A p \in 1..Len(P) : P[p] = x => x \in StageAt(P, U, p)
<1>1. /\ Planned(g, N, T, B)
      /\ InStages(ToSet(N), T) = InStages(ToSet(M), S) \ {x}
      /\ \A y, z \in Tasks \ {x} : Before(M, S, y, z) => Before(N, T, y, z)
      /\ \A u \in ToSet(M) \ {x} : u \in ToSet(N)
      /\ \A u \in Tasks \ {x} : g.is_sub[u] = h.is_sub[u]
  BY DEF Cleared
<1>2. /\ Len(N) \in Nat
      /\ \A i \in 1..Len(N) : StageAt(N, T, i) = Ring(N[i], T[N[i]]) /\ N[i] \in ToSet(N)
  BY <1>1, StageFacts
<1>3. /\ \E U : Planned(f, P, U, <<>>) /\ Begun(ToSet(N), T, ToSet(P), U, x)
      /\ \A u \in Tasks \ {x} : f.is_sub[u] = g.is_sub[u]
  <2>1. Planned(g, N, T, B)
    BY <1>1
  <2>2. OneMoreMain(g, N, T, f, P, x)
    BY <2>1, BecomesMain
  <2> QED BY <2>2 DEF OneMoreMain
<1>4. PICK U : Planned(f, P, U, <<>>) /\ Begun(ToSet(N), T, ToSet(P), U, x)
  BY <1>3
<1>5. /\ Ring(x, U[x]) = {x} /\ (\A u \in ToSet(N) : U[u] = T[u])
      /\ InStages(ToSet(P), U) = InStages(ToSet(N), T) \union {x}
  BY <1>4 DEF Begun
<1>6. Shifted(N, T, P, U, o)
  <2>1. ASSUME NEW i \in 1..Len(N) PROVE i + o \in 1..Len(P) /\ StageAt(N, T, i) \subseteq StageAt(P, U, i + o)
    <3>1. i + o \in 1..Len(P) /\ P[i + o] = N[i]
      BY DEF Placed
    <3>2. U[N[i]] = T[N[i]]
      BY <1>2, <1>5
    <3>3. StageAt(P, U, i + o) = Ring(P[i + o], U[P[i + o]]) /\ StageAt(N, T, i) = Ring(N[i], T[N[i]])
      BY DEF StageAt
    <3> QED BY <3>1, <3>2, <3>3
  <2> QED BY <2>1 DEF Shifted
<1>7. ASSUME NEW p \in 1..Len(P), P[p] = x PROVE x \in StageAt(P, U, p)
  BY <1>5, <1>7 DEF StageAt
<1>8. InStages(ToSet(P), U) = InStages(ToSet(M), S)
  BY <1>1, <1>5
<1>9. ASSUME NEW y \in Tasks \ {x}, NEW z \in Tasks \ {x}, Before(M, S, y, z) PROVE Before(P, U, y, z)
  <2>1. Before(N, T, y, z)
    BY <1>1, <1>9
  <2> QED BY <1>2, <1>6, <2>1, BeforeShifted
<1>10. ASSUME Unflagged(h, M, S) PROVE Unflagged(f, P, U)
  <2>1. ASSUME NEW u \in InStages(ToSet(P), U), ~f.is_sub[u] PROVE u \in ToSet(P)
    <3>1. CASE u = x
      BY <3>1
    <3>2. CASE u # x
      <4>1. u \in Tasks
        <5>1. Subs(f.sub_list, ToSet(P), U, <<>>)
          BY <1>4 DEF Planned
        <5> QED BY <5>1, SubsFacts
      <4>2. g.is_sub \in [Tasks -> BOOLEAN]
        BY <1>1 DEF Planned, IsHeap
      <4>3. ~h.is_sub[u]
        BY <1>1, <1>3, <2>1, <3>2, <4>1, <4>2
      <4>4. u \in ToSet(M)
        BY <1>8, <1>10, <2>1, <4>3 DEF Unflagged
      <4> QED BY <1>1, <3>2, <4>4
    <3> QED BY <3>1, <3>2
  <2> QED BY <2>1 DEF Unflagged
<1>11. MovedTo(h, M, S, f, P, U, {x})
  BY <1>4, <1>8, <1>9, <1>10 DEF MovedTo
<1> QED BY <1>6, <1>7, <1>11

\* The task the moved ones are put before or after is in the stage of task k
\* of the plan that is left.
LEMMA Anchor ==
    ASSUME NEW h, NEW M, NEW S, Planned(h, M, S, <<>>),
           NEW g, NEW N, NEW T, NEW B, NEW X, NEW n, Cleared(h, M, S, g, N, T, B, X, n),
           NEW t \in Tasks \ X, AgreesAt(h, M, S, t), h.is_sub[t] => h.main[t] \notin X
    PROVE  \E k \in 1..Len(N) : N[k] = MainOf(h, t) /\ t \in StageAt(N, T, k)
<1>1. AgreesAt(g, N, T, t) /\ g.is_sub[t] = h.is_sub[t] /\ g.main[t] = h.main[t]
  <2>1. AgreesAt(g, N, T, t)
    BY StillAgrees
  <2> QED BY <2>1 DEF Cleared
<1>2. MainOf(h, t) \in ToSet(N) /\ t \in Ring(MainOf(h, t), T[MainOf(h, t)])
  BY <1>1 DEF AgreesAt, MainOf, Ring
<1>3. N \in Seq(Tasks)
  BY DEF Cleared, Planned
<1>4. PICK k \in 1..Len(N) : N[k] = MainOf(h, t)
  BY <1>2, <1>3, InList
<1> QED BY <1>2, <1>4 DEF StageAt

\* A straight call of precede() or succeed() on a plan.
CallOk(h, M, S, t, news) ==
    /\ Planned(h, M, S, <<>>)
    /\ news \in News /\ IsInjective(news) /\ t \in Tasks /\ t \notin ToSet(news)
    /\ \A u \in {t} \union ToSet(news) :
          AgreesAt(h, M, S, u) /\ (h.is_sub[u] => h.main[u] \notin ToSet(news))

(* What such a call finds after mthpc_taskflow_rlist_del().                *)
LEMMA CallFacts ==
    ASSUME NEW h, NEW M, NEW S, NEW t, NEW news, CallOk(h, M, S, t, news)
    PROVE  /\ ToSet(news) \subseteq Tasks /\ ToSet(news) \subseteq InStages(ToSet(M), S)
           /\ \E N, T, B, k : /\ Cleared(h, M, S, mthpc_taskflow_rlist_del(h, news), N, T, B, ToSet(news), Len(news))
                              /\ B # <<>> /\ B \in Seq(Tasks)
                              /\ k \in 1..Len(N) /\ N[k] = MainOf(h, t) /\ t \in StageAt(N, T, k)
           /\ Len(news) = 1 => \E x \in Tasks : news = <<x>> /\ ToSet(news) = {x}
<1>1. /\ Planned(h, M, S, <<>>) /\ news \in News /\ IsInjective(news) /\ t \in Tasks /\ t \notin ToSet(news)
      /\ \A u \in {t} \union ToSet(news) :
            AgreesAt(h, M, S, u) /\ (h.is_sub[u] => h.main[u] \notin ToSet(news))
  BY DEF CallOk
<1>2. news \in Seq(Tasks) /\ (\/ \E x \in Tasks : news = <<x>> /\ Len(news) = 1
                              \/ \E x, y \in Tasks : news = <<x, y>> /\ Len(news) = 2)
  <2>1. \/ \E x \in Tasks : news = <<x>>
        \/ \E x, y \in Tasks : news = <<x, y>>
    <3>1. news \in {<<x>> : x \in Tasks} \/ news \in {<<x, y>> : x, y \in Tasks}
      BY <1>1 DEF News
    <3>2. CASE news \in {<<x>> : x \in Tasks}
      BY <3>2
    <3>3. CASE news \in {<<x, y>> : x, y \in Tasks}
      BY <3>3
    <3> QED BY <3>1, <3>2, <3>3
  <2>2. ASSUME NEW x \in Tasks, news = <<x>> PROVE news \in Seq(Tasks) /\ Len(news) = 1
    BY <2>2
  <2>3. ASSUME NEW x \in Tasks, NEW y \in Tasks, news = <<x, y>> PROVE news \in Seq(Tasks) /\ Len(news) = 2
    BY <2>3
  <2> QED BY <2>1, <2>2, <2>3
<1>3. ToSet(news) \subseteq Tasks
  BY <1>2, InList
<1>4. Subs(h.sub_list, ToSet(M), S, <<>>)
  BY <1>1 DEF Planned
<1>5. ASSUME NEW u \in ToSet(news) PROVE u \in InStages(ToSet(M), S)
  <2>1. AgreesAt(h, M, S, u)
    BY <1>1
  <2>2. CASE h.is_sub[u]
    <3>1. h.main[u] \in ToSet(M) /\ u \in ToSet(S[h.main[u]])
      BY <2>1, <2>2 DEF AgreesAt
    <3> QED BY <3>1 DEF InStages, Ring
  <2>3. CASE ~h.is_sub[u]
    <3>1. u \in ToSet(M)
      BY <2>1, <2>3 DEF AgreesAt
    <3> QED BY <3>1 DEF InStages, Ring
  <2> QED BY <2>2, <2>3
<1>6. PICK N, T, B : Cleared(h, M, S, mthpc_taskflow_rlist_del(h, news), N, T, B, ToSet(news), Len(news))
  BY <1>1, RlistDel
<1>7. t \in Tasks \ ToSet(news) /\ AgreesAt(h, M, S, t) /\ (h.is_sub[t] => h.main[t] \notin ToSet(news))
  BY <1>1
<1>8. PICK k \in 1..Len(N) : N[k] = MainOf(h, t) /\ t \in StageAt(N, T, k)
  BY <1>1, <1>6, <1>7, Anchor
<1>9. B # <<>> /\ B \in Seq(Tasks)
  <2>1. Len(B) = Len(news) /\ Len(news) # 0
    BY <1>2, <1>6 DEF Cleared
  <2>2. B \in Seq(Tasks)
    BY <1>6 DEF Cleared, Planned, Subs
  <2> QED BY <2>1, <2>2
<1>10. ASSUME Len(news) = 1 PROVE \E x \in Tasks : news = <<x>> /\ ToSet(news) = {x}
  <2>1. PICK x \in Tasks : news = <<x>>
    BY <1>2, <1>10
  <2> QED BY <2>1, ShortLists
<1> QED BY <1>3, <1>5, <1>6, <1>8, <1>9, <1>10

(* A list of one that holds x only.                                        *)
LEMMA OnlyOne ==
    ASSUME NEW B \in Seq(Tasks), NEW x, Len(B) = 1, ToSet(B) = {x}
    PROVE  B = <<x>>
<1>1. 1 \in 1..Len(B)
  OBVIOUS
<1>2. B[1] = x
  BY <1>1, InList
<1> QED BY <1>2

(* mthpc_taskflow_precede().                                               *)
LEMMA PrecedeMoves ==
    ASSUME NEW h, NEW M, NEW S, NEW t, NEW news, CallOk(h, M, S, t, news),
           \/ Len(news) = 1
           \/ mthpc_taskflow_rlist_del(h, news).list_node.prev[MainOf(h, t)] # HEAD
    PROVE  \E P, U : /\ MovedTo(h, M, S, mthpc_taskflow_precede_result(h, t, news), P, U, ToSet(news))
                     /\ \A u \in ToSet(news) : Before(P, U, u, t)
<1> DEFINE task == MainOf(h, t)
           g == mthpc_taskflow_rlist_del(h, news)
           prev_task == g.list_node.prev[task]
           X == ToSet(news)
           f == mthpc_taskflow_precede_result(h, t, news)
<1>1. PICK N, T, B, k : /\ Cleared(h, M, S, g, N, T, B, X, Len(news)) /\ B # <<>> /\ B \in Seq(Tasks)
                        /\ k \in 1..Len(N) /\ N[k] = task /\ t \in StageAt(N, T, k)
  BY CallFacts
<1>2. X \subseteq Tasks /\ X \subseteq InStages(ToSet(M), S)
  BY CallFacts
<1>3. Planned(g, N, T, B) /\ ToSet(B) = X /\ Len(B) = Len(news)
  BY <1>1 DEF Cleared
<1>4. /\ g.list_node \in Memory(LNodes) /\ Chain(g.list_node, HEAD, N) /\ N \in Seq(LNodes) /\ Len(N) \in Nat
      /\ N \in Seq(Tasks) /\ HEAD \in LNodes /\ HEAD \notin Tasks
  BY <1>3, PlannedFacts, NodeSets DEF IsHeap
<1>5. prev_task = At(HEAD, N, k - 1)
  BY <1>1, <1>4, Ends
<1>f. f = Forget(IF prev_task = HEAD
                 THEN [RelinkAsMain(g, Len(news)) EXCEPT
                          !.list_node = mthpc_list_splice_tail(@, NEW_ADD, task)]
                 ELSE [JoinStage(g, prev_task, Len(news)) EXCEPT
                          !.sub_list = mthpc_list_splice_tail(@, ADD, prev_task)])
  BY DEF mthpc_taskflow_precede_result
<1>6. CASE prev_task = HEAD
  <2>1. Len(news) = 1
    BY <1>6
  <2>2. PICK x \in Tasks : X = {x}
    BY <2>1, CallFacts
  <2>3. B = <<x>>
    BY <1>1, <1>3, <2>1, <2>2, OnlyOne
  <2>4. k = 1
    <3>1. CASE k # 1
      <4>1. k - 1 \in 1..Len(N)
        BY <1>1, <1>4, <3>1
      <4>2. prev_task \in Tasks
        BY <1>4, <1>5, <4>1 DEF At
      <4> QED BY <1>4, <1>6, <4>2
    <3> QED BY <3>1
  <2> DEFINE l == RelinkAsMain(g, 1).list_node
             q == mthpc_list_splice_tail(l, NEW_ADD, task)
             P == <<x>> \o N
  <2>5. TwoLists(l, N, x) /\ x \notin ToSet(N) /\ SameAt(g.list_node, l, Tasks \ {x})
    BY <1>3, <2>3, NewMainLists
  <2>6. N # <<>> /\ N[1] = task
    BY <1>1, <2>4
  <2>7. q \in Memory(LNodes) /\ Chain(q, HEAD, P) /\ SameAt(l, q, Tasks \ (ToSet(N) \union {x}))
    <3>1. LET y == mthpc_list_splice_tail(l, NEW_ADD, N[1]) IN
          /\ y \in Memory(LNodes) /\ Chain(y, HEAD, <<x>> \o N)
          /\ SameAt(l, y, Tasks \ (ToSet(N) \union {x}))
      <4> HIDE DEF l
      <4> QED BY <1>4, <2>5, <2>6, SplicedAtEnd
    <3> QED BY <2>6, <3>1
  <2>8. f = Forget(WithNodes(RelinkAsMain(g, 1), q))
    BY <1>f, <1>6, <2>1 DEF WithNodes
  <2>9. P \in Seq(Tasks) /\ ToSet(P) = ToSet(N) \union {x}
    BY <1>4, AddedFirst
  <2>10. Len(P) = Len(N) + 1 /\ P[1] = x /\ Placed(N, P, 1)
    BY <1>4 DEF Placed
  <2> HIDE DEF q, P, l, g, task, f
  <2>s. SameAt(g.list_node, q, Tasks \ ToSet(P))
    BY <2>5, <2>7, <2>9 DEF SameAt
  <2>11. Cleared(h, M, S, g, N, T, B, {x}, 1)
    BY <1>1, <2>1, <2>2
  <2>x. x \in InStages(ToSet(M), S)
    BY <1>2, <2>2
  <2>p. Placed(N, P, 1) /\ 1 \in Nat
    BY <2>10
  <2>12. PICK U : /\ MovedTo(h, M, S, f, P, U, {x}) /\ Shifted(N, T, P, U, 1)
                  /\ \A p \in 1..Len(P) : P[p] = x => x \in StageAt(P, U, p)
    BY <2>3, <2>7, <2>8, <2>9, <2>11, <2>s, <2>x, <2>p, MovedToEnd
  <2>13. Before(P, U, x, t)
    <3>1. 1 \in 1..Len(P) /\ 2 \in 1..Len(P) /\ 1 \in 1..Len(N)
      BY <1>1, <1>4, <2>10
    <3>2. x \in StageAt(P, U, 1)
      BY <2>10, <2>12, <3>1
    <3>3. StageAt(N, T, 1) \subseteq StageAt(P, U, 1 + 1)
      BY <2>12, <3>1 DEF Shifted
    <3>4. t \in StageAt(P, U, 2)
      BY <1>1, <2>4, <3>3
    <3> QED BY <3>1, <3>2, <3>4 DEF Before
  <2>14. MovedTo(h, M, S, f, P, U, X) /\ \A u \in X : Before(P, U, u, t)
    BY <2>2, <2>12, <2>13
  <2> QED BY <2>14 DEF f
<1>7. CASE prev_task # HEAD
  <2>1. k - 1 \in 1..Len(N)
    BY <1>1, <1>4, <1>5, <1>7 DEF At
  <2>2. prev_task = N[k - 1]
    BY <1>5, <2>1 DEF At
  <2> DEFINE a == k - 1
             q == mthpc_list_splice_tail(g.sub_list, ADD, N[a])
  <2>3. f = Forget(WithSubs(JoinStage(g, N[a], Len(news)), q))
    <3>1. JoinStage(g, prev_task, Len(news)).sub_list = g.sub_list
      BY <1>3 DEF JoinStage, Planned, IsHeap
    <3> QED BY <1>f, <1>7, <2>2, <3>1 DEF WithSubs
  <2> HIDE DEF q, a, f, g
  <2>4. a \in 1..Len(N) /\ (q = mthpc_list_splice_tail(g.sub_list, ADD, N[a]) \/ q = mthpc_list_splice(g.sub_list, ADD, N[a]))
    BY <2>1 DEF a, q
  <2> DEFINE n == Len(news)
  <2>n. /\ f = Forget(WithSubs(JoinStage(g, N[a], n), q))
        /\ Cleared(h, M, S, g, N, T, B, X, n) /\ B # <<>> /\ X \subseteq InStages(ToSet(M), S)
    BY <1>1, <1>2, <2>3
  <2> HIDE DEF n
  <2>5. PICK U : MovedTo(h, M, S, f, N, U, X) /\ Shifted(N, T, N, U, 0) /\ X \subseteq StageAt(N, U, a)
    <3> HIDE DEF X
    <3>1. a \in 1..Len(N)
      BY <2>4
    <3>2. q = mthpc_list_splice_tail(g.sub_list, ADD, N[a]) \/ q = mthpc_list_splice(g.sub_list, ADD, N[a])
      BY <2>4
    <3>3. f = Forget(WithSubs(JoinStage(g, N[a], n), q))
      BY <2>n
    <3>4. Cleared(h, M, S, g, N, T, B, X, n) /\ B # <<>> /\ X \subseteq InStages(ToSet(M), S)
      BY <2>n
    <3> QED BY <3>1, <3>2, <3>3, <3>4, MovedIntoStage
  <2>6. ASSUME NEW u \in X PROVE Before(N, U, u, t)
    <3>1. u \in StageAt(N, U, a) /\ a < k
      BY <1>1, <2>5 DEF a
    <3>2. StageAt(N, T, k) \subseteq StageAt(N, U, k + 0)
      BY <1>1, <2>5 DEF Shifted
    <3>3. t \in StageAt(N, U, k)
      BY <1>1, <3>2
    <3> QED BY <1>1, <2>4, <3>1, <3>3 DEF Before
  <2>7. MovedTo(h, M, S, f, N, U, X) /\ \A u \in X : Before(N, U, u, t)
    BY <2>5, <2>6
  <2> QED BY <2>7 DEF f
<1> QED BY <1>6, <1>7

(* mthpc_taskflow_succeed().                                               *)
LEMMA SucceedMoves ==
    ASSUME NEW h, NEW M, NEW S, NEW t, NEW news, CallOk(h, M, S, t, news),
           \/ Len(news) = 1
           \/ mthpc_taskflow_rlist_del(h, news).list_node.next[MainOf(h, t)] # HEAD
    PROVE  \E P, U : /\ MovedTo(h, M, S, mthpc_taskflow_succeed_result(h, t, news), P, U, ToSet(news))
                     /\ \A u \in ToSet(news) : Before(P, U, t, u)
<1> DEFINE task == MainOf(h, t)
           g == mthpc_taskflow_rlist_del(h, news)
           next_task == g.list_node.next[task]
           X == ToSet(news)
           f == mthpc_taskflow_succeed_result(h, t, news)
<1>1. PICK N, T, B, k : /\ Cleared(h, M, S, g, N, T, B, X, Len(news)) /\ B # <<>> /\ B \in Seq(Tasks)
                        /\ k \in 1..Len(N) /\ N[k] = task /\ t \in StageAt(N, T, k)
  BY CallFacts
<1>2. X \subseteq Tasks /\ X \subseteq InStages(ToSet(M), S)
  BY CallFacts
<1>3. Planned(g, N, T, B) /\ ToSet(B) = X /\ Len(B) = Len(news)
  BY <1>1 DEF Cleared
<1>4. /\ g.list_node \in Memory(LNodes) /\ Chain(g.list_node, HEAD, N) /\ N \in Seq(LNodes) /\ Len(N) \in Nat
      /\ N \in Seq(Tasks) /\ HEAD \in LNodes /\ HEAD \notin Tasks
  BY <1>3, PlannedFacts, NodeSets DEF IsHeap
<1>5. next_task = At(HEAD, N, k + 1)
  BY <1>1, <1>4, Ends
<1>f. f = Forget(IF next_task = HEAD
                 THEN [RelinkAsMain(g, Len(news)) EXCEPT
                          !.list_node = mthpc_list_splice(@, NEW_ADD, task)]
                 ELSE [JoinStage(g, next_task, Len(news)) EXCEPT
                          !.sub_list = mthpc_list_splice(@, ADD, next_task)])
  BY DEF mthpc_taskflow_succeed_result
<1>6. CASE next_task = HEAD
  <2>1. Len(news) = 1
    BY <1>6
  <2>2. PICK x \in Tasks : X = {x}
    BY <2>1, CallFacts
  <2>3. B = <<x>>
    BY <1>1, <1>3, <2>1, <2>2, OnlyOne
  <2>4. k = Len(N)
    <3>1. CASE k # Len(N)
      <4>1. k + 1 \in 1..Len(N)
        BY <1>1, <1>4, <3>1
      <4>2. next_task \in Tasks
        BY <1>4, <1>5, <4>1 DEF At
      <4> QED BY <1>4, <1>6, <4>2
    <3> QED BY <3>1
  <2> DEFINE l == RelinkAsMain(g, 1).list_node
             q == mthpc_list_splice(l, NEW_ADD, task)
             P == N \o <<x>>
  <2>5. TwoLists(l, N, x) /\ x \notin ToSet(N) /\ SameAt(g.list_node, l, Tasks \ {x})
    BY <1>3, <2>3, NewMainLists
  <2>6. N # <<>> /\ N[Len(N)] = task
    BY <1>1, <2>4
  <2>7. q \in Memory(LNodes) /\ Chain(q, HEAD, P) /\ SameAt(l, q, Tasks \ (ToSet(N) \union {x}))
    <3>1. LET y == mthpc_list_splice(l, NEW_ADD, N[Len(N)]) IN
          /\ y \in Memory(LNodes) /\ Chain(y, HEAD, N \o <<x>>)
          /\ SameAt(l, y, Tasks \ (ToSet(N) \union {x}))
      <4> HIDE DEF l
      <4> QED BY <1>4, <2>5, <2>6, SplicedAtEnd
    <3> QED BY <2>6, <3>1
  <2>8. f = Forget(WithNodes(RelinkAsMain(g, 1), q))
    BY <1>f, <1>6, <2>1 DEF WithNodes
  <2>9. P \in Seq(Tasks) /\ ToSet(P) = ToSet(N) \union {x}
    <3> DEFINE e == <<x>>
    <3>1. e \in Seq(Tasks) /\ ToSet(e) = {x}
      BY ShortLists
    <3> HIDE DEF e
    <3>2. N \o e \in Seq(Tasks) /\ ToSet(N \o e) = ToSet(N) \union ToSet(e)
      BY <1>4, <3>1, Joined
    <3> QED BY <3>1, <3>2 DEF e
  <2>10. Len(P) = Len(N) + 1 /\ P[Len(N) + 1] = x /\ Placed(N, P, 0)
    BY <1>4 DEF Placed
  <2> HIDE DEF q, P, l, g, task, f
  <2>s. SameAt(g.list_node, q, Tasks \ ToSet(P))
    BY <2>5, <2>7, <2>9 DEF SameAt
  <2>11. Cleared(h, M, S, g, N, T, B, {x}, 1)
    BY <1>1, <2>1, <2>2
  <2>x. x \in InStages(ToSet(M), S)
    BY <1>2, <2>2
  <2>p. Placed(N, P, 0) /\ 0 \in Nat
    BY <2>10
  <2>12. PICK U : /\ MovedTo(h, M, S, f, P, U, {x}) /\ Shifted(N, T, P, U, 0)
                  /\ \A p \in 1..Len(P) : P[p] = x => x \in StageAt(P, U, p)
    BY <2>3, <2>7, <2>8, <2>9, <2>11, <2>s, <2>x, <2>p, MovedToEnd
  <2>13. Before(P, U, t, x)
    <3>1. Len(N) \in 1..Len(P) /\ Len(N) + 1 \in 1..Len(P) /\ Len(N) \in 1..Len(N)
      BY <1>1, <1>4, <2>10
    <3>2. x \in StageAt(P, U, Len(N) + 1)
      BY <2>10, <2>12, <3>1
    <3>3. StageAt(N, T, Len(N)) \subseteq StageAt(P, U, Len(N) + 0)
      BY <2>12, <3>1 DEF Shifted
    <3>4. t \in StageAt(P, U, Len(N))
      BY <1>1, <1>4, <2>4, <3>3
    <3>5. Len(N) < Len(N) + 1
      BY <1>4
    <3> QED BY <3>1, <3>2, <3>4, <3>5 DEF Before
  <2>14. MovedTo(h, M, S, f, P, U, X) /\ \A u \in X : Before(P, U, t, u)
    BY <2>2, <2>12, <2>13
  <2> QED BY <2>14 DEF f
<1>7. CASE next_task # HEAD
  <2>1. k + 1 \in 1..Len(N)
    BY <1>1, <1>4, <1>5, <1>7 DEF At
  <2>2. next_task = N[k + 1]
    BY <1>5, <2>1 DEF At
  <2> DEFINE a == k + 1
             q == mthpc_list_splice(g.sub_list, ADD, N[a])
  <2>3. f = Forget(WithSubs(JoinStage(g, N[a], Len(news)), q))
    <3>1. JoinStage(g, next_task, Len(news)).sub_list = g.sub_list
      BY <1>3 DEF JoinStage, Planned, IsHeap
    <3> QED BY <1>f, <1>7, <2>2, <3>1 DEF WithSubs
  <2> HIDE DEF q, a, f, g
  <2>4. a \in 1..Len(N) /\ (q = mthpc_list_splice_tail(g.sub_list, ADD, N[a]) \/ q = mthpc_list_splice(g.sub_list, ADD, N[a]))
    BY <2>1 DEF a, q
  <2> DEFINE n == Len(news)
  <2>n. /\ f = Forget(WithSubs(JoinStage(g, N[a], n), q))
        /\ Cleared(h, M, S, g, N, T, B, X, n) /\ B # <<>> /\ X \subseteq InStages(ToSet(M), S)
    BY <1>1, <1>2, <2>3
  <2> HIDE DEF n
  <2>5. PICK U : MovedTo(h, M, S, f, N, U, X) /\ Shifted(N, T, N, U, 0) /\ X \subseteq StageAt(N, U, a)
    <3> HIDE DEF X
    <3>1. a \in 1..Len(N)
      BY <2>4
    <3>2. q = mthpc_list_splice_tail(g.sub_list, ADD, N[a]) \/ q = mthpc_list_splice(g.sub_list, ADD, N[a])
      BY <2>4
    <3>3. f = Forget(WithSubs(JoinStage(g, N[a], n), q))
      BY <2>n
    <3>4. Cleared(h, M, S, g, N, T, B, X, n) /\ B # <<>> /\ X \subseteq InStages(ToSet(M), S)
      BY <2>n
    <3> QED BY <3>1, <3>2, <3>3, <3>4, MovedIntoStage
  <2>6. ASSUME NEW u \in X PROVE Before(N, U, t, u)
    <3>1. u \in StageAt(N, U, a) /\ k < a
      BY <1>1, <2>5 DEF a
    <3>2. StageAt(N, T, k) \subseteq StageAt(N, U, k + 0)
      BY <1>1, <2>5 DEF Shifted
    <3>3. t \in StageAt(N, U, k)
      BY <1>1, <3>2
    <3> QED BY <1>1, <2>4, <3>1, <3>3 DEF Before
  <2>7. MovedTo(h, M, S, f, N, U, X) /\ \A u \in X : Before(N, U, t, u)
    BY <2>5, <2>6
  <2> QED BY <2>7 DEF f
<1> QED BY <1>6, <1>7

(* From a node of a list the pointers lead to nodes of the list.           *)
LEMMA StaysInRing ==
    ASSUME NEW Nodes, NEW l, NEW head \in Nodes, NEW s \in Seq(Nodes), Chain(l, head, s),
           NEW n \in Ring(head, s)
    PROVE  l.next[n] \in Ring(head, s) /\ l.prev[n] \in Ring(head, s)
<1>1. IsInjective(s) /\ head \notin ToSet(s)
  BY DEF Chain
<1>2. /\ Len(s) \in Nat /\ At(head, s, 0) = head /\ At(head, s, Len(s) + 1) = head
      /\ \A k \in 0..(Len(s) + 1) : At(head, s, k) \in Ring(head, s)
  BY <1>1, Places
<1>3. PICK k \in 0..Len(s) : n = At(head, s, k)
  BY <1>1, Places
<1>4. l.next[n] \in Ring(head, s)
  <2>1. l.next[At(head, s, k)] = At(head, s, k + 1) /\ k + 1 \in 0..(Len(s) + 1)
    BY <1>2 DEF Chain
  <2> QED BY <1>2, <1>3, <2>1
<1>5. PICK j \in 0..Len(s) : n = At(head, s, j + 1)
  <2>1. CASE k = 0
    <3>1. Len(s) \in 0..Len(s) /\ n = At(head, s, Len(s) + 1)
      BY <1>2, <1>3, <2>1
    <3> QED BY <3>1
  <2>2. CASE k # 0
    <3>1. k - 1 \in 0..Len(s) /\ (k - 1) + 1 = k
      BY <1>2, <2>2
    <3>2. n = At(head, s, (k - 1) + 1)
      BY <1>3, <3>1
    <3> QED BY <3>1, <3>2
  <2> QED BY <2>1, <2>2
<1>6. l.prev[n] \in Ring(head, s)
  <2>1. l.prev[At(head, s, j + 1)] = At(head, s, j) /\ j \in 0..(Len(s) + 1)
    BY <1>2 DEF Chain
  <2> QED BY <1>2, <1>5, <2>1
<1> QED BY <1>4, <1>6

(* A plan has no pointer to a local list head.                             *)
LEMMA NotLoose ==
    ASSUME NEW f, NEW P, NEW U, Planned(f, P, U, <<>>)
    PROVE  ~Loose(f)
<1>1. /\ P \in Seq(LNodes) /\ Chain(f.list_node, HEAD, P) /\ Subs(f.sub_list, ToSet(P), U, <<>>)
      /\ Aside(f.list_node, P) /\ ToSet(P) \subseteq Tasks /\ Ring(HEAD, P) = {HEAD} \union ToSet(P)
  BY PlannedFacts
<1>2. /\ HEAD \in LNodes /\ NEW_ADD \notin Tasks /\ HEAD # NEW_ADD /\ ADD \notin Tasks
  BY NodeSets
<1>3. ASSUME NEW n \in Tasks \union {HEAD} PROVE NEW_ADD \notin {f.list_node.next[n], f.list_node.prev[n]}
  <2>1. CASE n \in Ring(HEAD, P)
    <3>1. f.list_node.next[n] \in Ring(HEAD, P) /\ f.list_node.prev[n] \in Ring(HEAD, P)
      BY <1>1, <1>2, <2>1, StaysInRing
    <3> QED BY <1>1, <1>2, <3>1
  <2>2. CASE n \notin Ring(HEAD, P)
    <3>1. n \in Tasks \ ToSet(P)
      BY <1>1, <2>2
    <3>2. f.list_node.next[n] = n /\ f.list_node.prev[n] = n
      BY <1>1, <3>1, EmptyChain DEF Aside
    <3> QED BY <1>2, <3>1, <3>2
  <2> QED BY <2>1, <2>2
<1>4. ASSUME NEW n \in Tasks PROVE ADD \notin {f.sub_list.next[n], f.sub_list.prev[n]}
  <2>1. CASE n \in InStages(ToSet(P), U)
    <3>1. PICK t \in ToSet(P) : n \in Ring(t, U[t])
      BY <1>1, <2>1, SubsFacts
    <3> DEFINE s == U[t]
    <3>2. t \in SNodes /\ s \in Seq(SNodes) /\ Chain(f.sub_list, t, s) /\ Ring(t, s) \subseteq Tasks
      BY <1>1, SubsFacts
    <3>3. n \in Ring(t, s)
      BY <3>1
    <3> HIDE DEF s
    <3>4. f.sub_list.next[n] \in Ring(t, s) /\ f.sub_list.prev[n] \in Ring(t, s)
      BY <3>2, <3>3, StaysInRing
    <3> QED BY <1>2, <3>2, <3>4
  <2>2. CASE n \notin InStages(ToSet(P), U)
    <3>1. n \notin ToSet(<<>>)
      BY ShortLists
    <3>2. Chain(f.sub_list, n, <<>>)
      BY <1>1, <2>2, <3>1 DEF Subs
    <3>3. f.sub_list.next[n] = n /\ f.sub_list.prev[n] = n
      BY <3>2, EmptyChain
    <3> QED BY <1>2, <3>3
  <2> QED BY <2>1, <2>2
<1> QED BY <1>3, <1>4 DEF Loose

(* A straight call follows no NULL pointer, finds a list in adding_list    *)
(* and leaves no pointer to it behind.                                     *)
LEMMA NotDerailed ==
    ASSUME NEW M, NEW S, NEW t, NEW news, CallOk(heap, M, S, t, news),
           NEW f, NEW P, NEW U, Planned(f, P, U, <<>>)
    PROVE  ~Derails(t, news, f)
<1> DEFINE g == mthpc_taskflow_rlist_del(heap, news)
<1>1. /\ IsInjective(news) /\ Planned(heap, M, S, <<>>)
      /\ \A u \in {t} \union ToSet(news) : AgreesAt(heap, M, S, u)
  BY DEF CallOk
<1>2. ASSUME NEW u \in {t} \union ToSet(news), heap.is_sub[u] PROVE heap.main[u] # NULL
  <2>1. heap.main[u] \in ToSet(M)
    BY <1>1, <1>2 DEF AgreesAt
  <2> QED BY <1>1, <2>1, PlannedFacts, NodeSets
<1>3. Circular(g.sub_list, ADD)
  <2>1. PICK N, T, B : Cleared(heap, M, S, g, N, T, B, ToSet(news), Len(news))
    BY CallFacts
  <2> DEFINE l == g.sub_list
  <2>2. Subs(l, ToSet(N), T, B)
    BY <2>1 DEF Cleared, Planned
  <2> HIDE DEF l
  <2>3. l \in Memory(SNodes) /\ Chain(l, ADD, B) /\ B \in Seq(SNodes) /\ ADD \in SNodes /\ IsFiniteSet(SNodes)
    BY <2>2, SubsFacts, NodeSets DEF Subs
  <2>4. Circular(l, ADD)
    BY <2>3, WalkIsChain
  <2> QED BY <2>4 DEF l
<1>4. ~Loose(f)
  BY NotLoose
<1> QED BY <1>1, <1>2, <1>3, <1>4 DEF Derails
-----------------------------------------------------------------------------
(* mthpc_task_create() and mthpc_sub_task_create().                        *)

NewMain(h, t) == [h EXCEPT !.list_node = mthpc_list_add_tail(@, t, HEAD)]

NewSub(h, m, t) == [h EXCEPT !.sub_list = mthpc_list_add_tail(@, t, m),
                             !.is_sub[t] = TRUE, !.main[t] = m, !.nr[m] = @ + 1]

\* The plan (P, U) in f is that of h with the task t added.
Grown(h, M, S, f, P, U, t) ==
    /\ Planned(f, P, U, <<>>)
    /\ InStages(ToSet(P), U) = InStages(ToSet(M), S) \union {t}
    /\ \A x, y : Before(M, S, x, y) => Before(P, U, x, y)
    /\ Unflagged(h, M, S) => Unflagged(f, P, U)

(* A created task is the last main task.                                   *)
LEMMA MainCreated ==
    ASSUME NEW h, NEW M, NEW S, Planned(h, M, S, <<>>), NEW t \in Tasks, t \notin InStages(ToSet(M), S)
    PROVE  \E P, U : Grown(h, M, S, NewMain(h, t), P, U, t)
<1> DEFINE f == NewMain(h, t)
           P == Append(M, t)
           fields == {"list_node", "sub_list", "is_sub", "nr", "main"}
<1>1. /\ IsHeap(h) /\ M \in Seq(Tasks) /\ M \in Seq(LNodes) /\ Len(M) \in Nat
      /\ Chain(h.list_node, HEAD, M) /\ Subs(h.sub_list, ToSet(M), S, <<>>)
      /\ Ring(HEAD, M) = {HEAD} \union ToSet(M)
      /\ \A u \in Tasks : h.nr[u] = IF u \in ToSet(M) THEN Len(S[u]) + 1 ELSE 1
  BY PlannedFacts
<1>2. DOMAIN h = fields /\ h.list_node \in Memory(LNodes)
  BY <1>1 DEF IsHeap
<1>3. /\ DOMAIN f = fields /\ f.list_node = mthpc_list_add_tail(h.list_node, t, HEAD)
      /\ f.sub_list = h.sub_list /\ f.is_sub = h.is_sub /\ f.nr = h.nr /\ f.main = h.main
  BY <1>2 DEF NewMain
<1>4. P \in Seq(Tasks) /\ Len(P) = Len(M) + 1 /\ ToSet(P) = ToSet(M) \union {t}
  BY <1>1, AddedLast
<1>5. \A i \in 1..Len(M) : P[i] = M[i]
  BY <1>1
<1> HIDE DEF f
<1>6. t \notin ToSet(<<>>)
  BY ShortLists
<1>7. t \notin ToSet(M) /\ \E U : Subs(h.sub_list, ToSet(P), U, <<>>) /\ Begun(ToSet(M), S, ToSet(P), U, t)
  BY <1>1, <1>4, <1>6, AsHead
<1>8. /\ f.list_node \in Memory(LNodes) /\ Chain(f.list_node, HEAD, P)
      /\ SameAt(h.list_node, f.list_node, LNodes \ (Ring(HEAD, M) \union {t}))
  <2>1. t \in LNodes /\ HEAD \in LNodes /\ t \notin Ring(HEAD, M)
    BY <1>1, <1>7, NodeSets
  <2> DEFINE l == h.list_node
  <2>2. l \in Memory(LNodes) /\ M \in Seq(LNodes) /\ Chain(l, HEAD, M)
    BY <1>1, <1>2
  <2> HIDE DEF l
  <2>3. LET r == mthpc_list_add_tail(l, t, HEAD) IN
        /\ r \in Memory(LNodes) /\ Chain(r, HEAD, Append(M, t))
        /\ SameAt(l, r, LNodes \ (Ring(HEAD, M) \union {t}))
    BY <2>1, <2>2, ListAddTail, Zenon
  <2> QED BY <1>3, <2>3 DEF l
<1> HIDE DEF P
<1>9. PICK U : Subs(h.sub_list, ToSet(P), U, <<>>) /\ Begun(ToSet(M), S, ToSet(P), U, t)
  BY <1>7
<1>10. /\ U[t] = <<>> /\ (\A u \in ToSet(M) : U[u] = S[u])
       /\ InStages(ToSet(P), U) = InStages(ToSet(M), S) \union {t}
  BY <1>9 DEF Begun
<1>s. Aside(f.list_node, P)
  <2>1. ASSUME NEW n \in Tasks \ ToSet(P) PROVE n \notin ToSet(M) /\ SameAt(h.list_node, f.list_node, {n})
    <3>1. n \notin ToSet(M) /\ n \in LNodes \ (Ring(HEAD, M) \union {t})
      BY <1>1, <1>4, NodeSets
    <3> QED BY <1>8, <3>1 DEF SameAt
  <2>2. Aside(h.list_node, M)
    BY PlannedFacts
  <2> QED BY <2>1, <2>2, AsideKept
<1>11. IsHeap(f)
  BY <1>1, <1>3, <1>8 DEF IsHeap
<1>12. ASSUME NEW u \in Tasks PROVE f.nr[u] = IF u \in ToSet(P) THEN Len(U[u]) + 1 ELSE 1
  <2>1. CASE u = t
    <3>1. Len(U[t]) = 0
      BY <1>10
    <3>2. h.nr[t] = 1
      BY <1>1, <1>7
    <3> QED BY <1>3, <2>1, <3>1, <3>2
  <2>2. CASE u # t
    <3>1. u \in ToSet(P) <=> u \in ToSet(M)
      BY <1>4, <2>2
    <3>2. u \in ToSet(M) => U[u] = S[u]
      BY <1>10
    <3> QED BY <1>1, <1>3, <3>1, <3>2
  <2> QED BY <2>1, <2>2
<1>13. Planned(f, P, U, <<>>)
  <2>1. Subs(f.sub_list, ToSet(P), U, <<>>)
    BY <1>3, <1>9
  <2> QED BY <1>4, <1>8, <1>11, <1>12, <1>s, <2>1 DEF Planned
<1>14. ASSUME NEW x, NEW y, Before(M, S, x, y) PROVE Before(P, U, x, y)
  <2>1. \A i \in 1..Len(M) : StageAt(M, S, i) = StageAt(P, U, i) /\ i \in 1..Len(P)
    <3>1. ASSUME NEW i \in 1..Len(M) PROVE StageAt(M, S, i) = StageAt(P, U, i) /\ i \in 1..Len(P)
      <4>1. M[i] \in ToSet(M)
        BY <1>1, InList
      <4>2. P[i] = M[i] /\ U[M[i]] = S[M[i]]
        BY <1>5, <1>10, <4>1
      <4> QED BY <1>1, <1>4, <4>2 DEF StageAt
    <3> QED BY <3>1
  <2>2. PICK i, j \in 1..Len(M) : i < j /\ x \in StageAt(M, S, i) /\ y \in StageAt(M, S, j)
    BY <1>14 DEF Before
  <2> QED BY <2>1, <2>2 DEF Before
<1>15. Unflagged(h, M, S) => Unflagged(f, P, U)
  BY <1>3, <1>4, <1>10 DEF Unflagged
<1>16. Grown(h, M, S, f, P, U, t)
  BY <1>10, <1>13, <1>14, <1>15 DEF Grown
<1> QED BY <1>16 DEF f

(* A created sub task is in the stage of its main task.                    *)
LEMMA SubCreated ==
    ASSUME NEW h, NEW M, NEW S, Planned(h, M, S, <<>>), NEW m \in ToSet(M),
           NEW t \in Tasks, t \notin InStages(ToSet(M), S)
    PROVE  \E P, U : Grown(h, M, S, NewSub(h, m, t), P, U, t)
<1> DEFINE f == NewSub(h, m, t)
           fields == {"list_node", "sub_list", "is_sub", "nr", "main"}
<1>1. /\ IsHeap(h) /\ M \in Seq(Tasks) /\ Len(M) \in Nat /\ ToSet(M) \subseteq Tasks
      /\ Chain(h.list_node, HEAD, M) /\ Subs(h.sub_list, ToSet(M), S, <<>>)
      /\ \A u \in Tasks : h.nr[u] = IF u \in ToSet(M) THEN Len(S[u]) + 1 ELSE 1
      /\ S \in [Tasks -> Seq(Tasks)]
  BY PlannedFacts
<1>2. /\ DOMAIN h = fields /\ h.list_node \in Memory(LNodes) /\ h.is_sub \in [Tasks -> BOOLEAN]
      /\ h.nr \in [Tasks -> Int] /\ h.main \in [Tasks -> Tasks \union {NULL}]
  BY <1>1 DEF IsHeap
<1>3. /\ DOMAIN f = fields /\ f.list_node = h.list_node
      /\ f.sub_list = mthpc_list_add_tail(h.sub_list, t, m)
      /\ f.is_sub = [h.is_sub EXCEPT ![t] = TRUE] /\ f.nr = [h.nr EXCEPT ![m] = @ + 1]
      /\ f.main = [h.main EXCEPT ![t] = m]
  BY <1>2 DEF NewSub
<1> HIDE DEF f
<1>m. m \in Tasks /\ t \notin ToSet(<<>>)
  BY <1>1, ShortLists
<1>4. PICK U : /\ Subs(mthpc_list_add_tail(h.sub_list, t, m), ToSet(M), U, <<>>)
               /\ Gained(ToSet(M), S, U, m, {t}, 1)
  BY <1>1, <1>m, SubIn
<1>5. /\ Ring(m, U[m]) = Ring(m, S[m]) \union {t} /\ Len(U[m]) = Len(S[m]) + 1
      /\ \A u \in ToSet(M) \ {m} : U[u] = S[u]
      /\ InStages(ToSet(M), U) = InStages(ToSet(M), S) \union {t}
  BY <1>4 DEF Gained
<1>6. IsHeap(f)
  <2>1. f.sub_list \in Memory(SNodes)
    BY <1>3, <1>4 DEF Subs
  <2>2. f.is_sub \in [Tasks -> BOOLEAN]
    BY <1>2, <1>3
  <2>3. f.nr \in [Tasks -> Int]
    BY <1>2, <1>3, <1>m
  <2>4. f.main \in [Tasks -> Tasks \union {NULL}]
    BY <1>2, <1>3, <1>m
  <2> QED BY <1>2, <1>3, <2>1, <2>2, <2>3, <2>4 DEF IsHeap
<1>7. ASSUME NEW u \in Tasks PROVE f.nr[u] = IF u \in ToSet(M) THEN Len(U[u]) + 1 ELSE 1
  <2>1. f.nr[u] = IF u = m THEN h.nr[m] + 1 ELSE h.nr[u]
    BY <1>2, <1>3, <1>m
  <2>2. CASE u = m
    <3>1. h.nr[m] = Len(S[m]) + 1
      BY <1>1, <1>m
    <3>2. Len(S[m]) \in Nat
      BY <1>1, <1>m, LenProperties
    <3> QED BY <1>5, <2>1, <2>2, <3>1, <3>2
  <2>3. CASE u # m
    <3>1. u \in ToSet(M) => U[u] = S[u]
      BY <1>5, <2>3
    <3>2. f.nr[u] = h.nr[u]
      BY <2>1, <2>3
    <3> QED BY <1>1, <3>1, <3>2
  <2> QED BY <2>2, <2>3
<1>8. Planned(f, M, U, <<>>)
  <2>1. Subs(f.sub_list, ToSet(M), U, <<>>)
    BY <1>3, <1>4
  <2>2. Aside(f.list_node, M)
    BY <1>3, PlannedFacts
  <2> QED BY <1>1, <1>3, <1>6, <1>7, <2>1, <2>2 DEF Planned
<1>9. ASSUME NEW x, NEW y, Before(M, S, x, y) PROVE Before(M, U, x, y)
  <2>1. ASSUME NEW i \in 1..Len(M) PROVE StageAt(M, S, i) \subseteq StageAt(M, U, i)
    <3>1. M[i] \in ToSet(M)
      BY <1>1, InList
    <3> QED BY <1>5, <3>1 DEF StageAt
  <2>2. PICK i, j \in 1..Len(M) : i < j /\ x \in StageAt(M, S, i) /\ y \in StageAt(M, S, j)
    BY <1>9 DEF Before
  <2>3. x \in StageAt(M, U, i) /\ y \in StageAt(M, U, j)
    BY <2>1, <2>2
  <2> QED BY <2>2, <2>3 DEF Before
<1>10. ASSUME Unflagged(h, M, S) PROVE Unflagged(f, M, U)
  <2>1. ASSUME NEW u \in InStages(ToSet(M), U), ~f.is_sub[u] PROVE u \in ToSet(M)
    <3>1. u \in Tasks
      BY <1>4, SubsFacts
    <3>2. u # t
      BY <1>2, <1>3, <2>1
    <3>3. ~h.is_sub[u]
      BY <1>2, <1>3, <2>1, <3>1, <3>2
    <3> QED BY <1>5, <1>10, <2>1, <3>2, <3>3 DEF Unflagged
  <2> QED BY <2>1 DEF Unflagged
<1>11. Grown(h, M, S, f, M, U, t)
  BY <1>5, <1>8, <1>9, <1>10 DEF Grown
<1> QED BY <1>11 DEF f
-----------------------------------------------------------------------------
(* The invariant: the heap is a plan of the created tasks that keeps what  *)
(* was asked for, and await() is at a stage of it, with the earlier ones   *)
(* complete and the later ones idle.                                       *)

Ready(M, S) ==
    /\ Planned(heap, M, S, <<>>) /\ InStages(ToSet(M), S) = Created
    /\ Unflagged(heap, M, S)
    /\ \A p \in order : Before(M, S, p[1], p[2])

\* The tasks of the stages before that of the k-th main task.
Earlier(M, S, k) == {t \in Tasks : \E i \in 1..Len(M) : i < k /\ t \in StageAt(M, S, i)}

Complete(X) == {t \in X : pc[t] = "complete"}

AllIdle(M, S, k) == \A t \in StageAt(M, S, k) : pc[t] = "idle"

\* The main task and j - 1 of its sub tasks, s, are scheduled.
Scheduled(m, s, j) ==
    /\ j \in 1..(Len(s) + 1) /\ sub_current = At(m, s, j) /\ nr_completed_sub_task = j
    /\ pc[m] # "idle"
    /\ \A i \in 1..Len(s) : pc[s[i]] # "idle" <=> i < j

AtStage(M, S, k) ==
    /\ k \in 1..(Len(M) + 1) /\ current = At(HEAD, M, k)
    /\ \A t \in Earlier(M, S, k) : pc[t] = "complete"
    /\ \A i \in 1..Len(M) : k < i => AllIdle(M, S, i)
    /\ nr_completed = Cardinality(Earlier(M, S, k))
    /\ mpc \in {"stage", "main"} /\ k \in 1..Len(M) => AllIdle(M, S, k)
    /\ mpc \in {"main", "subs"} => k \in 1..Len(M)
    /\ mpc = "main" => completion = [cnt |-> 0, nr |-> heap.nr[M[k]]] /\ nr_completed_sub_task = 0
    /\ mpc = "subs" =>
          /\ \E j \in 1..(Len(S[M[k]]) + 1) : Scheduled(M[k], S[M[k]], j)
          /\ completion = [cnt |-> Cardinality(Complete(StageAt(M, S, k))), nr |-> heap.nr[M[k]]]
    /\ mpc = "done" => k = Len(M) + 1

Building == (\A t \in Tasks : pc[t] = "idle") /\ nr_completed = 0

Awaited(M, S) == IF mpc = "build" THEN Building ELSE \E k \in 1..(Len(M) + 1) : AtStage(M, S, k)

Types ==
    /\ nr_task \in 0..MaxTask /\ moves \in 0..MaxMoves
    /\ order \subseteq Tasks \X Tasks
    /\ mpc \in {"build", "stage", "main", "subs", "done"}
    /\ current \in Tasks \union {HEAD} /\ sub_current \in Tasks \union {HEAD}
    /\ nr_completed_sub_task \in 0..MaxTask
    /\ completion \in [cnt : 0..MaxTask, nr : 0..MaxTask]
    /\ pc \in [Tasks -> {"idle", "queued", "func", "complete"}]
    /\ runs \in [Tasks -> Nat]

Works ==
    \A t \in Tasks :
        /\ runs[t] = IF pc[t] \in {"func", "complete"} THEN 1 ELSE 0
        /\ t \notin Created => pc[t] = "idle"

FlowInv == Types /\ Works /\ \E M, S : Ready(M, S) /\ Awaited(M, S)

(* A list of one head and s has as many nodes as they are.                 *)
LEMMA RingSize ==
    ASSUME NEW Nodes, NEW m \in Nodes, NEW s \in Seq(Nodes), IsInjective(s), m \notin ToSet(s)
    PROVE  IsFiniteSet(Ring(m, s)) /\ Cardinality(Ring(m, s)) = Len(s) + 1
<1> DEFINE f == [k \in 0..Len(s) |-> At(m, s, k)]
           D == 0..Len(s)
           R == Ring(m, s)
<1>1. /\ Len(s) \in Nat
      /\ \A k \in 0..(Len(s) + 1) : At(m, s, k) \in Ring(m, s)
      /\ \A j, k \in 0..Len(s) : At(m, s, j) = At(m, s, k) => j = k
      /\ \A n \in Ring(m, s) : \E k \in 0..Len(s) : n = At(m, s, k)
  BY Places
<1>2. IsFiniteSet(D) /\ Cardinality(D) = Len(s) + 1
  BY <1>1, FS_Interval
<1>3. \A k \in D : f[k] = At(m, s, k) /\ At(m, s, k) \in R
  BY <1>1
<1>4. f \in [D -> R]
  BY <1>3
<1>5. f \in Surjection(D, R)
  BY <1>1, <1>3, <1>4 DEF Surjection
<1>6. f \in Injection(D, R)
  BY <1>1, <1>3, <1>4 DEF Injection, IsInjective
<1> HIDE DEF f, D, R
<1>7. IsFiniteSet(R) /\ Cardinality(R) = Cardinality(D)
  BY <1>2, <1>5, <1>6, FS_Surjection
<1> QED BY <1>2, <1>7 DEF R

(* The stages of a plan: which tasks they hold, and how many.              *)
LEMMA StagesOf ==
    ASSUME NEW h, NEW M, NEW S, Planned(h, M, S, <<>>)
    PROVE  /\ Len(M) \in Nat /\ M \in Seq(Tasks)
           /\ \A t : t \in InStages(ToSet(M), S) <=> \E i \in 1..Len(M) : t \in StageAt(M, S, i)
           /\ \A i, j \in 1..Len(M) : \A t : t \in StageAt(M, S, i) /\ t \in StageAt(M, S, j) => i = j
           /\ \A i \in 1..Len(M) : /\ StageAt(M, S, i) \subseteq Tasks /\ IsFiniteSet(StageAt(M, S, i))
                                   /\ Cardinality(StageAt(M, S, i)) = Len(S[M[i]]) + 1
                                   /\ h.nr[M[i]] = Len(S[M[i]]) + 1
                                   /\ M[i] \in Tasks /\ M[i] \in ToSet(M) /\ M[i] \notin ToSet(S[M[i]])
                                   /\ S[M[i]] \in Seq(Tasks) /\ IsInjective(S[M[i]]) /\ Len(S[M[i]]) \in Nat
                                   /\ StageAt(M, S, i) = Ring(M[i], S[M[i]])
<1>1. /\ M \in Seq(Tasks) /\ Len(M) \in Nat /\ Subs(h.sub_list, ToSet(M), S, <<>>)
      /\ \A x : x \in ToSet(M) <=> \E i \in 1..Len(M) : M[i] = x
      /\ \A i, j \in 1..Len(M) : M[i] = M[j] => i = j
      /\ \A i \in 1..Len(M) : M[i] \in ToSet(M) /\ M[i] \in Tasks
      /\ \A t \in Tasks : h.nr[t] = IF t \in ToSet(M) THEN Len(S[t]) + 1 ELSE 1
  BY PlannedFacts
<1>2. /\ \A x : x \in InStages(ToSet(M), S) <=> \E t \in ToSet(M) : x \in Ring(t, S[t])
      /\ \A t \in ToSet(M) : /\ S[t] \in Seq(Tasks) /\ IsInjective(S[t]) /\ t \notin ToSet(S[t])
                             /\ Ring(t, S[t]) \subseteq Tasks
  BY <1>1, SubsFacts
<1>3. \A t, u \in ToSet(M) : t # u => Ring(t, S[t]) \intersect Ring(u, S[u]) = {}
  BY <1>1 DEF Subs
<1>4. \A i \in 1..Len(M) : StageAt(M, S, i) = Ring(M[i], S[M[i]])
  BY DEF StageAt
<1>5. ASSUME NEW i \in 1..Len(M)
      PROVE  /\ IsFiniteSet(StageAt(M, S, i)) /\ Cardinality(StageAt(M, S, i)) = Len(S[M[i]]) + 1
             /\ Len(S[M[i]]) \in Nat
  <2> DEFINE m == M[i]
             s == S[m]
  <2>1. m \in Tasks /\ s \in Seq(Tasks) /\ IsInjective(s) /\ m \notin ToSet(s)
    BY <1>1, <1>2
  <2> HIDE DEF s, m
  <2>2. IsFiniteSet(Ring(m, s)) /\ Cardinality(Ring(m, s)) = Len(s) + 1
    BY <2>1, RingSize
  <2>3. Len(s) \in Nat
    BY <2>1, LenProperties
  <2> QED BY <1>4, <2>2, <2>3 DEF s, m
<1>6. \A t : t \in InStages(ToSet(M), S) <=> \E i \in 1..Len(M) : t \in StageAt(M, S, i)
  BY <1>1, <1>2, <1>4
<1>7. ASSUME NEW i \in 1..Len(M), NEW j \in 1..Len(M), NEW t, t \in StageAt(M, S, i), t \in StageAt(M, S, j)
      PROVE  i = j
  <2> DEFINE m == M[i]
             n == M[j]
  <2>a. m \in ToSet(M) /\ n \in ToSet(M) /\ t \in Ring(m, S[m]) /\ t \in Ring(n, S[n])
    BY <1>1, <1>4, <1>7
  <2> HIDE DEF m, n
  <2>b. m = n
    BY <1>3, <2>a
  <2>1. M[i] = M[j]
    BY <2>b DEF m, n
  <2> QED BY <1>1, <2>1
<1> QED BY <1>1, <1>2, <1>4, <1>5, <1>6, <1>7

(* Where the walks of await() go.                                          *)
LEMMA PlanLinks ==
    ASSUME NEW h, NEW M, NEW S, Planned(h, M, S, <<>>)
    PROVE  /\ h.list_node.next[HEAD] = At(HEAD, M, 1)
           /\ \A k \in 1..Len(M) : /\ h.list_node.next[M[k]] = At(HEAD, M, k + 1)
                                   /\ At(HEAD, M, k) = M[k] /\ M[k] # HEAD
           /\ At(HEAD, M, Len(M) + 1) = HEAD
           /\ \A k \in 1..Len(M) : LET s == S[M[k]] IN
                 /\ h.sub_list.next[M[k]] = At(M[k], s, 1)
                 /\ \A j \in 1..Len(s) : /\ h.sub_list.next[s[j]] = At(M[k], s, j + 1)
                                         /\ At(M[k], s, j) = s[j] /\ s[j] # M[k] /\ s[j] \in Tasks
                 /\ At(M[k], s, Len(s) + 1) = M[k]
<1>1. /\ IsHeap(h) /\ M \in Seq(Tasks) /\ M \in Seq(LNodes) /\ Len(M) \in Nat
      /\ Chain(h.list_node, HEAD, M) /\ Subs(h.sub_list, ToSet(M), S, <<>>)
      /\ \A i \in 1..Len(M) : M[i] \in ToSet(M) /\ M[i] \in Tasks
  BY PlannedFacts
<1>2. h.list_node \in Memory(LNodes) /\ h.sub_list \in Memory(SNodes) /\ HEAD \in LNodes /\ HEAD \notin Tasks
  BY <1>1, NodeSets DEF IsHeap
<1>3. /\ h.list_node.next[HEAD] = At(HEAD, M, 1)
      /\ \A k \in 1..Len(M) : h.list_node.next[M[k]] = At(HEAD, M, k + 1)
  BY <1>1, <1>2, Ends
<1>4. \A k \in 1..Len(M) : At(HEAD, M, k) = M[k] /\ M[k] # HEAD
  BY <1>1, <1>2 DEF At
<1>5. At(HEAD, M, Len(M) + 1) = HEAD
  BY <1>1 DEF At
<1>6. ASSUME NEW k \in 1..Len(M)
      PROVE  LET s == S[M[k]] IN
                 /\ h.sub_list.next[M[k]] = At(M[k], s, 1)
                 /\ \A j \in 1..Len(s) : /\ h.sub_list.next[s[j]] = At(M[k], s, j + 1)
                                         /\ At(M[k], s, j) = s[j] /\ s[j] # M[k] /\ s[j] \in Tasks
                 /\ At(M[k], s, Len(s) + 1) = M[k]
  <2> DEFINE m == M[k]
             s == S[m]
             l == h.sub_list
  <2>1. /\ m \in SNodes /\ s \in Seq(Tasks) /\ s \in Seq(SNodes) /\ m \notin ToSet(s)
        /\ Chain(l, m, s) /\ l \in Memory(SNodes)
    BY <1>1, <1>2, SubsFacts
  <2> HIDE DEF m, s, l
  <2>2. l.next[m] = At(m, s, 1) /\ \A j \in 1..Len(s) : l.next[s[j]] = At(m, s, j + 1)
    BY <2>1, Ends
  <2>3. \A j \in 1..Len(s) : s[j] # m /\ s[j] \in Tasks
    BY <2>1, InList
  <2>4. Len(s) \in Nat
    BY <2>1, LenProperties
  <2>5. At(m, s, Len(s) + 1) = m /\ \A j \in 1..Len(s) : At(m, s, j) = s[j]
    BY <2>4 DEF At
  <2> QED BY <2>2, <2>3, <2>5 DEF m, s, l
<1> QED BY <1>3, <1>4, <1>5, <1>6

(* The stages before the next one.                                         *)
LEMMA EarlierSets ==
    ASSUME NEW h, NEW M, NEW S, Planned(h, M, S, <<>>)
    PROVE  /\ \A k : Earlier(M, S, k) \subseteq Tasks /\ IsFiniteSet(Earlier(M, S, k))
           /\ Earlier(M, S, 1) = {} /\ Earlier(M, S, Len(M) + 1) = InStages(ToSet(M), S)
           /\ \A k \in 1..Len(M) : /\ Earlier(M, S, k + 1) = Earlier(M, S, k) \union StageAt(M, S, k)
                                   /\ Earlier(M, S, k) \intersect StageAt(M, S, k) = {}
                                   /\ Cardinality(Earlier(M, S, k + 1)) =
                                         Cardinality(Earlier(M, S, k)) + Cardinality(StageAt(M, S, k))
<1>1. /\ Len(M) \in Nat
      /\ \A t : t \in InStages(ToSet(M), S) <=> \E i \in 1..Len(M) : t \in StageAt(M, S, i)
      /\ \A i, j \in 1..Len(M) : \A t : t \in StageAt(M, S, i) /\ t \in StageAt(M, S, j) => i = j
      /\ \A i \in 1..Len(M) : StageAt(M, S, i) \subseteq Tasks /\ IsFiniteSet(StageAt(M, S, i))
  BY StagesOf
<1>2. \A k, t : t \in Earlier(M, S, k) <=> \E i \in 1..Len(M) : i < k /\ t \in StageAt(M, S, i)
  BY <1>1 DEF Earlier
<1>3. ASSUME NEW k PROVE Earlier(M, S, k) \subseteq Tasks /\ IsFiniteSet(Earlier(M, S, k))
  <2>1. Earlier(M, S, k) \in SUBSET Tasks /\ IsFiniteSet(Tasks)
    BY NodeSets DEF Earlier
  <2> QED BY <2>1, FS_Subset
<1>4. Earlier(M, S, 1) = {}
  <2>1. \A i \in 1..Len(M) : ~(i < 1)
    BY <1>1
  <2> QED BY <1>2, <2>1
<1>5. Earlier(M, S, Len(M) + 1) = InStages(ToSet(M), S)
  <2>1. \A i \in 1..Len(M) : i < Len(M) + 1
    BY <1>1
  <2>2. \A t : t \in Earlier(M, S, Len(M) + 1) <=> \E i \in 1..Len(M) : t \in StageAt(M, S, i)
    BY <1>2, <2>1
  <2>3. \A t : t \in Earlier(M, S, Len(M) + 1) <=> t \in InStages(ToSet(M), S)
    BY <1>1, <2>2
  <2> QED BY <2>3
<1>6. ASSUME NEW k \in 1..Len(M)
      PROVE  /\ Earlier(M, S, k + 1) = Earlier(M, S, k) \union StageAt(M, S, k)
             /\ Earlier(M, S, k) \intersect StageAt(M, S, k) = {}
             /\ Cardinality(Earlier(M, S, k + 1)) = Cardinality(Earlier(M, S, k)) + Cardinality(StageAt(M, S, k))
  <2> DEFINE a == Earlier(M, S, k)
             b == StageAt(M, S, k)
  <2>1. \A i \in 1..Len(M) : i < k + 1 <=> i < k \/ i = k
    BY <1>1
  <2>2. Earlier(M, S, k + 1) = a \union b
    BY <1>2, <2>1
  <2>3. a \intersect b = {}
    <3>1. \A i \in 1..Len(M) : i < k => i # k
      BY <1>1
    <3> QED BY <1>1, <1>2, <3>1
  <2>4. IsFiniteSet(a) /\ IsFiniteSet(b)
    BY <1>1, <1>3
  <2> HIDE DEF a, b
  <2>5. Cardinality(a \union b) = Cardinality(a) + Cardinality(b) - Cardinality(a \intersect b)
    BY <2>4, FS_Union
  <2>6. Cardinality(a \intersect b) = 0 /\ Cardinality(a) \in Nat /\ Cardinality(b) \in Nat
    BY <2>3, <2>4, FS_EmptySet, FS_CardinalityType
  <2>7. Cardinality(a \union b) = Cardinality(a) + Cardinality(b)
    BY <2>5, <2>6
  <2> QED BY <2>2, <2>3, <2>7 DEF a, b
<1> QED BY <1>3, <1>4, <1>5, <1>6

(* UpToDate(), which looks at the lists, of a plan.                        *)
LEMMA UpToDateAgrees ==
    ASSUME NEW M, NEW S, Planned(heap, M, S, <<>>)
    PROVE  /\ MainTasks(heap) = M
           /\ \A m \in ToSet(M) : Walk(heap.sub_list, m) = S[m]
           /\ \A t : UpToDate(t) <=> AgreesAt(heap, M, S, t)
<1>1. /\ IsHeap(heap) /\ M \in Seq(LNodes) /\ Chain(heap.list_node, HEAD, M)
      /\ Subs(heap.sub_list, ToSet(M), S, <<>>)
  BY PlannedFacts
<1>2. /\ heap.list_node \in Memory(LNodes) /\ heap.sub_list \in Memory(SNodes)
      /\ HEAD \in LNodes /\ IsFiniteSet(LNodes) /\ IsFiniteSet(SNodes)
  BY <1>1, NodeSets DEF IsHeap
<1>3. MainTasks(heap) = M
  <2>1. Walk(heap.list_node, HEAD) = M
    BY <1>1, <1>2, WalkIsChain
  <2> QED BY <2>1 DEF MainTasks
<1>4. ASSUME NEW m \in ToSet(M) PROVE Walk(heap.sub_list, m) = S[m]
  <2> DEFINE s == S[m]
             l == heap.sub_list
  <2>1. m \in SNodes /\ s \in Seq(SNodes) /\ Chain(l, m, s) /\ l \in Memory(SNodes) /\ IsFiniteSet(SNodes)
    BY <1>1, <1>2, SubsFacts
  <2> HIDE DEF s, l
  <2>2. Walk(l, m) = s
    BY <2>1, WalkIsChain
  <2> QED BY <2>2 DEF s, l
<1>5. ASSUME NEW t PROVE UpToDate(t) <=> AgreesAt(heap, M, S, t)
  BY <1>3, <1>4 DEF UpToDate, AgreesAt
<1> QED BY <1>3, <1>4, <1>5

(* A task is created.                                                      *)
LEMMA GrownReady ==
    ASSUME NEW M, NEW S, Ready(M, S), nr_task \in Nat,
           NEW P, NEW U, Grown(heap, M, S, heap', P, U, nr_task'), nr_task' = nr_task + 1, order' = order
    PROVE  Ready(P, U)'
<1>1. /\ Planned(heap, M, S, <<>>) /\ InStages(ToSet(M), S) = Created
      /\ Unflagged(heap, M, S) /\ \A p \in order : Before(M, S, p[1], p[2])
  BY DEF Ready
<1>2. /\ Planned(heap', P, U, <<>>)
      /\ InStages(ToSet(P), U) = InStages(ToSet(M), S) \union {nr_task'}
      /\ \A x, y : Before(M, S, x, y) => Before(P, U, x, y)
      /\ Unflagged(heap', P, U)
  BY <1>1 DEF Grown
<1>3. Created' = Created \union {nr_task'}
  BY DEF Created
<1>4. InStages(ToSet(P), U) = Created'
  BY <1>1, <1>2, <1>3
<1>5. \A p \in order' : Before(P, U, p[1], p[2])
  BY <1>1, <1>2
<1> QED BY <1>2, <1>4, <1>5 DEF Ready

\* The task to be created is in no stage yet.
LEMMA NextTask ==
    ASSUME NEW M, NEW S, Ready(M, S), nr_task \in Nat, mthpc_task_alloc
    PROVE  /\ nr_task' \in Tasks /\ nr_task' = nr_task + 1 /\ nr_task' \notin InStages(ToSet(M), S)
           /\ Planned(heap, M, S, <<>>)
<1>1. nr_task' = nr_task + 1 /\ nr_task < MaxTask
  BY DEF mthpc_task_alloc
<1>2. nr_task' \in Tasks /\ nr_task' \notin Created
  BY <1>1, TaskflowAssumption DEF Tasks, Created
<1> QED BY <1>1, <1>2 DEF Ready

(* mthpc_task_create().                                                    *)
LEMMA TaskCreateReady ==
    ASSUME NEW M, NEW S, Ready(M, S), nr_task \in Nat, mthpc_task_create
    PROVE  \E P, U : Ready(P, U)'
<1>1. mthpc_task_alloc /\ order' = order
  BY DEF mthpc_task_create
<1>2. heap' = NewMain(heap, nr_task')
  BY DEF mthpc_task_create, NewMain
<1>3. /\ nr_task' \in Tasks /\ nr_task' = nr_task + 1 /\ nr_task' \notin InStages(ToSet(M), S)
      /\ Planned(heap, M, S, <<>>)
  BY <1>1, NextTask
<1> DEFINE t == nr_task'
<1> HIDE DEF t
<1>4. PICK P, U : Grown(heap, M, S, NewMain(heap, t), P, U, t)
  BY <1>3, MainCreated DEF t
<1>5. Grown(heap, M, S, heap', P, U, nr_task')
  BY <1>2, <1>4 DEF t
<1>6. Ready(P, U)'
  BY <1>1, <1>3, <1>5, GrownReady
<1> QED BY <1>6

(* mthpc_sub_task_create().                                                *)
LEMMA SubTaskCreateReady ==
    ASSUME NEW M, NEW S, Ready(M, S), nr_task \in Nat, NEW m \in Created, mthpc_sub_task_create(m),
           astray' = "no"
    PROVE  \E P, U : Ready(P, U)'
<1>1. mthpc_task_alloc /\ order' = order /\ m \in ToSet(MainTasks(heap))
  BY DEF mthpc_sub_task_create
<1>2. heap' = NewSub(heap, m, nr_task')
  BY DEF mthpc_sub_task_create, NewSub
<1>3. /\ nr_task' \in Tasks /\ nr_task' = nr_task + 1 /\ nr_task' \notin InStages(ToSet(M), S)
      /\ Planned(heap, M, S, <<>>)
  BY <1>1, NextTask
<1>4. m \in ToSet(M)
  BY <1>1, <1>3, UpToDateAgrees
<1> DEFINE t == nr_task'
<1> HIDE DEF t
<1>5. PICK P, U : Grown(heap, M, S, NewSub(heap, m, t), P, U, t)
  BY <1>3, <1>4, SubCreated DEF t
<1>6. Grown(heap, M, S, heap', P, U, nr_task')
  BY <1>2, <1>5 DEF t
<1>7. Ready(P, U)'
  BY <1>1, <1>3, <1>6, GrownReady
<1> QED BY <1>7

(* A call that leaves astray at "no" is straight.                          *)
LEMMA StraightCall ==
    ASSUME NEW M, NEW S, Ready(M, S), NEW t \in Created, NEW news \in News, NEW side,
           AstrayAfter(side, t, news) = "no", Created \subseteq Tasks
    PROVE  CallOk(heap, M, S, t, news) /\ (Len(news) = 1 \/ Neighbour(side, t, news) # HEAD)
<1>1. Planned(heap, M, S, <<>>)
  BY DEF Ready
<1>2. /\ \A u \in {t} \union ToSet(news) : UpToDate(u)
      /\ ~OwnTask(t, news)
      /\ ~(Len(news) > 1 /\ Neighbour(side, t, news) = HEAD)
  BY DEF AstrayAfter
<1>3. /\ IsInjective(news) /\ t \notin ToSet(news)
      /\ \A u \in {t} \union ToSet(news) : heap.is_sub[u] => heap.main[u] \notin ToSet(news)
  BY <1>2 DEF OwnTask
<1>4. \A u \in {t} \union ToSet(news) : AgreesAt(heap, M, S, u)
  BY <1>1, <1>2, UpToDateAgrees
<1>5. CallOk(heap, M, S, t, news)
  BY <1>1, <1>3, <1>4 DEF CallOk
<1>6. Len(news) = 1 \/ Len(news) = 2
  <2>1. (\E x \in Tasks : news = <<x>>) \/ (\E x, y \in Tasks : news = <<x, y>>)
    BY DEF News
  <2>2. ASSUME NEW x \in Tasks, news = <<x>> PROVE Len(news) = 1
    BY <2>2
  <2>3. ASSUME NEW x \in Tasks, NEW y \in Tasks, news = <<x, y>> PROVE Len(news) = 2
    BY <2>3
  <2> QED BY <2>1, <2>2, <2>3
<1> QED BY <1>2, <1>5, <1>6

(* Tasks are moved.                                                        *)
LEMMA MovedReady ==
    ASSUME NEW M, NEW S, Ready(M, S), order \subseteq Tasks \X Tasks, NEW news, NEW new,
           NEW P, NEW U, MovedTo(heap, M, S, heap', P, U, ToSet(news)),
           nr_task' = nr_task, order' = Revoked(news) \union new,
           \A p \in new : Before(P, U, p[1], p[2])
    PROVE  Ready(P, U)'
<1>1. /\ InStages(ToSet(M), S) = Created /\ Unflagged(heap, M, S)
      /\ \A p \in order : Before(M, S, p[1], p[2])
  BY DEF Ready
<1>2. /\ Planned(heap', P, U, <<>>) /\ InStages(ToSet(P), U) = InStages(ToSet(M), S)
      /\ \A x, y \in Tasks \ ToSet(news) : Before(M, S, x, y) => Before(P, U, x, y)
      /\ Unflagged(heap', P, U)
  BY <1>1 DEF MovedTo
<1>3. ASSUME NEW p \in order' PROVE Before(P, U, p[1], p[2])
  <2>1. CASE p \in new
    BY <2>1
  <2>2. CASE p \in Revoked(news)
    <3>1. p \in order /\ p[1] \notin ToSet(news) /\ p[2] \notin ToSet(news)
      BY <2>2 DEF Revoked
    <3>2. p[1] \in Tasks /\ p[2] \in Tasks
      BY <3>1
    <3> QED BY <1>1, <1>2, <3>1, <3>2
  <2> QED BY <2>1, <2>2
<1>4. InStages(ToSet(P), U) = Created'
  BY <1>1, <1>2 DEF Created
<1> QED BY <1>2, <1>3, <1>4 DEF Ready

(* precede() makes the order that is asked for.                            *)
LEMMA PrecedeReady ==
    ASSUME NEW M, NEW S, Ready(M, S), order \subseteq Tasks \X Tasks, Created \subseteq Tasks,
           NEW t \in Created, NEW news \in News, mthpc_taskflow_precede(t, news), astray' = "no"
    PROVE  (\E P, U : Ready(P, U)') /\ order' \subseteq Tasks \X Tasks /\ mpc' = mpc
<1> DEFINE X == ToSet(news)
           f == mthpc_taskflow_precede_result(heap, t, news)
           new == {<<u, t>> : u \in X}
<1>a. /\ AstrayAfter("prev", t, news) = "no" /\ nr_task' = nr_task
      /\ Derails(t, news, f) \/ (heap' = f /\ order' = Revoked(news) \union new /\ mpc' = mpc)
  BY DEF mthpc_taskflow_precede, Call
<1> HIDE DEF f, new
<1>2. CallOk(heap, M, S, t, news) /\ (Len(news) = 1 \/ Neighbour("prev", t, news) # HEAD)
  BY <1>a, StraightCall
<1>n. Len(news) = 1 \/ mthpc_taskflow_rlist_del(heap, news).list_node.prev[MainOf(heap, t)] # HEAD
  BY <1>2 DEF Neighbour
<1>3. PICK P, U : /\ MovedTo(heap, M, S, f, P, U, X)
                  /\ \A u \in X : Before(P, U, u, t)
  BY <1>2, <1>n, PrecedeMoves DEF f
<1>d. ~Derails(t, news, f)
  <2>1. Planned(f, P, U, <<>>)
    BY <1>3 DEF MovedTo
  <2> QED BY <1>2, <2>1, NotDerailed
<1>1. heap' = f /\ order' = Revoked(news) \union new /\ nr_task' = nr_task /\ mpc' = mpc
  BY <1>a, <1>d
<1>4. X \subseteq Tasks
  BY <1>2, CallFacts
<1>5. \A p \in new : Before(P, U, p[1], p[2])
  BY <1>3 DEF new
<1>6. MovedTo(heap, M, S, heap', P, U, ToSet(news))
  BY <1>1, <1>3
<1> HIDE DEF X
<1>7. Ready(P, U)'
  BY <1>1, <1>5, <1>6, MovedReady
<1>8. order' \subseteq Tasks \X Tasks
  BY <1>1, <1>4 DEF Revoked, new
<1> QED BY <1>1, <1>7, <1>8

(* So does succeed().                                                      *)
LEMMA SucceedReady ==
    ASSUME NEW M, NEW S, Ready(M, S), order \subseteq Tasks \X Tasks, Created \subseteq Tasks,
           NEW t \in Created, NEW news \in News, mthpc_taskflow_succeed(t, news), astray' = "no"
    PROVE  (\E P, U : Ready(P, U)') /\ order' \subseteq Tasks \X Tasks /\ mpc' = mpc
<1> DEFINE X == ToSet(news)
           f == mthpc_taskflow_succeed_result(heap, t, news)
           new == {<<t, u>> : u \in X}
<1>a. /\ AstrayAfter("next", t, news) = "no" /\ nr_task' = nr_task
      /\ Derails(t, news, f) \/ (heap' = f /\ order' = Revoked(news) \union new /\ mpc' = mpc)
  BY DEF mthpc_taskflow_succeed, Call
<1> HIDE DEF f, new
<1>2. CallOk(heap, M, S, t, news) /\ (Len(news) = 1 \/ Neighbour("next", t, news) # HEAD)
  BY <1>a, StraightCall
<1>n. Len(news) = 1 \/ mthpc_taskflow_rlist_del(heap, news).list_node.next[MainOf(heap, t)] # HEAD
  BY <1>2 DEF Neighbour
<1>3. PICK P, U : /\ MovedTo(heap, M, S, f, P, U, X)
                  /\ \A u \in X : Before(P, U, t, u)
  BY <1>2, <1>n, SucceedMoves DEF f
<1>d. ~Derails(t, news, f)
  <2>1. Planned(f, P, U, <<>>)
    BY <1>3 DEF MovedTo
  <2> QED BY <1>2, <2>1, NotDerailed
<1>1. heap' = f /\ order' = Revoked(news) \union new /\ nr_task' = nr_task /\ mpc' = mpc
  BY <1>a, <1>d
<1>4. X \subseteq Tasks
  BY <1>2, CallFacts
<1>5. \A p \in new : Before(P, U, p[1], p[2])
  BY <1>3 DEF new
<1>6. MovedTo(heap, M, S, heap', P, U, ToSet(news))
  BY <1>1, <1>3
<1> HIDE DEF X
<1>7. Ready(P, U)'
  BY <1>1, <1>5, <1>6, MovedReady
<1>8. order' \subseteq Tasks \X Tasks
  BY <1>1, <1>4 DEF Revoked, new
<1> QED BY <1>1, <1>7, <1>8
-----------------------------------------------------------------------------
(* mthpc_taskflow_await() and the works.                                   *)

\* What is known of await() at the k-th main task of the plan (M, S).
Awaiting(M, S, k) ==
    Ready(M, S) /\ Types /\ Works /\ mpc # "build" /\ k \in 1..(Len(M) + 1) /\ AtStage(M, S, k)

(* The plan is not touched.                                                *)
LEMMA PlanKept ==
    ASSUME NEW M, NEW S, Ready(M, S), heap' = heap, nr_task' = nr_task, order' = order
    PROVE  Ready(M, S)'
BY DEF Ready, Created

(* The counts of a stage.                                                  *)
LEMMA StageCounts ==
    ASSUME NEW M, NEW S, Planned(heap, M, S, <<>>), NEW k \in 1..Len(M)
    PROVE  heap.nr[M[k]] = Cardinality(StageAt(M, S, k)) /\ heap.nr[M[k]] \in 1..MaxTask
<1> DEFINE X == StageAt(M, S, k)
<1>1. X \subseteq Tasks /\ heap.nr[M[k]] = Cardinality(X) /\ Cardinality(X) \in Nat /\ Cardinality(X) # 0
  BY StagesOf
<1> HIDE DEF X
<1>2. IsFiniteSet(Tasks) /\ Cardinality(Tasks) = MaxTask
  <2>1. MaxTask \in Nat
    BY TaskflowAssumption
  <2>2. IsFiniteSet(1..MaxTask) /\ Cardinality(1..MaxTask) = MaxTask
    BY <2>1, FS_Interval
  <2> QED BY <2>2 DEF Tasks
<1>3. Cardinality(X) <= MaxTask
  <2>1. X \in SUBSET Tasks
    BY <1>1
  <2> QED BY <1>2, <2>1, FS_Subset
<1>4. MaxTask \in Nat
  BY TaskflowAssumption
<1> QED BY <1>1, <1>3, <1>4 DEF X

(* await() starts at the first main task.                                  *)
LEMMA AwaitStarts ==
    ASSUME NEW M, NEW S, Ready(M, S), Types, Works, mpc = "build", Building, mthpc_taskflow_await
    PROVE  Ready(M, S)' /\ Types' /\ Works' /\ AtStage(M, S, 1)' /\ 1 \in 1..(Len(M) + 1)
<1>1. /\ Planned(heap, M, S, <<>>) /\ nr_completed = 0 /\ \A t \in Tasks : pc[t] = "idle"
  BY DEF Ready, Building
<1>2. /\ current' = heap.list_node.next[HEAD] /\ mpc' = "stage"
      /\ UNCHANGED <<heap, nr_task, moves, order, sub_current, nr_completed,
                     nr_completed_sub_task, completion, pc, runs>>
  BY DEF mthpc_taskflow_await, workVars, callVars
<1>3. Len(M) \in Nat /\ \A i \in 1..Len(M) : StageAt(M, S, i) \subseteq Tasks
  BY <1>1, StagesOf
<1>4. current' = At(HEAD, M, 1) /\ \A i \in 1..Len(M) : At(HEAD, M, i) = M[i] /\ M[i] \in Tasks
  BY <1>1, <1>2, PlanLinks, StagesOf
<1>5. Earlier(M, S, 1) = {} /\ Cardinality({}) = 0
  BY <1>1, EarlierSets, FS_EmptySet
<1>6. Ready(M, S)'
  BY <1>2, PlanKept
<1>7. Types'
  <2>1. At(HEAD, M, 1) \in Tasks \union {HEAD}
    BY <1>3, <1>4 DEF At
  <2> QED BY <1>2, <1>4, <2>1 DEF Types
<1>8. Works'
  BY <1>2 DEF Works, Created
<1>9. AtStage(M, S, 1)'
  <2>1. 1 \in 1..(Len(M) + 1)
    BY <1>3
  <2>2. \A i \in 1..Len(M) : AllIdle(M, S, i)'
    BY <1>1, <1>2, <1>3 DEF AllIdle
  <2> QED BY <1>1, <1>2, <1>4, <1>5, <2>1, <2>2 DEF AtStage
<1> QED BY <1>3, <1>6, <1>7, <1>8, <1>9

(* mthpc_completion_init() for the stage.                                  *)
LEMMA CompletionReset ==
    ASSUME NEW M, NEW S, NEW k, Awaiting(M, S, k), mthpc_completion_init
    PROVE  Awaiting(M, S, k)'
<1>1. /\ Planned(heap, M, S, <<>>) /\ Ready(M, S) /\ Types /\ Works /\ k \in 1..(Len(M) + 1)
      /\ AtStage(M, S, k)
  BY DEF Awaiting, Ready
<1>2. /\ mpc = "stage" /\ current # HEAD /\ mpc' = "main" /\ nr_completed_sub_task' = 0
      /\ completion' = [cnt |-> 0, nr |-> heap.nr[current]]
      /\ UNCHANGED <<heap, nr_task, moves, order, current, sub_current, nr_completed, pc, runs>>
  BY DEF mthpc_completion_init, workVars, callVars
<1>3. Len(M) \in Nat
  BY <1>1, StagesOf
<1>4. At(HEAD, M, Len(M) + 1) = HEAD /\ \A i \in 1..Len(M) : At(HEAD, M, i) = M[i]
  BY <1>1, PlanLinks
<1>5. k \in 1..Len(M) /\ current = M[k]
  <2>1. current = At(HEAD, M, k)
    BY <1>1 DEF AtStage
  <2>2. k # Len(M) + 1
    BY <1>2, <1>4, <2>1
  <2>3. k \in 1..Len(M)
    BY <1>1, <1>3, <2>2
  <2> QED BY <1>4, <2>1, <2>3
<1>6. heap.nr[M[k]] \in 1..MaxTask /\ MaxTask \in Nat
  BY <1>1, <1>5, StageCounts, TaskflowAssumption
<1>7. Ready(M, S)'
  BY <1>1, <1>2, PlanKept
<1>8. Types'
  BY <1>1, <1>2, <1>5, <1>6 DEF Types
<1>9. Works'
  BY <1>1, <1>2 DEF Works, Created
<1>10. AtStage(M, S, k)'
  <2>1. \A i \in 1..Len(M) : AllIdle(M, S, i)' <=> AllIdle(M, S, i)
    BY <1>2 DEF AllIdle
  <2> QED BY <1>1, <1>2, <1>5, <2>1 DEF AtStage
<1> QED BY <1>1, <1>2, <1>7, <1>8, <1>9, <1>10 DEF Awaiting

(* The main task is scheduled.                                             *)
LEMMA MainScheduled ==
    ASSUME NEW M, NEW S, NEW k, Awaiting(M, S, k), schedule_main_task
    PROVE  Awaiting(M, S, k)'
<1> DEFINE m == M[k]
           s == S[m]
           X == StageAt(M, S, k)
<1>1. /\ Planned(heap, M, S, <<>>) /\ Ready(M, S) /\ Types /\ Works /\ k \in 1..(Len(M) + 1)
      /\ AtStage(M, S, k)
  BY DEF Awaiting, Ready
<1>2. /\ mpc = "main" /\ mpc' = "subs" /\ nr_completed_sub_task' = nr_completed_sub_task + 1
      /\ pc' = [pc EXCEPT ![current] = "queued"] /\ sub_current' = heap.sub_list.next[current]
      /\ UNCHANGED <<heap, nr_task, moves, order, current, nr_completed, completion, runs>>
  BY DEF schedule_main_task, Schedule, callVars
<1>3. /\ k \in 1..Len(M) /\ current = At(HEAD, M, k) /\ AllIdle(M, S, k)
      /\ completion = [cnt |-> 0, nr |-> heap.nr[m]] /\ nr_completed_sub_task = 0
      /\ \A t \in Earlier(M, S, k) : pc[t] = "complete"
      /\ \A i \in 1..Len(M) : k < i => AllIdle(M, S, i)
      /\ nr_completed = Cardinality(Earlier(M, S, k))
  BY <1>1, <1>2 DEF AtStage
<1>4. /\ Len(M) \in Nat /\ m \in Tasks /\ s \in Seq(Tasks) /\ Len(s) \in Nat /\ X = Ring(m, s) /\ X \subseteq Tasks
      /\ m \notin ToSet(s)
      /\ \A i, j \in 1..Len(M) : \A t : t \in StageAt(M, S, i) /\ t \in StageAt(M, S, j) => i = j
      /\ \A i \in 1..Len(M) : StageAt(M, S, i) \subseteq Tasks
      /\ \A t : t \in InStages(ToSet(M), S) <=> \E i \in 1..Len(M) : t \in StageAt(M, S, i)
  BY <1>1, <1>3, StagesOf
<1>5. /\ At(HEAD, M, k) = m /\ heap.sub_list.next[m] = At(m, s, 1)
      /\ \A j \in 1..Len(s) : At(m, s, j) = s[j] /\ s[j] # m /\ s[j] \in Tasks
      /\ At(m, s, Len(s) + 1) = m
  BY <1>1, <1>3, PlanLinks
<1>6. Earlier(M, S, k) \subseteq Tasks /\ Earlier(M, S, k) \intersect X = {}
  BY <1>1, <1>3, EarlierSets
<1>7. m \in X /\ \A j \in 1..Len(s) : s[j] \in X
  BY <1>4, InList DEF Ring
<1>c. m \in Created
  BY <1>1, <1>3, <1>4, <1>7 DEF Ready
<1>t. pc \in [Tasks -> {"idle", "queued", "func", "complete"}]
  BY <1>1 DEF Types
<1> HIDE DEF m, s, X
<1>8. pc'[m] = "queued" /\ \A t \in Tasks \ {m} : pc'[t] = pc[t]
  BY <1>2, <1>3, <1>4, <1>5, <1>t
<1>i. \A t \in X : pc[t] = "idle"
  BY <1>3 DEF AllIdle, X
<1>9. Ready(M, S)'
  BY <1>1, <1>2, PlanKept
<1>10. Types'
  <2>1. sub_current' \in Tasks \union {HEAD}
    <3>1. At(m, s, 1) \in Tasks
      BY <1>4, <1>5 DEF At
    <3> QED BY <1>2, <1>3, <1>5, <3>1
  <2>2. nr_completed_sub_task' \in 0..MaxTask
    BY <1>2, <1>3, <1>4, TaskflowAssumption DEF Tasks
  <2>3. pc' \in [Tasks -> {"idle", "queued", "func", "complete"}]
    BY <1>2, <1>t
  <2> QED BY <1>1, <1>2, <2>1, <2>2, <2>3 DEF Types
<1>11. Works'
  <2>1. ASSUME NEW t \in Tasks
        PROVE  /\ runs'[t] = IF pc'[t] \in {"func", "complete"} THEN 1 ELSE 0
               /\ t \notin Created' => pc'[t] = "idle"
    <3>1. /\ runs[t] = IF pc[t] \in {"func", "complete"} THEN 1 ELSE 0
          /\ t \notin Created => pc[t] = "idle"
      BY <1>1 DEF Works
    <3>2. runs' = runs /\ Created' = Created
      BY <1>2 DEF Created
    <3>3. CASE t = m
      BY <1>7, <1>8, <1>c, <1>i, <3>1, <3>2, <3>3
    <3>4. CASE t # m
      BY <1>8, <3>1, <3>2, <3>4
    <3> QED BY <3>3, <3>4
  <2> QED BY <2>1 DEF Works
<1>12. AtStage(M, S, k)'
  <2>1. \A t \in Earlier(M, S, k) : pc'[t] = "complete"
    BY <1>3, <1>6, <1>7, <1>8
  <2>2. ASSUME NEW i \in 1..Len(M), k < i PROVE AllIdle(M, S, i)'
    <3>1. AllIdle(M, S, i) /\ StageAt(M, S, i) \subseteq Tasks
      BY <1>3, <1>4, <2>2
    <3>2. m \notin StageAt(M, S, i)
      BY <1>3, <1>4, <1>7, <2>2 DEF X
    <3> QED BY <1>8, <3>1, <3>2 DEF AllIdle
  <2>3. Scheduled(m, s, 1)'
    <3>1. 1 \in 1..(Len(s) + 1) /\ sub_current' = At(m, s, 1) /\ nr_completed_sub_task' = 1 /\ pc'[m] # "idle"
      BY <1>2, <1>3, <1>4, <1>5, <1>8
    <3>2. \A i \in 1..Len(s) : pc'[s[i]] = "idle" /\ ~(i < 1)
      BY <1>4, <1>5, <1>7, <1>8, <1>i
    <3> QED BY <3>1, <3>2 DEF Scheduled
  <2>4. completion' = [cnt |-> Cardinality(Complete(X)'), nr |-> heap'.nr[m]]
    <3>1. Complete(X)' = {}
      BY <1>4, <1>8, <1>i DEF Complete
    <3> QED BY <1>2, <1>3, <3>1, FS_EmptySet
  <2>5. \E j \in 1..(Len(s) + 1) : Scheduled(m, s, j)'
    BY <1>4, <2>3
  <2> QED BY <1>1, <1>2, <1>3, <2>1, <2>2, <2>4, <2>5 DEF AtStage, m, s, X
<1> QED BY <1>1, <1>2, <1>9, <1>10, <1>11, <1>12 DEF Awaiting

(* The next sub task is scheduled.                                         *)
LEMMA SubScheduled ==
    ASSUME NEW M, NEW S, NEW k, Awaiting(M, S, k), schedule_sub_task
    PROVE  Awaiting(M, S, k)'
<1> DEFINE m == M[k]
           s == S[m]
           X == StageAt(M, S, k)
<1>1. /\ Planned(heap, M, S, <<>>) /\ Ready(M, S) /\ Types /\ Works /\ k \in 1..(Len(M) + 1)
      /\ AtStage(M, S, k)
  BY DEF Awaiting, Ready
<1>2. /\ mpc = "subs" /\ mpc' = mpc /\ nr_completed_sub_task' = nr_completed_sub_task + 1
      /\ sub_current # current
      /\ pc' = [pc EXCEPT ![sub_current] = "queued"] /\ sub_current' = heap.sub_list.next[sub_current]
      /\ UNCHANGED <<heap, nr_task, moves, order, current, nr_completed, completion, runs>>
  BY DEF schedule_sub_task, Schedule, callVars
<1>3. /\ k \in 1..Len(M) /\ current = At(HEAD, M, k)
      /\ completion = [cnt |-> Cardinality(Complete(X)), nr |-> heap.nr[m]]
      /\ \E j \in 1..(Len(s) + 1) : Scheduled(m, s, j)
      /\ \A t \in Earlier(M, S, k) : pc[t] = "complete"
      /\ \A i \in 1..Len(M) : k < i => AllIdle(M, S, i)
      /\ nr_completed = Cardinality(Earlier(M, S, k))
  BY <1>1, <1>2 DEF AtStage
<1>4. /\ Len(M) \in Nat /\ m \in Tasks /\ s \in Seq(Tasks) /\ Len(s) \in Nat /\ X = Ring(m, s) /\ X \subseteq Tasks
      /\ m \notin ToSet(s) /\ IsInjective(s)
      /\ \A i, j \in 1..Len(M) : \A t : t \in StageAt(M, S, i) /\ t \in StageAt(M, S, j) => i = j
      /\ \A i \in 1..Len(M) : StageAt(M, S, i) \subseteq Tasks
      /\ \A t : t \in InStages(ToSet(M), S) <=> \E i \in 1..Len(M) : t \in StageAt(M, S, i)
      /\ heap.nr[m] = Len(s) + 1
  BY <1>1, <1>3, StagesOf
<1>5. /\ At(HEAD, M, k) = m
      /\ \A j \in 1..Len(s) : /\ heap.sub_list.next[s[j]] = At(m, s, j + 1)
                              /\ At(m, s, j) = s[j] /\ s[j] # m /\ s[j] \in Tasks
      /\ At(m, s, Len(s) + 1) = m
  BY <1>1, <1>3, PlanLinks
<1>6. Earlier(M, S, k) \subseteq Tasks /\ Earlier(M, S, k) \intersect X = {}
  BY <1>1, <1>3, EarlierSets
<1>7. m \in X /\ \A j \in 1..Len(s) : s[j] \in X
  BY <1>4, InList DEF Ring
<1>8. \A i, j \in 1..Len(s) : s[i] = s[j] => i = j
  BY <1>4, Injective
<1>t. pc \in [Tasks -> {"idle", "queued", "func", "complete"}]
  BY <1>1 DEF Types
<1>r. heap.nr[m] \in 1..MaxTask
  BY <1>1, <1>3, StageCounts
<1>c. X \subseteq Created
  BY <1>1, <1>3, <1>4 DEF Ready
<1> HIDE DEF m, s, X
<1>9. PICK j \in 1..(Len(s) + 1) : Scheduled(m, s, j)
  BY <1>3
<1>10. /\ sub_current = At(m, s, j) /\ nr_completed_sub_task = j /\ pc[m] # "idle"
       /\ \A i \in 1..Len(s) : pc[s[i]] # "idle" <=> i < j
  BY <1>9 DEF Scheduled
<1>11. j \in 1..Len(s) /\ sub_current = s[j]
  <2>1. j # Len(s) + 1
    BY <1>2, <1>3, <1>5, <1>10
  <2>2. j \in 1..Len(s)
    BY <1>4, <2>1
  <2> QED BY <1>5, <1>10, <2>2
<1> DEFINE x == s[j]
<1>12. x \in X /\ x \in Tasks /\ x # m /\ pc[x] = "idle" /\ x \in Created
  BY <1>5, <1>7, <1>10, <1>11, <1>c
<1>13. pc'[x] = "queued" /\ \A t \in Tasks \ {x} : pc'[t] = pc[t]
  BY <1>2, <1>11, <1>12, <1>t
<1>14. \A i \in 1..Len(s) : s[i] = x <=> i = j
  BY <1>8, <1>11
<1>15. sub_current' = At(m, s, j + 1)
  BY <1>2, <1>5, <1>11
<1> HIDE DEF x
<1>16. Ready(M, S)'
  BY <1>1, <1>2, PlanKept
<1>17. Types'
  <2>1. sub_current' \in Tasks \union {HEAD}
    <3>1. At(m, s, j + 1) \in Tasks
      BY <1>4, <1>5 DEF At
    <3> QED BY <1>15, <3>1
  <2>2. nr_completed_sub_task' \in 0..MaxTask
    <3>1. nr_completed_sub_task' = j + 1 /\ j + 1 <= heap.nr[m]
      BY <1>2, <1>4, <1>10, <1>11
    <3> QED BY <1>4, <1>11, <1>r, <3>1, TaskflowAssumption
  <2>3. pc' \in [Tasks -> {"idle", "queued", "func", "complete"}]
    BY <1>2, <1>t
  <2> QED BY <1>1, <1>2, <2>1, <2>2, <2>3 DEF Types
<1>18. Works'
  <2>1. ASSUME NEW t \in Tasks
        PROVE  /\ runs'[t] = IF pc'[t] \in {"func", "complete"} THEN 1 ELSE 0
               /\ t \notin Created' => pc'[t] = "idle"
    <3>1. /\ runs[t] = IF pc[t] \in {"func", "complete"} THEN 1 ELSE 0
          /\ t \notin Created => pc[t] = "idle"
      BY <1>1 DEF Works
    <3>2. runs' = runs /\ Created' = Created
      BY <1>2 DEF Created
    <3>3. CASE t = x
      BY <1>12, <1>13, <3>1, <3>2, <3>3
    <3>4. CASE t # x
      BY <1>13, <3>1, <3>2, <3>4
    <3> QED BY <3>3, <3>4
  <2> QED BY <2>1 DEF Works
<1>19. AtStage(M, S, k)'
  <2>1. \A t \in Earlier(M, S, k) : pc'[t] = "complete"
    BY <1>3, <1>6, <1>12, <1>13
  <2>2. ASSUME NEW i \in 1..Len(M), k < i PROVE AllIdle(M, S, i)'
    <3>1. AllIdle(M, S, i) /\ StageAt(M, S, i) \subseteq Tasks
      BY <1>3, <1>4, <2>2
    <3>2. x \notin StageAt(M, S, i)
      BY <1>3, <1>4, <1>12, <2>2 DEF X
    <3> QED BY <1>13, <3>1, <3>2 DEF AllIdle
  <2>3. Scheduled(m, s, j + 1)'
    <3>1. j + 1 \in 1..(Len(s) + 1) /\ nr_completed_sub_task' = j + 1 /\ pc'[m] # "idle"
      BY <1>2, <1>4, <1>10, <1>11, <1>12, <1>13
    <3>2. ASSUME NEW i \in 1..Len(s) PROVE pc'[s[i]] # "idle" <=> i < j + 1
      <4>1. CASE i = j
        BY <1>4, <1>11, <1>13, <1>14, <4>1
      <4>2. CASE i # j
        <5>1. pc'[s[i]] = pc[s[i]]
          BY <1>5, <1>13, <1>14, <4>2
        <5>2. i < j <=> i < j + 1
          BY <1>4, <4>2
        <5> QED BY <1>10, <5>1, <5>2
      <4> QED BY <4>1, <4>2
    <3> QED BY <1>15, <3>1, <3>2 DEF Scheduled
  <2>4. completion' = [cnt |-> Cardinality(Complete(X)'), nr |-> heap'.nr[m]]
    <3>1. Complete(X)' = Complete(X)
      BY <1>4, <1>12, <1>13 DEF Complete
    <3> QED BY <1>2, <1>3, <3>1
  <2>5. \E i \in 1..(Len(s) + 1) : Scheduled(m, s, i)'
    <3>1. j + 1 \in 1..(Len(s) + 1)
      BY <1>4, <1>11
    <3> QED BY <2>3, <3>1
  <2> QED BY <1>1, <1>2, <1>3, <2>1, <2>2, <2>4, <2>5 DEF AtStage, m, s, X
<1> QED BY <1>1, <1>2, <1>16, <1>17, <1>18, <1>19 DEF Awaiting

(* The completion of the stage is waited for.                              *)
LEMMA StageWaited ==
    ASSUME NEW M, NEW S, NEW k, Awaiting(M, S, k), mthpc_wait_for_completion
    PROVE  Awaiting(M, S, k + 1)'
<1> DEFINE m == M[k]
           s == S[m]
           X == StageAt(M, S, k)
<1>1. /\ Planned(heap, M, S, <<>>) /\ Ready(M, S) /\ Types /\ Works /\ k \in 1..(Len(M) + 1)
      /\ AtStage(M, S, k)
  BY DEF Awaiting, Ready
<1>2. /\ mpc = "subs" /\ mpc' = "stage" /\ sub_current = current /\ completion.cnt = completion.nr
      /\ nr_completed' = nr_completed + nr_completed_sub_task
      /\ current' = heap.list_node.next[current]
      /\ UNCHANGED <<heap, nr_task, moves, order, sub_current, nr_completed_sub_task, completion, pc, runs>>
  BY DEF mthpc_wait_for_completion, workVars, callVars
<1>3. /\ k \in 1..Len(M) /\ current = At(HEAD, M, k)
      /\ completion = [cnt |-> Cardinality(Complete(X)), nr |-> heap.nr[m]]
      /\ \E j \in 1..(Len(s) + 1) : Scheduled(m, s, j)
      /\ \A t \in Earlier(M, S, k) : pc[t] = "complete"
      /\ \A i \in 1..Len(M) : k < i => AllIdle(M, S, i)
      /\ nr_completed = Cardinality(Earlier(M, S, k))
  BY <1>1, <1>2 DEF AtStage
<1>4. /\ Len(M) \in Nat /\ m \in Tasks /\ Len(s) \in Nat /\ IsFiniteSet(X) /\ Cardinality(X) = Len(s) + 1
      /\ heap.nr[m] = Len(s) + 1 /\ \A i \in 1..Len(M) : M[i] \in Tasks
  BY <1>1, <1>3, StagesOf
<1>5. /\ At(HEAD, M, k) = m /\ heap.list_node.next[m] = At(HEAD, M, k + 1)
      /\ \A j \in 1..Len(s) : At(m, s, j) = s[j] /\ s[j] # m
  BY <1>1, <1>3, PlanLinks
<1>6. /\ Earlier(M, S, k + 1) = Earlier(M, S, k) \union X
      /\ Cardinality(Earlier(M, S, k + 1)) = Cardinality(Earlier(M, S, k)) + Cardinality(X)
  BY <1>1, <1>3, EarlierSets
<1> HIDE DEF m, s, X
<1>7. PICK j \in 1..(Len(s) + 1) : Scheduled(m, s, j)
  BY <1>3
<1>8. nr_completed_sub_task = Len(s) + 1
  <2>1. sub_current = At(m, s, j) /\ nr_completed_sub_task = j
    BY <1>7 DEF Scheduled
  <2>2. j \notin 1..Len(s)
    BY <1>2, <1>3, <1>5, <2>1
  <2>3. j = Len(s) + 1
    BY <1>4, <2>2
  <2> QED BY <2>1, <2>3
<1>9. Complete(X) = X
  <2> DEFINE C == Complete(X)
  <2>1. C \in SUBSET X
    BY DEF Complete
  <2>2. Cardinality(C) = Cardinality(X)
    BY <1>2, <1>3, <1>4
  <2> HIDE DEF C
  <2>3. C = X
    BY <1>4, <2>1, <2>2, FS_Subset
  <2> QED BY <2>3 DEF C
<1>10. \A t \in X : pc[t] = "complete"
  BY <1>9 DEF Complete
<1>11. k + 1 \in 1..(Len(M) + 1) /\ current' = At(HEAD, M, k + 1)
  BY <1>2, <1>3, <1>4, <1>5
<1>12. Ready(M, S)'
  BY <1>1, <1>2, PlanKept
<1>13. Types'
  <2>1. At(HEAD, M, k + 1) \in Tasks \union {HEAD}
    BY <1>4 DEF At
  <2> QED BY <1>1, <1>2, <1>11, <2>1 DEF Types
<1>14. Works'
  BY <1>1, <1>2 DEF Works, Created
<1>15. AtStage(M, S, k + 1)'
  <2>1. \A t \in Earlier(M, S, k + 1) : pc'[t] = "complete"
    BY <1>2, <1>3, <1>6, <1>10
  <2>2. \A i \in 1..Len(M) : AllIdle(M, S, i)' <=> AllIdle(M, S, i)
    BY <1>2 DEF AllIdle
  <2>3. \A i \in 1..Len(M) : k + 1 < i => AllIdle(M, S, i)'
    <3>1. \A i \in 1..Len(M) : k + 1 < i => k < i
      BY <1>3, <1>4
    <3> QED BY <1>3, <2>2, <3>1
  <2>4. nr_completed' = Cardinality(Earlier(M, S, k + 1))
    BY <1>2, <1>3, <1>4, <1>6, <1>8
  <2>5. k + 1 \in 1..Len(M) => AllIdle(M, S, k + 1)'
    <3>1. k < k + 1
      BY <1>3, <1>4
    <3> QED BY <1>3, <2>2, <3>1
  <2> QED BY <1>2, <1>11, <2>1, <2>3, <2>4, <2>5 DEF AtStage
<1> QED BY <1>1, <1>2, <1>11, <1>12, <1>13, <1>14, <1>15 DEF Awaiting

(* await() returns.                                                        *)
LEMMA AwaitReturned ==
    ASSUME NEW M, NEW S, NEW k, Awaiting(M, S, k), await_return
    PROVE  Awaiting(M, S, k)'
<1>1. /\ Planned(heap, M, S, <<>>) /\ Ready(M, S) /\ Types /\ Works /\ k \in 1..(Len(M) + 1)
      /\ AtStage(M, S, k)
  BY DEF Awaiting, Ready
<1>2. /\ mpc = "stage" /\ current = HEAD /\ mpc' = "done"
      /\ UNCHANGED <<heap, nr_task, moves, order, current, sub_current, nr_completed,
                     nr_completed_sub_task, completion, pc, runs>>
  BY DEF await_return, workVars, callVars
<1>3. Len(M) \in Nat
  BY <1>1, StagesOf
<1>4. k = Len(M) + 1
  <2>1. current = At(HEAD, M, k)
    BY <1>1 DEF AtStage
  <2>2. k \notin 1..Len(M)
    <3>1. \A i \in 1..Len(M) : At(HEAD, M, i) # HEAD
      BY <1>1, PlanLinks
    <3> QED BY <1>2, <2>1, <3>1
  <2> QED BY <1>1, <1>3, <2>2
<1>5. Ready(M, S)'
  BY <1>1, <1>2, PlanKept
<1>6. Types'
  BY <1>1, <1>2 DEF Types
<1>7. Works'
  BY <1>1, <1>2 DEF Works, Created
<1>8. AtStage(M, S, k)'
  <2>1. \A i \in 1..Len(M) : AllIdle(M, S, i)' <=> AllIdle(M, S, i)
    BY <1>2 DEF AllIdle
  <2> QED BY <1>1, <1>2, <1>4, <2>1 DEF AtStage
<1> QED BY <1>1, <1>2, <1>5, <1>6, <1>7, <1>8 DEF Awaiting

(* Works run in the stage that is waited for.                              *)
LEMMA WorksNow ==
    ASSUME NEW M, NEW S, NEW k, Awaiting(M, S, k), NEW t \in Tasks, pc[t] \in {"queued", "func"}
    PROVE  /\ mpc = "subs" /\ k \in 1..Len(M) /\ t \in StageAt(M, S, k) /\ t \in Created
           /\ t \notin Earlier(M, S, k)
           /\ \A i \in 1..Len(M) : k < i => t \notin StageAt(M, S, i)
<1>1. /\ Planned(heap, M, S, <<>>) /\ InStages(ToSet(M), S) = Created
      /\ Types /\ Works /\ k \in 1..(Len(M) + 1) /\ AtStage(M, S, k) /\ mpc # "build"
  BY DEF Awaiting, Ready
<1>2. /\ Len(M) \in Nat
      /\ \A u : u \in InStages(ToSet(M), S) <=> \E i \in 1..Len(M) : u \in StageAt(M, S, i)
      /\ \A i, j \in 1..Len(M) : \A u : u \in StageAt(M, S, i) /\ u \in StageAt(M, S, j) => i = j
  BY <1>1, StagesOf
<1>3. t \in Created
  BY <1>1 DEF Works
<1>4. PICK i \in 1..Len(M) : t \in StageAt(M, S, i)
  BY <1>1, <1>2, <1>3
<1>5. t \notin Earlier(M, S, k)
  BY <1>1 DEF AtStage
<1>6. ~(i < k)
  BY <1>4, <1>5 DEF Earlier
<1>7. \A j \in 1..Len(M) : k < j => t \notin StageAt(M, S, j)
  BY <1>1 DEF AtStage, AllIdle
<1>8. i = k
  BY <1>1, <1>2, <1>4, <1>6, <1>7
<1>9. mpc = "subs"
  <2>1. ~AllIdle(M, S, k)
    BY <1>4, <1>8 DEF AllIdle
  <2>2. mpc \notin {"stage", "main"}
    BY <1>1, <1>4, <1>8, <2>1 DEF AtStage
  <2>3. mpc # "done"
    BY <1>1, <1>2, <1>4, <1>8 DEF AtStage
  <2> QED BY <1>1, <2>2, <2>3 DEF Types
<1> QED BY <1>3, <1>4, <1>5, <1>7, <1>8, <1>9

(* The function of a task is run.                                          *)
LEMMA FuncRuns ==
    ASSUME NEW M, NEW S, NEW k, Awaiting(M, S, k), NEW t \in Tasks, task_func(t)
    PROVE  Awaiting(M, S, k)'
<1> DEFINE m == M[k]
           s == S[m]
           X == StageAt(M, S, k)
<1>1. /\ Planned(heap, M, S, <<>>) /\ Ready(M, S) /\ Types /\ Works /\ k \in 1..(Len(M) + 1)
      /\ AtStage(M, S, k) /\ mpc # "build"
  BY DEF Awaiting, Ready
<1>2. /\ pc[t] = "queued" /\ pc' = [pc EXCEPT ![t] = "func"] /\ runs' = [runs EXCEPT ![t] = @ + 1]
      /\ UNCHANGED <<heap, nr_task, moves, order, mpc, current, sub_current, nr_completed,
                     nr_completed_sub_task, completion>>
  BY DEF task_func, awaitVars, callVars
<1>3. /\ mpc = "subs" /\ k \in 1..Len(M) /\ t \in X /\ t \in Created /\ t \notin Earlier(M, S, k)
      /\ \A i \in 1..Len(M) : k < i => t \notin StageAt(M, S, i)
  BY <1>2, WorksNow
<1>4. /\ completion = [cnt |-> Cardinality(Complete(X)), nr |-> heap.nr[m]]
      /\ \E j \in 1..(Len(s) + 1) : Scheduled(m, s, j)
      /\ \A u \in Earlier(M, S, k) : pc[u] = "complete"
      /\ \A i \in 1..Len(M) : k < i => AllIdle(M, S, i)
  BY <1>1, <1>3 DEF AtStage
<1>5. /\ m \in Tasks /\ s \in Seq(Tasks) /\ X \subseteq Tasks
      /\ \A i \in 1..Len(M) : StageAt(M, S, i) \subseteq Tasks
  BY <1>1, <1>3, StagesOf
<1>6. \A i \in 1..Len(s) : s[i] \in Tasks
  BY <1>5, InList
<1>7. Earlier(M, S, k) \subseteq Tasks
  BY <1>1, EarlierSets
<1>t. /\ pc \in [Tasks -> {"idle", "queued", "func", "complete"}] /\ runs \in [Tasks -> Nat]
      /\ \A u \in Tasks : /\ runs[u] = IF pc[u] \in {"func", "complete"} THEN 1 ELSE 0
                          /\ u \notin Created => pc[u] = "idle"
  BY <1>1 DEF Types, Works
<1>8. pc'[t] = "func" /\ runs'[t] = 1 /\ \A u \in Tasks \ {t} : pc'[u] = pc[u] /\ runs'[u] = runs[u]
  BY <1>2, <1>t
<1> HIDE DEF m, s, X
<1>9. Ready(M, S)'
  BY <1>1, <1>2, PlanKept
<1>10. Types'
  <2>1. pc' \in [Tasks -> {"idle", "queued", "func", "complete"}] /\ runs' \in [Tasks -> Nat]
    BY <1>2, <1>t
  <2> QED BY <1>1, <1>2, <2>1 DEF Types
<1>11. Works'
  <2>1. ASSUME NEW u \in Tasks
        PROVE  /\ runs'[u] = IF pc'[u] \in {"func", "complete"} THEN 1 ELSE 0
               /\ u \notin Created' => pc'[u] = "idle"
    <3>1. Created' = Created
      BY <1>2 DEF Created
    <3> QED BY <1>3, <1>8, <1>t, <3>1
  <2> QED BY <2>1 DEF Works
<1>12. AtStage(M, S, k)'
  <2>1. \A u \in Earlier(M, S, k) : pc'[u] = "complete"
    BY <1>3, <1>4, <1>7, <1>8
  <2>2. ASSUME NEW i \in 1..Len(M), k < i PROVE AllIdle(M, S, i)'
    <3>1. AllIdle(M, S, i) /\ StageAt(M, S, i) \subseteq Tasks /\ t \notin StageAt(M, S, i)
      BY <1>3, <1>4, <1>5, <2>2
    <3> QED BY <1>8, <3>1 DEF AllIdle
  <2>3. \A u \in Tasks : pc'[u] = "idle" <=> pc[u] = "idle"
    BY <1>2, <1>8
  <2>4. \E j \in 1..(Len(s) + 1) : Scheduled(m, s, j)'
    <3>1. PICK j \in 1..(Len(s) + 1) : Scheduled(m, s, j)
      BY <1>4
    <3>2. Scheduled(m, s, j)'
      BY <1>2, <1>5, <1>6, <2>3, <3>1 DEF Scheduled
    <3> QED BY <3>2
  <2>5. completion' = [cnt |-> Cardinality(Complete(X)'), nr |-> heap'.nr[m]]
    <3>1. Complete(X)' = Complete(X)
      BY <1>2, <1>5, <1>8 DEF Complete
    <3> QED BY <1>2, <1>4, <3>1
  <2> QED BY <1>1, <1>2, <1>3, <2>1, <2>2, <2>4, <2>5 DEF AtStage, m, s, X
<1> QED BY <1>1, <1>2, <1>9, <1>10, <1>11, <1>12 DEF Awaiting

(* The work of a task completes.                                           *)
LEMMA WorkCompletes ==
    ASSUME NEW M, NEW S, NEW k, Awaiting(M, S, k), NEW t \in Tasks, mthpc_complete(t)
    PROVE  Awaiting(M, S, k)'
<1> DEFINE m == M[k]
           s == S[m]
           X == StageAt(M, S, k)
<1>1. /\ Planned(heap, M, S, <<>>) /\ Ready(M, S) /\ Types /\ Works /\ k \in 1..(Len(M) + 1)
      /\ AtStage(M, S, k) /\ mpc # "build"
  BY DEF Awaiting, Ready
<1>2. /\ pc[t] = "func" /\ pc' = [pc EXCEPT ![t] = "complete"]
      /\ completion' = [completion EXCEPT !.cnt = @ + 1]
      /\ UNCHANGED <<heap, nr_task, moves, order, mpc, current, sub_current, nr_completed,
                     nr_completed_sub_task, runs>>
  BY DEF mthpc_complete, callVars
<1>3. /\ mpc = "subs" /\ k \in 1..Len(M) /\ t \in X /\ t \in Created /\ t \notin Earlier(M, S, k)
      /\ \A i \in 1..Len(M) : k < i => t \notin StageAt(M, S, i)
  BY <1>2, WorksNow
<1>4. /\ completion = [cnt |-> Cardinality(Complete(X)), nr |-> heap.nr[m]]
      /\ \E j \in 1..(Len(s) + 1) : Scheduled(m, s, j)
      /\ \A u \in Earlier(M, S, k) : pc[u] = "complete"
      /\ \A i \in 1..Len(M) : k < i => AllIdle(M, S, i)
  BY <1>1, <1>3 DEF AtStage
<1>5. /\ m \in Tasks /\ s \in Seq(Tasks) /\ X \subseteq Tasks /\ IsFiniteSet(X)
      /\ \A i \in 1..Len(M) : StageAt(M, S, i) \subseteq Tasks
  BY <1>1, <1>3, StagesOf
<1>6. \A i \in 1..Len(s) : s[i] \in Tasks
  BY <1>5, InList
<1>7. Earlier(M, S, k) \subseteq Tasks
  BY <1>1, EarlierSets
<1>t. /\ pc \in [Tasks -> {"idle", "queued", "func", "complete"}]
      /\ \A u \in Tasks : /\ runs[u] = IF pc[u] \in {"func", "complete"} THEN 1 ELSE 0
                          /\ u \notin Created => pc[u] = "idle"
  BY <1>1 DEF Types, Works
<1>n. heap.nr[m] \in 1..MaxTask /\ heap.nr[m] = Cardinality(X) /\ MaxTask \in Nat
  BY <1>1, <1>3, StageCounts, TaskflowAssumption
<1>8. pc'[t] = "complete" /\ \A u \in Tasks \ {t} : pc'[u] = pc[u]
  BY <1>2, <1>t
<1> HIDE DEF m, s, X
<1>c. Cardinality(Complete(X)') = Cardinality(Complete(X)) + 1 /\ Cardinality(Complete(X)') <= Cardinality(X)
      /\ Cardinality(Complete(X)) \in Nat
  <2> DEFINE C == Complete(X)
             D == Complete(X)'
  <2>1. D = C \union {t} /\ t \notin C
    BY <1>2, <1>3, <1>5, <1>8 DEF Complete
  <2>2. C \in SUBSET X /\ D \in SUBSET X
    BY DEF Complete
  <2> HIDE DEF C, D
  <2>3. IsFiniteSet(C) /\ IsFiniteSet(D)
    BY <1>5, <2>2, FS_Subset
  <2>4. Cardinality(D) = Cardinality(C) + 1
    BY <2>1, <2>3, FS_AddElement
  <2>5. Cardinality(D) <= Cardinality(X) /\ Cardinality(C) \in Nat
    BY <1>5, <2>2, <2>3, FS_Subset, FS_CardinalityType
  <2> QED BY <2>4, <2>5 DEF C, D
<1>d. completion' = [cnt |-> Cardinality(Complete(X)'), nr |-> heap.nr[m]]
  BY <1>2, <1>4, <1>c
<1>9. Ready(M, S)'
  BY <1>1, <1>2, PlanKept
<1>10. Types'
  <2>1. pc' \in [Tasks -> {"idle", "queued", "func", "complete"}]
    BY <1>2, <1>t
  <2>2. completion' \in [cnt : 0..MaxTask, nr : 0..MaxTask]
    <3>1. Cardinality(Complete(X)') \in 0..MaxTask /\ heap.nr[m] \in 0..MaxTask
      BY <1>c, <1>n
    <3> QED BY <1>d, <3>1
  <2> QED BY <1>1, <1>2, <2>1, <2>2 DEF Types
<1>11. Works'
  <2>1. ASSUME NEW u \in Tasks
        PROVE  /\ runs'[u] = IF pc'[u] \in {"func", "complete"} THEN 1 ELSE 0
               /\ u \notin Created' => pc'[u] = "idle"
    <3>1. Created' = Created /\ runs' = runs
      BY <1>2 DEF Created
    <3>2. CASE u = t
      BY <1>2, <1>3, <1>8, <1>t, <3>1, <3>2
    <3>3. CASE u # t
      BY <1>8, <1>t, <3>1, <3>3
    <3> QED BY <3>2, <3>3
  <2> QED BY <2>1 DEF Works
<1>12. AtStage(M, S, k)'
  <2>1. \A u \in Earlier(M, S, k) : pc'[u] = "complete"
    BY <1>3, <1>4, <1>7, <1>8
  <2>2. ASSUME NEW i \in 1..Len(M), k < i PROVE AllIdle(M, S, i)'
    <3>1. AllIdle(M, S, i) /\ StageAt(M, S, i) \subseteq Tasks /\ t \notin StageAt(M, S, i)
      BY <1>3, <1>4, <1>5, <2>2
    <3> QED BY <1>8, <3>1 DEF AllIdle
  <2>3. \A u \in Tasks : pc'[u] = "idle" <=> pc[u] = "idle"
    BY <1>2, <1>8
  <2>4. \E j \in 1..(Len(s) + 1) : Scheduled(m, s, j)'
    <3>1. PICK j \in 1..(Len(s) + 1) : Scheduled(m, s, j)
      BY <1>4
    <3>2. Scheduled(m, s, j)'
      BY <1>2, <1>5, <1>6, <2>3, <3>1 DEF Scheduled
    <3> QED BY <3>2
  <2>5. completion' = [cnt |-> Cardinality(Complete(X)'), nr |-> heap'.nr[m]]
    BY <1>2, <1>d
  <2> QED BY <1>1, <1>2, <1>3, <2>1, <2>2, <2>4, <2>5 DEF AtStage, m, s, X
<1> QED BY <1>1, <1>2, <1>9, <1>10, <1>11, <1>12 DEF Awaiting
-----------------------------------------------------------------------------
(* The invariant is inductive.                                             *)

(* A new taskflow has an empty plan.                                       *)
LEMMA InitInv == Init => FlowInv
<1> SUFFICES ASSUME Init PROVE FlowInv
  OBVIOUS
<1> DEFINE M == <<>>
           S == [t \in Tasks |-> <<>>]
           next(N) == [n \in N |-> n]
<1>1. /\ heap = [list_node |-> AllInit(LNodes \ {}), sub_list |-> AllInit(SNodes \ {}),
                 is_sub |-> [t \in Tasks |-> FALSE], nr |-> [t \in Tasks |-> 1], main |-> [t \in Tasks |-> NULL]]
  <2>1. LNodes \ {} = Tasks \union {HEAD, NEW_ADD} /\ SNodes \ {} = Tasks \union {ADD}
    BY DEF LNodes, SNodes
  <2> QED BY <2>1 DEF Init
<1>2. /\ DOMAIN heap = {"list_node", "sub_list", "is_sub", "nr", "main"}
      /\ heap.list_node = AllInit(LNodes) /\ heap.sub_list = AllInit(SNodes)
      /\ \A t \in Tasks : heap.nr[t] = 1
      /\ heap.is_sub \in [Tasks -> BOOLEAN] /\ heap.nr \in [Tasks -> Int] /\ heap.main \in [Tasks -> Tasks \union {NULL}]
  BY <1>1
<1>3. /\ nr_task = 0 /\ moves = 0 /\ order = {} /\ mpc = "build" /\ current = HEAD /\ sub_current = HEAD
      /\ nr_completed = 0 /\ nr_completed_sub_task = 0 /\ completion = [cnt |-> 0, nr |-> 0]
      /\ pc = [t \in Tasks |-> "idle"] /\ runs = [t \in Tasks |-> 0]
  BY DEF Init
<1>4. ASSUME NEW N PROVE AllInit(N) \in Memory(N) /\ \A n \in N : Chain(AllInit(N), n, <<>>)
  <2>1. AllInit(N).next = next(N) /\ AllInit(N).prev = next(N) /\ AllInit(N) \in Memory(N)
    BY DEF AllInit, Memory
  <2>2. \A n \in N : AllInit(N).next[n] = n /\ AllInit(N).prev[n] = n
    BY <2>1
  <2> QED BY <2>1, <2>2, EmptyChain
<1>5. ToSet(M) = {} /\ M \in Seq(Tasks) /\ M = <<>>
  BY ShortLists
<1>6. S \in [Tasks -> Seq(Tasks)]
  BY <1>5
<1> HIDE DEF S, M
<1>7. InStages(ToSet(M), S) = {} /\ InStages({}, S) = {}
  BY <1>5 DEF InStages
<1>8. IsHeap(heap)
  <2>1. AllInit(LNodes) \in Memory(LNodes) /\ AllInit(SNodes) \in Memory(SNodes)
    BY <1>4
  <2> QED BY <1>2, <2>1 DEF IsHeap
<1>9. Subs(heap.sub_list, ToSet(M), S, M)
  <2>1. ADD \in SNodes /\ \A t \in Tasks : t \in SNodes
    BY NodeSets
  <2>2. \A n \in SNodes : Chain(heap.sub_list, n, M)
    BY <1>2, <1>4, <1>5
  <2>3. heap.sub_list \in Memory(SNodes)
    BY <1>2, <1>4
  <2> QED BY <1>5, <1>6, <2>1, <2>2, <2>3 DEF Subs
<1>10. Planned(heap, M, S, <<>>)
  <2>1. HEAD \in LNodes
    BY NodeSets
  <2>2. Chain(heap.list_node, HEAD, M)
    BY <1>2, <1>4, <1>5, <2>1
  <2>3. Aside(heap.list_node, M)
    <3>1. \A n \in LNodes : Chain(heap.list_node, n, <<>>)
      BY <1>2, <1>4
    <3> QED BY <3>1, NodeSets DEF Aside
  <2> QED BY <1>2, <1>5, <1>8, <1>9, <2>2, <2>3 DEF Planned
<1>11. Created = {}
  BY <1>3 DEF Created
<1>12. Ready(M, S)
  BY <1>3, <1>7, <1>10, <1>11 DEF Ready, Unflagged
<1>13. Types
  <2>1. pc \in [Tasks -> {"idle", "queued", "func", "complete"}] /\ runs \in [Tasks -> Nat]
    BY <1>3
  <2>2. completion \in [cnt : 0..MaxTask, nr : 0..MaxTask] /\ 0 \in 0..MaxTask /\ 0 \in 0..MaxMoves
    BY <1>3, TaskflowAssumption
  <2> QED BY <1>3, <2>1, <2>2 DEF Types
<1>14. Works /\ Building
  BY <1>3 DEF Works, Building
<1>15. Awaited(M, S)
  BY <1>3, <1>14 DEF Awaited
<1> QED BY <1>12, <1>13, <1>14, <1>15 DEF FlowInv

\* While the program builds, no work has been scheduled.
BuildInv == Types /\ Works /\ mpc = "build" /\ Building /\ \E M, S : Ready(M, S)

(* A step that builds: the new plan is all there is to show.               *)
LEMMA BuildKeeps ==
    ASSUME BuildInv, UNCHANGED <<mpc, current, sub_current, nr_completed, nr_completed_sub_task,
                                completion, pc, runs>>,
           nr_task' \in 0..MaxTask, moves' \in 0..MaxMoves, order' \subseteq Tasks \X Tasks,
           \E P, U : Ready(P, U)'
    PROVE  FlowInv'
<1>1. Types' /\ mpc' = "build"
  BY DEF BuildInv, Types
<1>2. Works' /\ Building'
  BY DEF BuildInv, Building, Works
<1>3. PICK P, U : Ready(P, U)'
  OBVIOUS
<1>4. Awaited(P, U)'
  BY <1>1, <1>2 DEF Awaited
<1> QED BY <1>1, <1>2, <1>3, <1>4 DEF FlowInv

\* The steps that build the flow.
LEMMA BuildStep ==
    ASSUME BuildInv, astray' = "no",
           \/ mthpc_task_create \/ \E t \in Created : mthpc_sub_task_create(t)
           \/ \E t \in Created, news \in News :
                 mthpc_taskflow_precede(t, news) \/ mthpc_taskflow_succeed(t, news)
    PROVE  FlowInv'
<1>1. PICK M, S : Ready(M, S)
  BY DEF BuildInv
<1>2. /\ nr_task \in 0..MaxTask /\ nr_task \in Nat /\ moves \in 0..MaxMoves /\ order \subseteq Tasks \X Tasks
      /\ MaxTask \in Nat /\ MaxMoves \in Nat /\ Created \subseteq Tasks
  BY TaskflowAssumption DEF BuildInv, Types, Created, Tasks
<1>3. ASSUME mthpc_task_alloc PROVE nr_task' \in 0..MaxTask
  BY <1>2, <1>3 DEF mthpc_task_alloc
<1>4. CASE mthpc_task_create
  <2>1. /\ mthpc_task_alloc
        /\ UNCHANGED <<moves, order, mpc, current, sub_current, nr_completed, nr_completed_sub_task,
                       completion, pc, runs>>
    BY <1>4 DEF mthpc_task_create, awaitVars, workVars
  <2>2. \E P, U : Ready(P, U)'
    BY <1>1, <1>2, <1>4, TaskCreateReady
  <2> QED BY <1>2, <1>3, <2>1, <2>2, BuildKeeps
<1>5. ASSUME NEW t \in Created, mthpc_sub_task_create(t) PROVE FlowInv'
  <2>1. /\ mthpc_task_alloc
        /\ UNCHANGED <<moves, order, mpc, current, sub_current, nr_completed, nr_completed_sub_task,
                       completion, pc, runs>>
    BY <1>5 DEF mthpc_sub_task_create, awaitVars, workVars
  <2>2. \E P, U : Ready(P, U)'
    BY <1>1, <1>2, <1>5, SubTaskCreateReady
  <2> QED BY <1>2, <1>3, <2>1, <2>2, BuildKeeps
<1>6. ASSUME NEW t \in Created, NEW news \in News, mthpc_taskflow_precede(t, news) PROVE FlowInv'
  <2>1. /\ moves < MaxMoves /\ moves' = moves + 1
        /\ UNCHANGED <<nr_task, current, sub_current, nr_completed, nr_completed_sub_task,
                       completion, pc, runs>>
    BY <1>6 DEF mthpc_taskflow_precede, Call, workVars
  <2>2. (\E P, U : Ready(P, U)') /\ order' \subseteq Tasks \X Tasks /\ mpc' = mpc
    BY <1>1, <1>2, <1>6, PrecedeReady
  <2>3. moves' \in 0..MaxMoves
    BY <1>2, <2>1
  <2> QED BY <1>2, <2>1, <2>2, <2>3, BuildKeeps
<1>7. ASSUME NEW t \in Created, NEW news \in News, mthpc_taskflow_succeed(t, news) PROVE FlowInv'
  <2>1. /\ moves < MaxMoves /\ moves' = moves + 1
        /\ UNCHANGED <<nr_task, current, sub_current, nr_completed, nr_completed_sub_task,
                       completion, pc, runs>>
    BY <1>7 DEF mthpc_taskflow_succeed, Call, workVars
  <2>2. (\E P, U : Ready(P, U)') /\ order' \subseteq Tasks \X Tasks /\ mpc' = mpc
    BY <1>1, <1>2, <1>7, SucceedReady
  <2>3. moves' \in 0..MaxMoves
    BY <1>2, <2>1
  <2> QED BY <1>2, <2>1, <2>2, <2>3, BuildKeeps
<1> QED BY <1>4, <1>5, <1>6, <1>7

(* A step of await() or of a work: the stage is all there is to show.      *)
LEMMA AwaitingInv ==
    ASSUME NEW M, NEW S, NEW k, Awaiting(M, S, k)'
    PROVE  FlowInv'
BY DEF Awaiting, FlowInv, Awaited

(* await() schedules works that are in no queue.                           *)
LEMMA NotLost ==
    ASSUME NEW M, NEW S, NEW k, Awaiting(M, S, k)
    PROVE  ~await_lost
<1> SUFFICES ASSUME await_lost PROVE FALSE
  OBVIOUS
<1> DEFINE m == M[k]
           s == S[m]
<1>1. /\ Planned(heap, M, S, <<>>) /\ k \in 1..(Len(M) + 1) /\ AtStage(M, S, k)
  BY DEF Awaiting, Ready
<1>2. mpc \in {"main", "subs"} /\ k \in 1..Len(M) /\ current = At(HEAD, M, k)
  BY <1>1 DEF await_lost, AtStage
<1>3. /\ At(HEAD, M, k) = m /\ At(m, s, Len(s) + 1) = m
      /\ \A j \in 1..Len(s) : At(m, s, j) = s[j]
  BY <1>1, <1>2, PlanLinks
<1>4. m \in StageAt(M, S, k) /\ Len(s) \in Nat
  BY <1>1, <1>2, StagesOf DEF Ring
<1>5. CASE mpc = "main"
  <2>1. pc[current] = "idle"
    BY <1>1, <1>2, <1>3, <1>4, <1>5 DEF AtStage, AllIdle
  <2> QED BY <1>5, <2>1 DEF await_lost, Schedulable
<1>6. CASE mpc = "subs"
  <2>1. PICK j \in 1..(Len(s) + 1) : Scheduled(m, s, j)
    BY <1>1, <1>6 DEF AtStage
  <2>2. sub_current # current /\ ~Schedulable(sub_current)
    BY <1>6 DEF await_lost
  <2> HIDE DEF m, s
  <2>3. j \in 1..Len(s)
    BY <1>2, <1>3, <1>4, <2>1, <2>2 DEF Scheduled
  <2>4. pc[sub_current] = "idle"
    BY <1>3, <1>4, <2>1, <2>3 DEF Scheduled
  <2> QED BY <2>2, <2>4 DEF Schedulable
<1> QED BY <1>2, <1>5, <1>6

(* Every step keeps the invariant as long as the calls are straight.       *)
LEMMA InvStep == FlowInv /\ [Next]_vars /\ astray' = "no" => FlowInv'
<1> SUFFICES ASSUME FlowInv, [Next]_vars, astray' = "no" PROVE FlowInv'
  OBVIOUS
<1>1. Types /\ Works
  BY DEF FlowInv
<1>2. PICK M, S : Ready(M, S) /\ Awaited(M, S)
  BY DEF FlowInv
<1>3. CASE UNCHANGED vars
  <2>1. UNCHANGED <<heap, nr_task, moves, order, mpc, current, sub_current, nr_completed,
                    nr_completed_sub_task, completion, pc, runs>>
    BY <1>3 DEF vars, callVars, awaitVars, workVars
  <2>2. Types' /\ Works'
    BY <1>1, <2>1 DEF Types, Works, Created
  <2>3. Ready(M, S)'
    BY <1>2, <2>1, PlanKept
  <2>4. Awaited(M, S)'
    BY <1>2, <2>1 DEF Awaited, Building, AtStage, AllIdle, Scheduled, Complete
  <2> QED BY <2>2, <2>3, <2>4 DEF FlowInv
<1>4. CASE Next /\ mpc = "build"
  <2>1. BuildInv
    BY <1>1, <1>2, <1>4 DEF BuildInv, Awaited
  <2>2. \A t \in Tasks : pc[t] = "idle"
    BY <2>1 DEF BuildInv, Building
  <2>3. CASE mthpc_taskflow_await
    <3>1. Ready(M, S)' /\ Types' /\ Works' /\ AtStage(M, S, 1)' /\ 1 \in 1..(Len(M) + 1)
      BY <1>1, <1>2, <1>4, <2>1, <2>3, AwaitStarts DEF BuildInv
    <3>2. mpc' = "stage"
      BY <2>3 DEF mthpc_taskflow_await
    <3>3. Awaited(M, S)'
      BY <3>1, <3>2 DEF Awaited
    <3> QED BY <3>1, <3>3 DEF FlowInv
  <2>4. ~AwaitStep /\ ~Finished /\ ~mthpc_wait_for_completion_spin
    BY <1>4 DEF AwaitStep, mthpc_completion_init, schedule_main_task, schedule_sub_task, await_lost,
                mthpc_wait_for_completion, await_return, Finished, mthpc_wait_for_completion_spin
  <2>5. ~ \E t \in Tasks : mthpc_task_worker(t)
    BY <2>2 DEF mthpc_task_worker, task_func, mthpc_complete
  <2> QED BY <1>4, <2>1, <2>3, <2>4, <2>5, BuildStep DEF Next
<1>5. CASE Next /\ mpc # "build"
  <2>1. PICK k \in 1..(Len(M) + 1) : AtStage(M, S, k)
    BY <1>2, <1>5 DEF Awaited
  <2>2. Awaiting(M, S, k)
    BY <1>1, <1>2, <1>5, <2>1 DEF Awaiting
  <2>3. \/ AwaitStep \/ \E t \in Tasks : mthpc_task_worker(t)
        \/ UNCHANGED vars
    BY <1>5 DEF Next, mthpc_task_create, mthpc_sub_task_create, mthpc_task_alloc, mthpc_taskflow_precede,
                mthpc_taskflow_succeed, Call, mthpc_taskflow_await, mthpc_wait_for_completion_spin, Finished
  <2>4. CASE AwaitStep
    <3>1. CASE mthpc_completion_init
      BY <2>2, <3>1, CompletionReset, AwaitingInv
    <3>2. CASE schedule_main_task
      BY <2>2, <3>2, MainScheduled, AwaitingInv
    <3>3. CASE schedule_sub_task
      BY <2>2, <3>3, SubScheduled, AwaitingInv
    <3>4. CASE mthpc_wait_for_completion
      BY <2>2, <3>4, StageWaited, AwaitingInv
    <3>5. CASE await_return
      BY <2>2, <3>5, AwaitReturned, AwaitingInv
    <3>6. ~await_lost
      BY <2>2, NotLost
    <3> QED BY <2>4, <3>1, <3>2, <3>3, <3>4, <3>5, <3>6 DEF AwaitStep
  <2>5. ASSUME NEW t \in Tasks, mthpc_task_worker(t) PROVE FlowInv'
    <3>1. CASE task_func(t)
      BY <2>2, <3>1, FuncRuns, AwaitingInv
    <3>2. CASE mthpc_complete(t)
      BY <2>2, <3>2, WorkCompletes, AwaitingInv
    <3> QED BY <2>5, <3>1, <3>2 DEF mthpc_task_worker
  <2> QED BY <1>3, <2>3, <2>4, <2>5
<1> QED BY <1>3, <1>4, <1>5

\* Whatever has been called.
Always ==
    /\ nr_task \in 0..MaxTask /\ moves \in 0..MaxMoves
    /\ astray \in {"no", "stale", "own", "many", "nested"}
    /\ mpc \in {"build", "stage", "main", "subs", "done", "lost"}
    /\ pc \in [Tasks -> {"idle", "queued", "func", "complete"}]
    /\ runs \in [Tasks -> Nat]

(* Every step keeps these types, and no step makes up for a call that was  *)
(* not straight.                                                           *)
LEMMA AlwaysStep == Always /\ [Next]_vars => Always' /\ (astray # "no" => astray' = astray)
<1> SUFFICES ASSUME Always, [Next]_vars PROVE Always' /\ (astray # "no" => astray' = astray)
  OBVIOUS
<1>t. /\ nr_task \in 0..MaxTask /\ moves \in 0..MaxMoves /\ MaxTask \in Nat /\ MaxMoves \in Nat
      /\ astray \in {"no", "stale", "own", "many", "nested"}
      /\ mpc \in {"build", "stage", "main", "subs", "done", "lost"}
      /\ pc \in [Tasks -> {"idle", "queued", "func", "complete"}] /\ runs \in [Tasks -> Nat]
  BY TaskflowAssumption DEF Always
<1>1. CASE UNCHANGED vars
  BY <1>t, <1>1 DEF vars, callVars, awaitVars, workVars, Always
<1>2. CASE mthpc_task_create
  BY <1>t, <1>2 DEF mthpc_task_create, mthpc_task_alloc, awaitVars, workVars, Always
<1>3. ASSUME NEW t \in Created, mthpc_sub_task_create(t) PROVE Always' /\ (astray # "no" => astray' = astray)
  BY <1>t, <1>3 DEF mthpc_sub_task_create, mthpc_task_alloc, awaitVars, workVars, Always
<1>4. ASSUME NEW side, NEW t, NEW news, NEW result, NEW asked, Call(side, t, news, result, asked)
      PROVE  Always' /\ (astray # "no" => astray' = astray)
  <2>1. /\ moves < MaxMoves /\ moves' = moves + 1 /\ astray' = AstrayAfter(side, t, news)
        /\ UNCHANGED <<nr_task, pc, runs>> /\ (mpc' = "lost" \/ mpc' = mpc)
    BY <1>4 DEF Call, workVars
  <2>2. AstrayAfter(side, t, news) \in {astray, "stale", "own", "many", "no"}
        /\ (astray # "no" => AstrayAfter(side, t, news) = astray)
    BY DEF AstrayAfter
  <2> QED BY <1>t, <2>1, <2>2 DEF Always
<1>5. ASSUME NEW t \in Created, NEW news \in News,
             mthpc_taskflow_precede(t, news) \/ mthpc_taskflow_succeed(t, news)
      PROVE  Always' /\ (astray # "no" => astray' = astray)
  BY <1>4, <1>5 DEF mthpc_taskflow_precede, mthpc_taskflow_succeed
<1>6. CASE mthpc_taskflow_await
  BY <1>t, <1>6 DEF mthpc_taskflow_await, callVars, workVars, Always
<1>7. CASE AwaitStep
  <2>1. CASE mthpc_completion_init \/ mthpc_wait_for_completion \/ await_return \/ await_lost
    BY <1>t, <2>1 DEF mthpc_completion_init, mthpc_wait_for_completion, await_return, await_lost,
                      callVars, workVars, Always
  <2>2. CASE schedule_main_task \/ schedule_sub_task
    <3>1. /\ UNCHANGED <<nr_task, moves, astray, runs>> /\ (mpc' = "subs" \/ mpc' = mpc)
          /\ \E t : pc' = [pc EXCEPT ![t] = "queued"]
      BY <2>2 DEF schedule_main_task, schedule_sub_task, Schedule, callVars
    <3>2. pc' \in [Tasks -> {"idle", "queued", "func", "complete"}]
      BY <1>t, <3>1
    <3> QED BY <1>t, <3>1, <3>2 DEF Always
  <2> QED BY <1>7, <2>1, <2>2 DEF AwaitStep
<1>8. ASSUME NEW t \in Tasks, mthpc_task_worker(t) PROVE Always' /\ (astray # "no" => astray' = astray)
  <2>1. UNCHANGED <<nr_task, moves, astray, mpc>>
    BY <1>8 DEF mthpc_task_worker, task_func, mthpc_complete, callVars, awaitVars
  <2>2. pc' \in [Tasks -> {"idle", "queued", "func", "complete"}] /\ runs' \in [Tasks -> Nat]
    BY <1>t, <1>8 DEF mthpc_task_worker, task_func, mthpc_complete
  <2> QED BY <1>t, <2>1, <2>2 DEF Always
<1> QED BY <1>1, <1>2, <1>3, <1>5, <1>6, <1>7, <1>8
        DEF Next, mthpc_wait_for_completion_spin, Finished

\* The inductive invariant.
FlowInvNow == Always /\ (astray = "no" => FlowInv)
-----------------------------------------------------------------------------
(* What the invariant says of a flow.                                      *)

(* The pointers and counts of a plan are in range.                         *)
LEMMA InvTypeOK == FlowInvNow => TypeOK
<1> SUFFICES ASSUME Always, astray = "no", FlowInv PROVE TypeOK
  BY DEF FlowInvNow, Always, TypeOK
<1>1. Types
  BY DEF FlowInv
<1>2. PICK M, S : Ready(M, S) /\ Awaited(M, S)
  BY DEF FlowInv
<1>3. /\ Planned(heap, M, S, <<>>) /\ IsHeap(heap)
      /\ \A t \in Tasks : heap.nr[t] = IF t \in ToSet(M) THEN Len(S[t]) + 1 ELSE 1
      /\ \A x : x \in ToSet(M) <=> \E i \in 1..Len(M) : M[i] = x
  BY <1>2, PlannedFacts DEF Ready
<1>4. heap.list_node \in Memory(LNodes) /\ heap.sub_list \in Memory(SNodes)
      /\ heap.is_sub \in [Tasks -> BOOLEAN] /\ heap.nr \in [Tasks -> Int]
      /\ heap.main \in [Tasks -> Tasks \union {NULL}]
  BY <1>3 DEF IsHeap
<1>5. ASSUME NEW t \in Tasks PROVE heap.nr[t] \in 1..MaxTask
  <2>1. CASE t \in ToSet(M)
    <3>1. PICK k \in 1..Len(M) : M[k] = t
      BY <1>3, <2>1
    <3> QED BY <1>3, <3>1, StageCounts
  <2>2. CASE t \notin ToSet(M)
    BY <1>3, <2>2, TaskflowAssumption DEF Tasks
  <2> QED BY <2>1, <2>2
<1>6. heap.nr \in [Tasks -> 1..MaxTask]
  BY <1>4, <1>5
<1>7. nr_completed \in 0..MaxTask
  <2>1. MaxTask \in Nat /\ IsFiniteSet(1..MaxTask) /\ Cardinality(1..MaxTask) = MaxTask
    BY TaskflowAssumption, FS_Interval
  <2>2. CASE mpc = "build"
    BY <1>2, <2>1, <2>2 DEF Awaited, Building
  <2>3. CASE mpc # "build"
    <3>1. PICK k : nr_completed = Cardinality(Earlier(M, S, k))
      BY <1>2, <2>3 DEF Awaited, AtStage
    <3> DEFINE X == Earlier(M, S, k)
    <3>2. X \in SUBSET (1..MaxTask) /\ IsFiniteSet(X)
      BY <1>3, EarlierSets DEF Tasks
    <3> HIDE DEF X
    <3>3. Cardinality(X) <= MaxTask /\ Cardinality(X) \in Nat
      BY <2>1, <3>2, FS_Subset, FS_CardinalityType
    <3> QED BY <2>1, <3>1, <3>3 DEF X
  <2> QED BY <2>2, <2>3
<1>8. /\ heap.list_node.next \in [LNodes -> LNodes] /\ heap.list_node.prev \in [LNodes -> LNodes]
      /\ heap.sub_list.next \in [SNodes -> SNodes] /\ heap.sub_list.prev \in [SNodes -> SNodes]
  BY <1>4, MemoryType
<1>9. LNodes = Tasks \union {HEAD, NEW_ADD} /\ SNodes = Tasks \union {ADD}
  BY DEF LNodes, SNodes
<1> QED BY <1>1, <1>4, <1>6, <1>7, <1>8, <1>9 DEF TypeOK, Types, Always

(* What await() walks along is the plan.                                   *)
LEMMA StageIsStage ==
    ASSUME NEW M, NEW S, Planned(heap, M, S, <<>>), NEW k \in 1..Len(M)
    PROVE  /\ ToSet(Stage(heap, M[k])) = StageAt(M, S, k) /\ IsInjective(Stage(heap, M[k]))
           /\ heap.nr[M[k]] = Len(Stage(heap, M[k]))
<1> DEFINE m == M[k]
           s == S[m]
<1>1. /\ m \in Tasks /\ m \in ToSet(M) /\ m \notin ToSet(s) /\ s \in Seq(Tasks) /\ IsInjective(s) /\ Len(s) \in Nat
      /\ StageAt(M, S, k) = Ring(m, s) /\ heap.nr[m] = Len(s) + 1
  BY StagesOf
<1>2. Stage(heap, m) = <<m>> \o s
  BY <1>1, UpToDateAgrees DEF Stage
<1> HIDE DEF m, s
<1>3. ToSet(<<m>> \o s) = ToSet(s) \union {m} /\ IsInjective(<<m>> \o s)
  BY <1>1, AddedFirst
<1>4. Len(<<m>> \o s) = Len(s) + 1
  BY <1>1
<1> QED BY <1>1, <1>2, <1>3, <1>4 DEF Ring, m

(* The stages the walks meet are those of the plan.                        *)
LEMMA InvStagesMatch == FlowInvNow => StagesMatch
<1> SUFFICES ASSUME FlowInv PROVE StagesMatch
  BY DEF FlowInvNow, StagesMatch
<1>1. PICK M, S : Planned(heap, M, S, <<>>) /\ InStages(ToSet(M), S) = Created
  BY DEF FlowInv, Ready
<1>2. MainTasks(heap) = M
  BY <1>1, UpToDateAgrees
<1>3. /\ \A t : t \in InStages(ToSet(M), S) <=> \E i \in 1..Len(M) : t \in StageAt(M, S, i)
      /\ \A i, j \in 1..Len(M) : \A t : t \in StageAt(M, S, i) /\ t \in StageAt(M, S, j) => i = j
      /\ M \in Seq(Tasks) /\ DOMAIN M = 1..Len(M)
  BY <1>1, StagesOf
<1> DEFINE stage == [k \in DOMAIN M |-> Stage(heap, M[k])]
<1>4. \A k \in DOMAIN M : /\ ToSet(stage[k]) = StageAt(M, S, k) /\ IsInjective(stage[k])
                          /\ heap.nr[M[k]] = Len(stage[k])
  BY <1>1, <1>3, StageIsStage
<1> HIDE DEF stage
<1>5. UNION {ToSet(stage[k]) : k \in DOMAIN M} = Created
  <2>1. \A t : t \in UNION {ToSet(stage[k]) : k \in DOMAIN M} <=> \E k \in DOMAIN M : t \in StageAt(M, S, k)
    BY <1>4
  <2>2. \A t : t \in UNION {ToSet(stage[k]) : k \in DOMAIN M} <=> t \in Created
    BY <1>1, <1>3, <2>1
  <2> QED BY <2>2
<1>6. \A j, k \in DOMAIN M : j # k => ToSet(stage[j]) \intersect ToSet(stage[k]) = {}
  BY <1>3, <1>4
<1> QED BY <1>2, <1>4, <1>5, <1>6 DEF StagesMatch, stage

(* A task has left idle only when the stages before its own are through.   *)
LEMMA InvOrderKept == FlowInvNow => OrderKept
<1> SUFFICES ASSUME FlowInv, NEW p \in order, pc[p[2]] # "idle" PROVE pc[p[1]] = "complete"
  BY DEF FlowInvNow, OrderKept
<1>1. PICK M, S : Ready(M, S) /\ Awaited(M, S)
  BY DEF FlowInv
<1>2. /\ Len(M) \in Nat
      /\ \A i \in 1..Len(M) : StageAt(M, S, i) \subseteq Tasks
  BY <1>1, StagesOf DEF Ready
<1>3. PICK i, j \in 1..Len(M) : i < j /\ p[1] \in StageAt(M, S, i) /\ p[2] \in StageAt(M, S, j)
  BY <1>1 DEF Ready, Before
<1>4. mpc # "build"
  BY <1>1, <1>2, <1>3 DEF Awaited, Building
<1>5. PICK k \in 1..(Len(M) + 1) : AtStage(M, S, k)
  BY <1>1, <1>4 DEF Awaited
<1>6. ~(k < j)
  BY <1>3, <1>5 DEF AtStage, AllIdle
<1>7. i < k
  BY <1>2, <1>3, <1>6
<1>8. p[1] \in Earlier(M, S, k)
  BY <1>2, <1>3, <1>7 DEF Earlier
<1> QED BY <1>5, <1>8 DEF AtStage

(* Behind the last stage all tasks are complete.                           *)
LEMMA InvAwaitRunsAll == FlowInvNow => AwaitRunsAll
<1> SUFFICES ASSUME FlowInv, mpc = "done"
             PROVE  (\A t \in Created : runs[t] = 1 /\ pc[t] = "complete") /\ nr_completed = nr_task
  BY DEF FlowInvNow, AwaitRunsAll
<1>1. PICK M, S : Planned(heap, M, S, <<>>) /\ InStages(ToSet(M), S) = Created /\ Awaited(M, S)
  BY DEF FlowInv, Ready
<1>2. PICK k : AtStage(M, S, k)
  BY <1>1 DEF Awaited
<1>3. /\ k = Len(M) + 1 /\ nr_completed = Cardinality(Earlier(M, S, k))
      /\ \A t \in Earlier(M, S, k) : pc[t] = "complete"
  BY <1>2 DEF AtStage
<1>4. Earlier(M, S, Len(M) + 1) = InStages(ToSet(M), S)
  BY <1>1, EarlierSets
<1>5. Earlier(M, S, k) = Created
  BY <1>1, <1>3, <1>4
<1>6. nr_task \in 0..MaxTask /\ MaxTask \in Nat
  BY TaskflowAssumption DEF FlowInv, Types
<1>7. Cardinality(Created) = nr_task
  <2>1. Cardinality(1..nr_task) = nr_task
    BY <1>6, FS_Interval
  <2> QED BY <2>1 DEF Created
<1>8. Created \subseteq Tasks
  BY <1>6 DEF Created, Tasks
<1>9. \A t \in Created : runs[t] = 1
  BY <1>3, <1>5, <1>8 DEF FlowInv, Works
<1> QED BY <1>3, <1>5, <1>7, <1>9
-----------------------------------------------------------------------------
(* What holds of every flow, with any number of tasks and moves.           *)

(* The invariant holds in every state.                                     *)
LEMMA InvHolds == Spec => []FlowInvNow
<1>1. Init => FlowInvNow
  <2>1. ASSUME Init PROVE Always
    <3>1. 0 \in 0..MaxTask /\ 0 \in 0..MaxMoves
      BY TaskflowAssumption
    <3> QED BY <2>1, <3>1 DEF Init, Always
  <2> QED BY <2>1, InitInv DEF FlowInvNow
<1>2. FlowInvNow /\ [Next]_vars => FlowInvNow'
  <2> SUFFICES ASSUME FlowInvNow, [Next]_vars PROVE FlowInvNow'
    OBVIOUS
  <2>1. Always' /\ (astray # "no" => astray' = astray)
    BY AlwaysStep DEF FlowInvNow
  <2>2. ASSUME astray' = "no" PROVE FlowInv'
    <3>1. FlowInv
      BY <2>1, <2>2 DEF FlowInvNow
    <3> QED BY <2>2, <3>1, InvStep
  <2> QED BY <2>1, <2>2 DEF FlowInvNow
<1> QED BY <1>1, <1>2, PTL DEF Spec

(* The counters and the works keep their types whatever is called.  As     *)
(* long as the calls are straight, no pointer of a list leads out of the   *)
(* tasks and the list heads, no count falls below 1 or exceeds the number  *)
(* of tasks, and neither precede(), succeed() nor await() gets lost.       *)
THEOREM TypeCorrect == Spec => []TypeOK
<1> QED BY InvTypeOK, InvHolds, PTL

(* After any sequence of straight calls of precede() and succeed(),        *)
(* mthpc_taskflow_await() meets every task once and nr_sub_task of each    *)
(* main task is the number of tasks in its stage.                          *)
THEOREM StagesAlwaysMatch == Spec => []StagesMatch
<1> QED BY InvStagesMatch, InvHolds, PTL

(* A task that was put after another by precede() or succeed() runs when   *)
(* the other is through, as long as all the calls were straight.           *)
THEOREM OrderIsKept == Spec => []OrderKept
<1> QED BY InvOrderKept, InvHolds, PTL

(* When mthpc_taskflow_await() returns after straight calls, every task    *)
(* has run once and its count of completed tasks is nr_task.               *)
THEOREM AwaitRunsEveryTask == Spec => []AwaitRunsAll
<1> QED BY InvAwaitRunsAll, InvHolds, PTL
=============================================================================
