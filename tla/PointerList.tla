----------------------------- MODULE PointerList ------------------------------
(***************************************************************************)
(* The doubly linked list Khensu keeps its recently used tokens in: two    *)
(* dictionaries of pointers, head, tail, size and capacity, here the       *)
(* fields of one record.  The operators are the methods on it.             *)
(***************************************************************************)
EXTENDS Integers, Sequences

CONSTANT Null   \* lru_null_token

EmptyList(capacity) ==
  [prev |-> [t \in {} |-> Null], next |-> [t \in {} |-> Null],
   head |-> Null, tail |-> Null, size |-> 0, capacity |-> capacity]

\* dict.get(t, null), d[t] = v and del d[t]
Get(d, t) == IF t \in DOMAIN d THEN d[t] ELSE Null
Put(d, t, v) == [x \in DOMAIN d \cup {t} |-> IF x = t THEN v ELSE d[x]]
Del(d, t) == [x \in DOMAIN d \ {t} |-> d[x]]

\* Writes a pointer of t, unless t is null.
Link(d, t, v) == IF t = Null THEN d ELSE Put(d, t, v)

\* Mutant: the new tail keeps its pointer to the evicted token.
EvictTailDangling(l) ==
  IF l.size = 0 THEN l
  ELSE [l EXCEPT !.prev = Del(@, l.tail), !.next = Del(@, l.tail),
                 !.tail = Get(l.prev, l.tail),
                 !.head = IF l.tail = @ THEN Null ELSE @,
                 !.size = @ - 1]

\* _evict_lru_tail
EvictTail(l) ==
  IF l.size = 0 THEN l
  ELSE LET newTail == Get(l.prev, l.tail)
       IN  [l EXCEPT !.prev = Del(@, l.tail),
                     !.next = Link(Del(@, l.tail), newTail, Null),
                     !.tail = newTail,
                     !.head = IF l.tail = @ THEN Null ELSE @,
                     !.size = @ - 1]

\* _remove_from_lru_list: t keeps its own pointers until it is added again.
Unlink(l, t) ==
  LET before == Get(l.prev, t)
      after  == Get(l.next, t)
  IN  [l EXCEPT !.next = Link(@, before, after), !.prev = Link(@, after, before),
                !.head = IF before = Null THEN after ELSE @,
                !.tail = IF after = Null THEN before ELSE @]

\* _add_to_lru_head
AddToHead(l, t) ==
  [l EXCEPT !.prev = Link(Put(@, t, Null), l.head, t),
            !.next = Put(@, t, l.head),
            !.head = t,
            !.tail = IF @ = Null THEN t ELSE @]

\* update_lru
Used(l, t) ==
  LET room == IF l.size >= l.capacity THEN EvictTail(l) ELSE l
  IN  IF t \in DOMAIN l.prev THEN AddToHead(Unlink(l, t), t)
      ELSE AddToHead([room EXCEPT !.size = @ + 1], t)

\* change_lru_capacity: evicts until the list fits.
Resized(l, capacity) ==
  LET shrunk[n \in 0 .. l.size] == IF n = 0 THEN l ELSE EvictTail(shrunk[n - 1])
      excess == IF l.size > capacity THEN l.size - capacity ELSE 0
  IN  [shrunk[excess] EXCEPT !.capacity = capacity]

\* The tokens of the list, followed from the head as get_last_n_tokens does.
Walk(l) ==
  LET node[n \in 1 .. l.size] == IF n = 1 THEN l.head ELSE Get(l.next, node[n - 1])
  IN  [n \in 1 .. l.size |-> node[n]]

=============================================================================
