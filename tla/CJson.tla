------------------------------- MODULE CJson --------------------------------
(***************************************************************************)
(* cJSON's trees (cJSON.c): items in memory, linked by next, prev and      *)
(* child, where the first item's prev is the last one, and a caller that   *)
(* builds, changes, copies and deletes trees while memory lasts.           *)
(***************************************************************************)
EXTENDS Integers, Sequences, SequencesExt, FiniteSets, TLC

CONSTANTS
  Memory,       \* the places for an item: an allocation fails when all are taken
  NULL,         \* no place
  Leaves,       \* the values of items without children
  MaxKeys       \* 1: the key "k" only; 2: also "K", the same without case

ASSUME IsFiniteSet(Memory) /\ NULL \notin Memory /\ MaxKeys \in 1..2

VARIABLES
  heap,     \* memory: an item, or Free
  held,     \* the trees the caller has pointers to and has to delete
  lost      \* items nobody has a pointer to any more

vars == <<heap, held, lost>>

Pointers == Memory \cup {NULL}
MaxItems == Cardinality(Memory)
Kinds == Leaves \cup {"array", "object"}
Keys == IF MaxKeys = 1 THEN {"k"} ELSE {"k", "K"}
NoKey == "none"

\* of: the item a reference was made from, NULL for what is no reference.
Item(kind) == [kind |-> kind, key |-> NoKey, of |-> NULL, next |-> NULL, prev |-> NULL, child |-> NULL]
Free == Item("free")
Allocated(h) == {n \in DOMAIN h : h[n] # Free}

-----------------------------------------------------------------------------
(* Walking                                                                 *)

\* The list that starts at x; cut off when it is longer than memory.
RECURSIVE Walk(_, _, _)
Walk(h, x, most) == IF x = NULL \/ most = 0 THEN <<>> ELSE <<x>> \o Walk(h, h[x].next, most - 1)
Chain(h, x) == Walk(h, x, Cardinality(DOMAIN h) + 1)
Elements(h, x) == Chain(h, h[x].child)

get_array_item(h, p, which) ==
  IF which + 1 \in DOMAIN Elements(h, p) THEN Elements(h, p)[which + 1] ELSE NULL

\* The first element with that key; with case, the search ends at one without key.
Folded(key) == IF key = "K" THEN "k" ELSE key
get_object_item(h, p, key, case_sensitive) ==
  LET stops(n) == IF case_sensitive THEN h[n].key \in {key, NoKey} ELSE Folded(h[n].key) = Folded(key)
      found == SelectSeq(Elements(h, p), stops)
  IN IF key = NoKey \/ found = <<>> \/ h[Head(found)].key = NoKey THEN NULL ELSE Head(found)

-----------------------------------------------------------------------------
(* Memory.  A call yields the heap it leaves and what it returns: a pointer *)
(* or, as TRUE and FALSE, success.                                          *)

Result(h, ret) == [heap |-> h, ret |-> ret]

cJSON_New_Item(h, item) ==
  LET unused == {n \in DOMAIN h : h[n] = Free}
      n == CHOOSE m \in unused : TRUE
  IN IF unused = {} THEN Result(h, NULL) ELSE Result([h EXCEPT ![n] = item], n)

\* Frees x, the elements behind it and what is below them, unless it is borrowed.
RECURSIVE Deleted(_, _)
Deleted(h, x) ==
  IF x = NULL THEN {}
  ELSE {x} \cup (IF h[x].of = NULL THEN Deleted(h, h[x].child) ELSE {}) \cup Deleted(h, h[x].next)
cJSON_Delete(h, x) == LET gone == Deleted(h, x) IN [n \in DOMAIN h |-> IF n \in gone THEN Free ELSE h[n]]

create_reference(h, x) ==
  cJSON_New_Item(h, [h[x] EXCEPT !.key = NoKey, !.of = IF @ = NULL THEN x ELSE @, !.next = NULL, !.prev = NULL])

\* A list of count leaves; a failure deletes what there is of it.
RECURSIVE Filled(_, _, _, _, _)
Filled(h, a, last, leaf, count) ==
  LET n == cJSON_New_Item(h, Item(leaf))
      linked == IF last = NULL THEN [n.heap EXCEPT ![a].child = n.ret]
                ELSE [n.heap EXCEPT ![last].next = n.ret, ![n.ret].prev = last]
  IN CASE count = 0 -> Result(IF last = NULL THEN h ELSE [h EXCEPT ![h[a].child].prev = last], a)
       [] count > 0 /\ n.ret = NULL -> Result(cJSON_Delete(h, a), NULL)
       [] OTHER -> Filled(linked, a, n.ret, leaf, count - 1)
cJSON_CreateListOf(h, leaf, count) ==
  LET a == cJSON_New_Item(h, Item("array"))
  IN IF a.ret = NULL THEN a ELSE Filled(a.heap, a.ret, NULL, leaf, count)

\* The copies of the list from x become the children of n, behind last.
RECURSIVE cJSON_Duplicate(_, _, _), Copied(_, _, _, _)
Copied(h, n, last, x) ==
  LET c == cJSON_Duplicate(h, x, TRUE)
      linked == IF last = NULL THEN [c.heap EXCEPT ![n].child = c.ret]
                ELSE [c.heap EXCEPT ![last].next = c.ret, ![c.ret].prev = last]
  IN CASE x = NULL -> Result(IF last = NULL THEN h ELSE [h EXCEPT ![h[n].child].prev = last], n)
       [] x # NULL /\ c.ret = NULL -> Result(cJSON_Delete(c.heap, n), NULL)
       [] OTHER -> Copied(linked, n, c.ret, h[x].next)
cJSON_Duplicate(h, x, recurse) ==
  LET n == cJSON_New_Item(h, [Item(h[x].kind) EXCEPT !.key = h[x].key])
  IN IF n.ret = NULL \/ ~recurse THEN n ELSE Copied(n.heap, n.ret, NULL, h[x].child)

-----------------------------------------------------------------------------
(* Linking.  strdup: whether there was memory for a copy of the key.       *)

add_item_to_array(h, p, x) ==
  LET head == h[p].child
      last == h[head].prev
  IN CASE x = NULL \/ p = x -> Result(h, FALSE)
       [] x # NULL /\ p # x /\ head = NULL ->
            Result([h EXCEPT ![p].child = x, ![x].prev = x, ![x].next = NULL], TRUE)
       [] OTHER -> Result(IF last = NULL THEN h
                          ELSE [h EXCEPT ![last].next = x, ![x].prev = last, ![head].prev = x], TRUE)

add_item_to_object(h, p, key, x, strdup) ==
  IF x = NULL \/ p = x \/ ~strdup THEN Result(h, FALSE)
  ELSE add_item_to_array([h EXCEPT ![x].key = key], p, x)

\* Faulty variant: what is taken out still points to the ones behind it.
DetachedWithTheRest(h, p, x) ==
  LET first == h[p].child
      a == IF x # first THEN [h EXCEPT ![h[x].prev].next = h[x].next] ELSE h
      b == IF h[x].next # NULL THEN [a EXCEPT ![h[x].next].prev = h[x].prev] ELSE a
      c == IF x = first THEN [b EXCEPT ![p].child = h[x].next]
           ELSE IF h[x].next = NULL THEN [b EXCEPT ![first].prev = h[x].prev] ELSE b
  IN IF x = NULL \/ (x # first /\ h[x].prev = NULL) THEN Result(h, NULL)
     ELSE Result([c EXCEPT ![x].prev = NULL], x)

cJSON_DetachItemViaPointer(h, p, x) ==
  LET first == h[p].child
      a == IF x # first THEN [h EXCEPT ![h[x].prev].next = h[x].next] ELSE h
      b == IF h[x].next # NULL THEN [a EXCEPT ![h[x].next].prev = h[x].prev] ELSE a
      c == IF x = first THEN [b EXCEPT ![p].child = h[x].next]
           ELSE IF h[x].next = NULL THEN [b EXCEPT ![first].prev = h[x].prev] ELSE b
  IN IF x = NULL \/ (x # first /\ h[x].prev = NULL) THEN Result(h, NULL)
     ELSE Result([c EXCEPT ![x].prev = NULL, ![x].next = NULL], x)

cJSON_InsertItemInArray(h, p, which, x) ==
  LET after == get_array_item(h, p, which)
      linked == [h EXCEPT ![x].next = after, ![x].prev = h[after].prev, ![after].prev = x]
  IN CASE after = NULL -> add_item_to_array(h, p, x)
       [] after # NULL /\ after = h[p].child -> Result([linked EXCEPT ![p].child = x], TRUE)
       [] OTHER -> IF h[after].prev = NULL THEN Result(h, FALSE)
                   ELSE Result([linked EXCEPT ![h[after].prev].next = x], TRUE)

\* Faulty variant: an only child is replaced like a first one.
ReplacedAsFirst(h, p, old, x) ==
  LET first == h[p].child
      a == [h EXCEPT ![x].next = h[old].next, ![x].prev = h[old].prev]
      b == IF h[old].next # NULL THEN [a EXCEPT ![h[old].next].prev = x] ELSE a
      c == IF h[old].prev # NULL THEN [b EXCEPT ![h[old].prev].next = x] ELSE b
      d == IF first = old THEN [b EXCEPT ![p].child = x]
           ELSE IF h[old].next = NULL THEN [c EXCEPT ![first].prev = x] ELSE c
  IN IF first = NULL \/ old \in {NULL, x} THEN Result(h, old # NULL)
     ELSE Result(cJSON_Delete([d EXCEPT ![old].next = NULL, ![old].prev = NULL], old), TRUE)

cJSON_ReplaceItemViaPointer(h, p, old, x) ==
  LET first == h[p].child
      a == [h EXCEPT ![x].next = h[old].next, ![x].prev = h[old].prev]
      b == IF h[old].next # NULL THEN [a EXCEPT ![h[old].next].prev = x] ELSE a
      alone == IF h[first].prev = first THEN [b EXCEPT ![x].prev = x] ELSE b
      c == IF h[old].prev # NULL THEN [b EXCEPT ![h[old].prev].next = x] ELSE b
      d == IF first = old THEN [alone EXCEPT ![p].child = x]
           ELSE IF h[old].next = NULL THEN [c EXCEPT ![first].prev = x] ELSE c
  IN CASE first = NULL \/ old = NULL -> Result(h, FALSE)
       [] first # NULL /\ old = x -> Result(h, TRUE)
       [] OTHER -> Result(cJSON_Delete([d EXCEPT ![old].next = NULL, ![old].prev = NULL], old), TRUE)

\* The replacement has the key before it is known whether there is anything to replace.
replace_item_in_object(h, p, key, x, case_sensitive, strdup) ==
  LET named == [h EXCEPT ![x].key = IF strdup THEN key ELSE NoKey]
  IN IF ~strdup THEN Result(named, FALSE)
     ELSE cJSON_ReplaceItemViaPointer(named, p, get_object_item(named, p, key, case_sensitive), x)

-----------------------------------------------------------------------------
(* The caller                                                              *)

\* What is owned, as opposed to borrowed, and all that is below S by it.
Children(h, x) == IF h[x].of = NULL THEN Elements(h, x) ELSE <<>>
RECURSIVE Owned(_, _)
Owned(h, S) ==
  LET more == S \cup UNION {ToSet(Children(h, n)) : n \in S}
  IN IF more = S THEN S ELSE Owned(h, more)
Live == Owned(heap, held)

\* The caller leaves a tree alone while a reference borrows from it, adds nothing
\* to what is borrowed, and makes no cycle.
InUse == Allocated(heap) \ lost
Borrowed == {heap[n].of : n \in InUse} \ {NULL}
Together(x, y) == \E r \in held : {x, y} \subseteq Owned(heap, {r})
Untouched(x) == \A y \in Borrowed : ~Together(x, y)
Containers(kind) == {p \in InUse : heap[p].kind = kind /\ heap[p].of = NULL /\ Untouched(p)}
Lists == Containers("array") \cup Containers("object")
Apart(p, x) == p \notin Owned(heap, {x}) /\ Untouched(x)

\* Places are told apart by nothing but what is in them, and any free one will do.
Interchangeable == Permutations(Memory)

Init == heap = [n \in Memory |-> Free] /\ held = {} /\ lost = {}

Return(result, trees) == heap' = result.heap /\ held' = trees /\ UNCHANGED lost
\* x is in the tree of p if the call succeeds, and still the caller's if not.
Given(result, x) == Return(result, IF result.ret THEN held \ {x} ELSE held)
\* A new tree, or NULL.
Made(result) == Return(result, held \cup ({result.ret} \ {NULL}))

Create == \E kind \in Kinds : Made(cJSON_New_Item(heap, Item(kind)))
CreateListOf == \E leaf \in Leaves, count \in 1..3 : Made(cJSON_CreateListOf(heap, leaf, count))
Duplicate == \E x \in InUse, recurse \in BOOLEAN : Made(cJSON_Duplicate(heap, x, recurse))

AddItemToArray ==
  \E p \in Containers("array"), x \in held : Apart(p, x) /\ Given(add_item_to_array(heap, p, x), x)
AddItemToObject ==
  \E p \in Containers("object"), x \in held, key \in Keys, strdup \in BOOLEAN :
    Apart(p, x) /\ Given(add_item_to_object(heap, p, key, x, strdup), x)

\* The item made for it is deleted again when it cannot be added.
AddNewToObject ==
  \E p \in Containers("object"), kind \in Kinds, key \in Keys, strdup \in BOOLEAN :
    LET x == cJSON_New_Item(heap, Item(kind))
        added == add_item_to_object(x.heap, p, key, x.ret, strdup)
    IN Return(IF added.ret \/ x.ret = NULL THEN added ELSE Result(cJSON_Delete(added.heap, x.ret), FALSE), held)

AddItemReferenceToArray ==
  \E p \in Containers("array"), y \in InUse :
    LET r == create_reference(heap, y)
    IN ~Together(p, y) /\ Return(add_item_to_array(r.heap, p, r.ret), held)

\* A reference that cannot be named is not deleted.
AddItemReferenceToObject ==
  \E p \in Containers("object"), y \in InUse, key \in Keys, strdup \in BOOLEAN :
    LET r == create_reference(heap, y)
        added == add_item_to_object(r.heap, p, key, r.ret, strdup)
    IN /\ ~Together(p, y)
       /\ heap' = added.heap
       /\ lost' = IF added.ret THEN lost ELSE lost \cup ({r.ret} \ {NULL})
       /\ UNCHANGED held

\* Items are found by place or by key, and what is taken out may be deleted at once.
Found(p) == {get_array_item(heap, p, which) : which \in 0..MaxItems}
              \cup {get_object_item(heap, p, key, cs) : key \in Keys, cs \in BOOLEAN}
DetachItem ==
  \E p \in Lists : \E x \in Found(p) \ {NULL} : Made(cJSON_DetachItemViaPointer(heap, p, x))
DeleteItem ==
  \E p \in Lists : \E x \in Found(p) \ {NULL} :
    LET detached == cJSON_DetachItemViaPointer(heap, p, x)
    IN Return(Result(cJSON_Delete(detached.heap, detached.ret), TRUE), held)

InsertItemInArray ==
  \E p \in Containers("array"), x \in held, which \in 0..MaxItems :
    Apart(p, x) /\ Given(cJSON_InsertItemInArray(heap, p, which, x), x)
ReplaceItem ==
  \E p \in Lists, x \in held : \E old \in Found(p) :
    Apart(p, x) /\ Given(cJSON_ReplaceItemViaPointer(heap, p, old, x), x)
ReplaceItemInObject ==
  \E p \in Containers("object"), x \in held, key \in Keys, cs, strdup \in BOOLEAN :
    Apart(p, x) /\ Given(replace_item_in_object(heap, p, key, x, cs, strdup), x)

Delete == \E x \in held : Untouched(x) /\ Return(Result(cJSON_Delete(heap, x), TRUE), held \ {x})

Next ==
  \/ Create \/ CreateListOf \/ Duplicate
  \/ AddItemToArray \/ AddItemToObject \/ AddNewToObject
  \/ AddItemReferenceToArray \/ AddItemReferenceToObject
  \/ DetachItem \/ DeleteItem \/ InsertItemInArray \/ ReplaceItem \/ ReplaceItemInObject
  \/ Delete

Spec == Init /\ [][Next]_vars

-----------------------------------------------------------------------------
(* Comparing, and what values really are                                   *)

\* Faulty variant: only what is in a is looked up in b.
RECURSIVE cJSON_Compare(_, _, _, _)
CompareSubset(h, a, b, case_sensitive) ==
  LET as == Elements(h, a)
      bs == Elements(h, b)
  IN /\ h[a].kind = h[b].kind
     /\ \/ a = b \/ h[a].kind \in Leaves
        \/ /\ h[a].kind = "array" /\ Len(as) = Len(bs)
           /\ \A i \in DOMAIN as : cJSON_Compare(h, as[i], bs[i], case_sensitive)
        \/ /\ h[a].kind = "object"
           /\ \A i \in DOMAIN as :
                LET other == get_object_item(h, b, h[as[i]].key, case_sensitive)
                IN other # NULL /\ cJSON_Compare(h, as[i], other, case_sensitive)

cJSON_Compare(h, a, b, case_sensitive) ==
  LET as == Elements(h, a)
      bs == Elements(h, b)
      Covers(xs, y) == \A i \in DOMAIN xs :
        LET other == get_object_item(h, y, h[xs[i]].key, case_sensitive)
        IN other # NULL /\ cJSON_Compare(h, xs[i], other, case_sensitive)
  IN /\ h[a].kind = h[b].kind
     /\ \/ a = b \/ h[a].kind \in Leaves
        \/ /\ h[a].kind = "array" /\ Len(as) = Len(bs)
           /\ \A i \in DOMAIN as : cJSON_Compare(h, as[i], bs[i], case_sensitive)
        \/ h[a].kind = "object" /\ Covers(as, b) /\ Covers(bs, a)

\* A value: its kind, and the values in it by place or by key.
RECURSIVE Value(_, _, _)
Value(h, x, case_sensitive) ==
  LET elements == Elements(h, x)
      Name(i) == CASE h[x].kind # "object" -> ToString(i)
                   [] h[x].kind = "object" /\ case_sensitive -> h[elements[i]].key
                   [] OTHER -> Folded(h[elements[i]].key)
  IN <<h[x].kind, {<<Name(i), Value(h, elements[i], case_sensitive)>> : i \in DOMAIN elements}>>

\* In the objects of x and below, every key is there and there once.
RECURSIVE ProperKeys(_, _, _)
ProperKeys(h, x, case_sensitive) ==
  LET elements == Elements(h, x)
      names == {IF case_sensitive THEN h[n].key ELSE Folded(h[n].key) : n \in ToSet(elements)}
  IN /\ h[x].kind = "object" => Cardinality(names \ {NoKey}) = Len(elements)
     /\ \A n \in ToSet(elements) : ProperKeys(h, n, case_sensitive)

-----------------------------------------------------------------------------
(* Properties                                                              *)

Circular(h, p) ==
  LET list == Children(h, p)
  IN \A i \in DOMAIN list : h[list[i]].prev = IF i = 1 THEN Last(list) ELSE list[i - 1]

\* A copy of an object with lists in it is that object over again ("identical",
\* cJSON.h:256), in items of its own with lists that are circular too; when memory
\* runs out on the way, everything is as it was before.
ASSUME CopiesAreIdentical ==
  \A n, m \in 0..2, spare \in 0..7 :
    LET empty == [i \in 1..(3 + n + m + spare) |-> Free]
        object == cJSON_New_Item(empty, Item("object"))
        list == cJSON_CreateListOf(object.heap, "a", n)
        other == cJSON_CreateListOf(add_item_to_object(list.heap, object.ret, "k", list.ret, TRUE).heap, "b", m)
        whole == add_item_to_object(other.heap, object.ret, "K", other.ret, TRUE).heap
        copy == cJSON_Duplicate(whole, object.ret, TRUE)
        items == Owned(copy.heap, {copy.ret})
    IN IF spare < 3 + n + m THEN copy = Result(whole, NULL)
       ELSE /\ items \cap Owned(copy.heap, {object.ret}) = {}
            /\ Value(copy.heap, copy.ret, TRUE) = Value(whole, object.ret, TRUE)
            /\ \A p \in items : Circular(copy.heap, p)

\* The heap is well formed.  The links are pointers, and every list is circular
\* backwards: each element points back to the one before it and the first to the last,
\* which add_item_to_array relies on to find the end.  No item is leaked, deleted
\* while something still points to it, or in two places: what is allocated is in one
\* place of one tree of the caller's, except the references that are lost when there
\* is no memory for their key (AddItemReferenceToObject).
TypeOK ==
  /\ \A n \in Allocated(heap) :
       /\ heap[n].kind \in Kinds /\ heap[n].key \in Keys \cup {NoKey}
       /\ {heap[n].of, heap[n].next, heap[n].prev, heap[n].child} \subseteq Pointers
  /\ \A r \in held : heap[r].next = NULL
  /\ \A p \in Live : Circular(heap, p)
  /\ Allocated(heap) = Live \cup lost /\ Live \cap lost = {}
  /\ \A n \in Live : heap[n].of # NULL => heap[n].of \in Live
  /\ \A n \in Live :
       Cardinality({pi \in Live \X (1..MaxItems) :
                      pi[2] \in DOMAIN Children(heap, pi[1]) /\ Children(heap, pi[1])[pi[2]] = n})
         = IF n \in held THEN 0 ELSE 1

\* Comparing finds equal exactly what is equal (cJSON.h:259), with and without case,
\* references to a value included, as long as no object has a key twice or none.
CompareMeansEqual ==
  \A a, b \in Live, cs \in BOOLEAN :
    ProperKeys(heap, a, cs) /\ ProperKeys(heap, b, cs) =>
      (cJSON_Compare(heap, a, b, cs) <=> Value(heap, a, cs) = Value(heap, b, cs))

\* The linked lists, whatever is done to them, are the ordered children of JsonTree.
Tree == INSTANCE JsonTree WITH
  tree <- [n \in Live |-> [kind |-> heap[n].kind, key |-> heap[n].key, of |-> heap[n].of,
                           kids |-> Children(heap, n), root |-> n \in held]]
ImplementsTree == Tree!Spec
=============================================================================
