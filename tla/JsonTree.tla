------------------------------ MODULE JsonTree ------------------------------
(***************************************************************************)
(* What cJSON promises its caller (cJSON.h): a forest of items with        *)
(* ordered children.  An item is in one place, a tree without a parent is  *)
(* the caller's, and what is not in a tree of the caller's does not exist. *)
(***************************************************************************)
EXTENDS Integers, Sequences, SequencesExt, FiniteSets, TLC

CONSTANTS NULL, NoKey

VARIABLE tree   \* of every item: its kind and key, the item it refers to or NULL,
                \* its children in order, and whether it is the caller's

RECURSIVE Below(_, _)
Below(t, S) ==
  LET more == S \cup UNION {ToSet(t[n].kids) : n \in S}
  IN IF more = S THEN S ELSE Below(t, more)
Without(t, x) == LET gone == Below(t, {x}) IN [n \in DOMAIN t \ gone |-> t[n]]
Roots(t) == {x \in DOMAIN t : t[x].root}
Fits(t, p, x) == x \in Roots(t) /\ p \notin Below(t, {x})

-----------------------------------------------------------------------------
(* The tree t after a call                                                 *)

\* A tree becomes the i-th child of p and shifts the ones behind it, or is swapped
\* with the i-th, which is gone with all below it; its key may change on the way.
Given(t, x, key) == [t EXCEPT ![x].root = FALSE, ![x].key = key]
Put(t, p, i, x, key) == [Given(t, x, key) EXCEPT ![p].kids = InsertAt(@, i, x)]
Swap(t, p, i, x, key) == Without([Given(t, x, key) EXCEPT ![p].kids = ReplaceAt(@, i, x)], t[p].kids[i])

\* An item without children, made for it, becomes the last child.
PutNew(t, p, x, item) == [t EXCEPT ![p].kids = Append(@, x)] @@ (x :> item)

\* The i-th child is taken out, to keep or to delete.
Take(t, p, i) == [t EXCEPT ![p].kids = RemoveAt(@, i), ![t[p].kids[i]].root = TRUE]
Erase(t, p, i) == Without([t EXCEPT ![p].kids = RemoveAt(@, i)], t[p].kids[i])

Rename(t, x, key) == [t EXCEPT ![x].key = key]

-----------------------------------------------------------------------------
(* New trees, between the trees t and u before and after the call          *)

Grown(t, u, c) ==
  /\ c \in Roots(u) \ DOMAIN t
  /\ DOMAIN u = DOMAIN t \cup Below(u, {c})
  /\ \A n \in DOMAIN t : u[n] = t[n] /\ n \notin Below(u, {c})
  /\ \A n \in Below(u, {c}) : u[n].of = NULL

\* An item is worth its own children, or those of the item it refers to.
Content(t, n) == t[IF t[n].of = NULL THEN n ELSE t[n].of].kids
RECURSIVE Alike(_, _, _)
Alike(t, x, y) ==
  LET xs == Content(t, x)
      ys == Content(t, y)
  IN /\ t[x].kind = t[y].kind /\ t[x].key = t[y].key
     /\ Len(xs) = Len(ys) /\ \A i \in DOMAIN xs : Alike(t, xs[i], ys[i])

\* An item without a key, or an array of such leaves; a copy, alike in all or without children.
Create(t, u, c) ==
  /\ Grown(t, u, c)
  /\ \A n \in Below(u, {c}) : u[n].key = NoKey /\ (n = c \/ u[n].kids = <<>>)
Copy(t, u, x, c) ==
  /\ Grown(t, u, c)
  /\ \/ Alike(u, x, c)
     \/ u[c] = [t[x] EXCEPT !.kids = <<>>, !.of = NULL, !.root = TRUE]

-----------------------------------------------------------------------------

Init == tree = <<>>

\* t and u stand for tree and tree', evaluated once.
Next ==
  \E t \in {tree}, u \in {tree'} :
    LET new == DOMAIN u \ DOMAIN t
        given == Roots(t) \ Roots(u)
    IN \/ u = t                                  \* a call that fails
       \/ \E c \in new : Create(t, u, c) \/ \E x \in DOMAIN t : Copy(t, u, x, c)
       \/ \E p \in DOMAIN t, x \in new :
            /\ u[x].kids = <<>> /\ ~u[x].root
            /\ u[x].of = NULL \/ u[x].kind = t[u[x].of].kind
            /\ u = PutNew(t, p, x, u[x])
       \/ \E p \in DOMAIN t, x \in given \cap DOMAIN u :
            /\ Fits(t, p, x)
            /\ \/ \E i \in 1..(Len(t[p].kids) + 1) : u = Put(t, p, i, x, u[x].key)
               \/ \E i \in DOMAIN t[p].kids : u = Swap(t, p, i, x, u[x].key)
       \/ \E p \in DOMAIN t \cap DOMAIN u : \E i \in DOMAIN t[p].kids :
            t[p].kids # u[p].kids /\ (u = Take(t, p, i) \/ u = Erase(t, p, i))
       \/ \E x \in given \ DOMAIN u : u = Without(t, x)
       \/ \E x \in Roots(t) \cap DOMAIN u : t[x].key # u[x].key /\ u = Rename(t, x, u[x].key)

Spec == Init /\ [][Next]_tree
=============================================================================
