---------------------------- MODULE RedBlackTree ----------------------------
(***************************************************************************)
(* The red-black tree behind the memtable and behind the sparse index of a *)
(* segment (Part-A/src/red_black_tree).                                    *)
(*                                                                         *)
(* Nodes are named by the keys they hold.  The code rotates by moving the  *)
(* pairs between node objects, so an object may come to hold another key:  *)
(* a pointer into the tree follows its object, not its key.  Where the     *)
(* code goes on with an object that has been freed, or follows a null      *)
(* pointer, the model stops in pc = "undefined".                           *)
(*                                                                         *)
(* Each turn of the two repair loops is a step of its own.                 *)
(***************************************************************************)
EXTENDS Integers, Sequences

CONSTANTS MaxKey,    \* the keys are 1..MaxKey, in their order
          Removable, \* bound: the keys of them that are removed or written over
          Sizes,     \* rb_entry::size() of the entries that are inserted
          Wrap       \* 2^64: byte_size is a uint64_t

ASSUME TreeAssumption ==
    /\ MaxKey \in Nat
    /\ Removable \subseteq 1..MaxKey
    /\ Sizes \subseteq Nat
    /\ Wrap \in Nat \ {0}

Keys == 1..MaxKey
Nil  == 0

VARIABLES
    root,        \* the node without a parent, or Nil
    heap,        \* the nodes: key -> [left, right, parent, color, size]
    byte_size,
    pc,          \* "idle", or the loop that is running
    curr,        \* the node at which the loop is
    victim,      \* the node that is being removed
    target,      \* the node in the object whose pair remove() takes for the
                 \* removed one; Nil if the object is freed by then
    present,     \* auxiliary: the keys that were inserted and not removed
    risky,       \* auxiliary: a key was removed when the tree was not balanced
    fresh        \* auxiliary: the last operation put a new key into a tree that
                 \* was balanced

auxVars == <<present, risky, fresh>>
vars    == <<root, heap, byte_size, pc, curr, victim, target, auxVars>>

Sides == {"left", "right"}
Other(s) == IF s = "left" THEN "right" ELSE "left"

Color(h, n) == IF n = Nil THEN "black" ELSE h[n].color
SideOf(h, n) == IF h[h[n].parent].left = n THEN "left" ELSE "right"

\* n gets the color c; there need not be an n.
Painted(h, n, c) == IF n = Nil THEN h ELSE [h EXCEPT ![n].color = c]

NewNode(p, c, w) ==
    [left |-> Nil, right |-> Nil, parent |-> p, color |-> c, size |-> w]

Init ==
    /\ root = Nil
    /\ heap = << >>
    /\ byte_size = 0
    /\ pc = "idle"
    /\ curr = Nil
    /\ victim = Nil
    /\ target = Nil
    /\ present = {}
    /\ risky = FALSE
    /\ fresh = TRUE

----------------------------------------------------------------------------
(* Walking down *)

Below(n, k) == IF k < n THEN heap[n].left ELSE heap[n].right

\* The node at which a search for k ends: k, or the node it would be put under.
SearchEnd(k) ==
    LET end[n \in DOMAIN heap] ==
            IF n = k \/ Below(n, k) = Nil THEN n ELSE end[Below(n, k)]
    IN  end[root]

\* find_node() finds the key.
Finds(k) == root # Nil /\ SearchEnd(k) = k

FindMin(m) ==
    LET min[n \in DOMAIN heap] == IF heap[n].left = Nil THEN n ELSE min[heap[n].left]
    IN  min[m]

\* (Mutant.)  What the right subtree says is final.
Floor_NoWayBack(k) ==
    LET floor[n \in DOMAIN heap] ==
            CASE n = k                        -> n
              [] n > k /\ heap[n].left # Nil  -> floor[heap[n].left]
              [] n < k /\ heap[n].right # Nil -> floor[heap[n].right]
              [] OTHER                        -> IF n <= k THEN n ELSE Nil
    IN  IF root = Nil THEN Nil ELSE floor[root]

\* floor(): also looks to the right of a node that is too large and has
\* nothing to its left.
Floor(k) ==
    LET floor[n \in DOMAIN heap] ==
            LET x == IF heap[n].right = Nil THEN Nil ELSE floor[heap[n].right]
            IN  CASE n = k                        -> n
                  [] n > k /\ heap[n].left # Nil  -> floor[heap[n].left]
                  [] OTHER -> IF x # Nil /\ x <= k THEN x
                              ELSE IF n <= k THEN n ELSE Nil
    IN  IF root = Nil THEN Nil ELSE floor[root]

\* in_order(): the keys under the root as the traversal lists them.
InOrder ==
    LET walk[n \in DOMAIN heap \cup {Nil}] ==
            IF n = Nil THEN << >>
            ELSE walk[heap[n].left] \o <<n>> \o walk[heap[n].right]
    IN  walk[root]

\* What hangs below n and n itself.
Subtree(h, m) ==
    LET sub[n \in DOMAIN h \cup {Nil}] ==
            IF n = Nil THEN {} ELSE {n} \cup sub[h[n].left] \cup sub[h[n].right]
    IN  sub[m]

\* The blacks on every path from a node down; -1 if paths differ.
BlackHeight ==
    LET blacks[n \in DOMAIN heap \cup {Nil}] ==
            IF n = Nil THEN 0
            ELSE LET l == blacks[heap[n].left]
                     r == blacks[heap[n].right]
                 IN  IF l # r \/ l = -1 THEN -1
                     ELSE IF heap[n].color = "black" THEN l + 1 ELSE l
    IN  blacks[root]

\* What a red-black tree is: nodes are red or black, no red one is below
\* another, and there are as many blacks on one way down as on another.
Balanced ==
    /\ BlackHeight # -1
    /\ \A n \in DOMAIN heap :
          /\ heap[n].color \in {"red", "black"}
          /\ heap[n].color = "red" => Color(heap, heap[n].parent) = "black"

----------------------------------------------------------------------------
(* Rotating *)

\* rotate_left() and rotate_right(): x sinks to the side s, its child on the
\* other side takes its place.  Colors go with the keys.
Rotate(h, x, s) ==
    LET y == h[x][Other(s)]
        b == h[y][s]
        Replaced(n) == IF n = x THEN y ELSE n
    IN  [n \in DOMAIN h |->
            CASE n = x           -> [h[x] EXCEPT ![Other(s)] = b, !.parent = y]
              [] n = y           -> [h[y] EXCEPT ![s] = x, !.parent = h[x].parent]
              [] n = b           -> [h[b] EXCEPT !.parent = x]
              [] n = h[x].parent -> [h[n] EXCEPT !.left = Replaced(@), !.right = Replaced(@)]
              [] OTHER           -> h[n]]

\* The node that the object of n holds after a rotation at r (or none).
Holds(h, n, r) == IF n = r THEN h[n].parent ELSE n

Undefined ==
    /\ pc' = "undefined"
    /\ UNCHANGED <<root, heap, byte_size, curr, victim, target, auxVars>>

----------------------------------------------------------------------------
(* Inserting *)

InsertFirst(k, w) ==
    /\ pc = "idle"
    /\ root = Nil
    /\ root' = k
    /\ heap' = [n \in {k} |-> NewNode(Nil, "black", w)]
    /\ byte_size' = w % Wrap
    /\ present' = present \cup {k}
    /\ fresh' = TRUE
    /\ UNCHANGED <<pc, curr, victim, target, risky>>

\* insert_node() puts a red leaf where the search ends ...
InsertLeaf(k, w) ==
    /\ pc = "idle"
    /\ root # Nil
    /\ ~Finds(k)
    /\ LET p == SearchEnd(k)
           s == IF k < p THEN "left" ELSE "right"
           h == [heap EXCEPT ![p][s] = k]
       IN  heap' = [n \in DOMAIN heap \cup {k} |->
                        IF n = k THEN NewNode(p, "red", w) ELSE h[n]]
    /\ byte_size' = (byte_size + w) % Wrap
    /\ pc' = "fix_insert"
    /\ curr' = k
    /\ present' = present \cup {k}
    /\ fresh' = Balanced
    /\ UNCHANGED <<root, victim, target, risky>>

\* ... or replaces the pair that is there, and the byte count changes by the
\* old size minus the new one.  The repair runs in both cases.
InsertOver(k, w) ==
    /\ pc = "idle"
    /\ Finds(k)
    /\ heap' = [heap EXCEPT ![k].size = w]
    /\ byte_size' = (byte_size + heap[k].size - w) % Wrap
    /\ pc' = "fix_insert"
    /\ curr' = k
    /\ present' = present \cup {k}
    /\ fresh' = FALSE
    /\ UNCHANGED <<root, victim, target, risky>>

Fixing == pc = "fix_insert" /\ Color(heap, heap[curr].parent) = "red"

\* (Mutants.)  The parent and the uncle stay red, and the loop where it is; the
\* grandparent stays black when it sinks.
FixInsertRecolor_Stays ==
    /\ Fixing
    /\ LET p == heap[curr].parent
           g == heap[p].parent
           u == heap[g][Other(SideOf(heap, p))]
       IN  /\ Color(heap, u) = "red"
           /\ heap' = [heap EXCEPT ![g].color = "red"]
    /\ UNCHANGED <<root, byte_size, pc, curr, victim, target, auxVars>>
FixInsertRotate_StaysBlack ==
    /\ Fixing
    /\ LET p == heap[curr].parent
           g == heap[p].parent
           s == SideOf(heap, p)
           inner == curr = heap[p][Other(s)]
           h == IF inner THEN Rotate(heap, p, s) ELSE heap
           c == IF inner THEN p ELSE curr
       IN  /\ Color(heap, heap[g][Other(s)]) # "red"
           /\ heap' = Rotate([h EXCEPT ![h[c].parent].color = "black"], g, Other(s))
           /\ curr' = c
           /\ root' = Holds(heap', root, g)
    /\ UNCHANGED <<byte_size, pc, victim, target, auxVars>>

\* fix_insert(): with a red uncle, the red goes up to the grandparent ...
FixInsertRecolor ==
    /\ Fixing
    /\ LET p == heap[curr].parent
           g == heap[p].parent
           u == heap[g][Other(SideOf(heap, p))]
       IN  /\ Color(heap, u) = "red"
           /\ heap' = [heap EXCEPT ![p].color = "black", ![u].color = "black", ![g].color = "red"]
           /\ curr' = g
    /\ UNCHANGED <<root, byte_size, pc, victim, target, auxVars>>

\* ... with a black one, the parent takes the place of the grandparent, after
\* the node itself has taken the place of the parent if it was an inner child.
FixInsertRotate ==
    /\ Fixing
    /\ LET p == heap[curr].parent
           g == heap[p].parent
           s == SideOf(heap, p)
           inner == curr = heap[p][Other(s)]
           c == IF inner THEN p ELSE curr
       IN  /\ Color(heap, heap[g][Other(s)]) # "red"
           /\ \E h \in {IF inner THEN Rotate(heap, p, s) ELSE heap} :
              \E painted \in {[h EXCEPT ![h[c].parent].color = "black", ![g].color = "red"]} :
                 heap' = Rotate(painted, g, Other(s))
           /\ curr' = c
           /\ root' = Holds(heap', root, g)
    /\ UNCHANGED <<byte_size, pc, victim, target, auxVars>>

FixInsertEnds ==
    /\ pc = "fix_insert"
    /\ ~Fixing
    /\ heap' = [heap EXCEPT ![root].color = "black"]
    /\ pc' = "idle"
    /\ curr' = Nil
    /\ UNCHANGED <<root, byte_size, victim, target, auxVars>>

----------------------------------------------------------------------------
(* Removing *)

\* A node with two children takes over the pair of the next greater one, which
\* is removed in its place: the two names change places.
Exchange(h, m, k) ==
    LET Renamed(n) == CASE n = m -> k [] n = k -> m [] OTHER -> n
    IN  [n \in DOMAIN h |->
            [left   |-> Renamed(h[Renamed(n)].left),
             right  |-> Renamed(h[Renamed(n)].right),
             parent |-> Renamed(h[Renamed(n)].parent),
             color  |-> h[Renamed(n)].color,
             size   |-> h[n].size]]

HasTwo(n) == heap[n].left # Nil /\ heap[n].right # Nil
Only(h, n) == IF h[n].left # Nil THEN h[n].left ELSE h[n].right
RedAbout(h, n) == \E m \in {n, h[n].left, h[n].right} : Color(h, m) = "red"

\* node::remove(): the heap, the root and the object of the node to be removed
\* when remove_node() is called for it.
Before(k) ==
    IF ~HasTwo(k) THEN [heap |-> heap, root |-> root, target |-> Nil]
    ELSE LET m == FindMin(heap[k].right)
         IN  [heap   |-> Exchange(heap, m, k),
              root   |-> IF root = k THEN m ELSE root,
              target |-> m]

\* What red_black_tree::remove() takes off the count: the size of the pair that
\* the object of the removed node holds by then, or whatever is found where a
\* freed one was.
CountOff(h, n) ==
    IF n = Nil THEN \E c \in 0..Wrap - 1 : byte_size' = c
    ELSE byte_size' = (byte_size - h[n].size) % Wrap

Blackened(h, r) == [h EXCEPT ![r].color = "black"]

RemovedFrom(k) ==
    /\ present' = present \ {k}
    /\ risky' = (risky \/ ~Balanced)
    /\ fresh' = FALSE

\* The only node of a tree.
RemoveLast(k) ==
    /\ pc = "idle"
    /\ Finds(k)
    /\ k = root /\ heap[k].left = Nil /\ heap[k].right = Nil
    /\ root' = Nil
    /\ heap' = << >>
    /\ byte_size' = 0
    /\ RemovedFrom(k)
    /\ UNCHANGED <<pc, curr, victim, target>>

\* remove_node() of the root, when something about it is red: the child's pair
\* and links move into the object of the root.
RemoveRoot(k) ==
    /\ pc = "idle"
    /\ Finds(k)
    /\ k = root /\ ~HasTwo(k) /\ Only(heap, k) # Nil
    /\ RedAbout(heap, k)
    /\ LET c == Only(heap, k)
           h == [n \in DOMAIN heap \ {k} |-> heap[n]]
       IN  /\ heap' = [h EXCEPT ![c].parent = Nil, ![c].color = "black"]
           /\ root' = c
           /\ CountOff(heap, c)
    /\ RemovedFrom(k)
    /\ UNCHANGED <<pc, curr, victim, target>>

\* (Mutant.)  The child goes with the removed node.
RemoveRed_DropsChild(k) ==
    /\ pc = "idle"
    /\ Finds(k)
    /\ LET b == Before(k)
           p == b.heap[k].parent
           h == [n \in DOMAIN b.heap \ Subtree(b.heap, k) |->
                    IF n = p THEN [b.heap[p] EXCEPT ![SideOf(b.heap, k)] = Nil] ELSE b.heap[n]]
       IN  /\ p # Nil
           /\ RedAbout(b.heap, k)
           /\ heap' = Blackened(h, b.root)
           /\ root' = b.root
           /\ CountOff(h, b.target)
    /\ RemovedFrom(k)
    /\ UNCHANGED <<pc, curr, victim, target>>

\* remove_node() of another node, when it or its child is red: the child takes
\* its place and is black.
RemoveRed(k) ==
    /\ pc = "idle"
    /\ Finds(k)
    /\ LET b == Before(k)
           c == Only(b.heap, k)
           p == b.heap[k].parent
           h == [n \in DOMAIN b.heap \ {k} |->
                    CASE n = p -> [b.heap[p] EXCEPT ![SideOf(b.heap, k)] = c]
                      [] n = c -> [b.heap[c] EXCEPT !.parent = p, !.color = "black"]
                      [] OTHER -> b.heap[n]]
       IN  /\ p # Nil
           /\ RedAbout(b.heap, k)
           /\ heap' = Blackened(h, b.root)
           /\ root' = b.root
           /\ CountOff(h, b.target)
    /\ RemovedFrom(k)
    /\ UNCHANGED <<pc, curr, victim, target>>

\* remove_node() of a black node: the repair comes first.
RemoveBlack(k) ==
    /\ pc = "idle"
    /\ Finds(k)
    /\ LET b == Before(k)
       IN  /\ ~RedAbout(b.heap, k)
           /\ b.heap[k].parent # Nil \/ Only(b.heap, k) # Nil
           /\ heap' = [b.heap EXCEPT ![k].color = "double"]
           /\ root' = b.root
           /\ target' = b.target
    /\ pc' = "remove_node"
    /\ curr' = k
    /\ victim' = k
    /\ RemovedFrom(k)
    /\ UNCHANGED <<byte_size>>

Lacking ==
    /\ pc = "remove_node"
    /\ heap[curr].parent # Nil
    /\ heap[curr].color = "double"

\* The repair of a node that lacks a black, on the side s of its parent: a red
\* sibling takes the place of the parent.  The mirrored case rotates the same
\* way, and so frees the node that it is about.
RemoveFixRed ==
    /\ Lacking
    /\ LET p == heap[curr].parent
           b == heap[p][Other(SideOf(heap, curr))]
       IN  /\ Color(heap, b) = "red"
           /\ IF SideOf(heap, curr) = "right" THEN Undefined
              ELSE /\ heap' = Rotate([heap EXCEPT ![b].color = "black", ![p].color = "red"],
                                     p, "left")
                   /\ root' = Holds(heap', root, p)
                   /\ target' = Holds(heap', target, p)
                   /\ UNCHANGED <<byte_size, pc, curr, victim, auxVars>>

\* A black sibling with black children becomes red, and the parent lacks the
\* black unless it was red.
RemoveFixRecolor ==
    /\ Lacking
    /\ LET p == heap[curr].parent
           b == heap[p][Other(SideOf(heap, curr))]
       IN  /\ b # Nil /\ Color(heap, b) # "red"
           /\ Color(heap, heap[b].left) = "black" /\ Color(heap, heap[b].right) = "black"
           /\ heap' = [heap EXCEPT ![b].color = "red",
                                   ![p].color = IF @ = "red" THEN "black" ELSE "double"]
           /\ curr' = p
    /\ UNCHANGED <<root, byte_size, pc, victim, target, auxVars>>

\* A black sibling with a child that is not takes the place of the parent, after
\* its inner child has taken its own place if the outer one is black.
RemoveFixRotate ==
    /\ Lacking
    /\ LET p == heap[curr].parent
           s == SideOf(heap, curr)
           o == Other(s)
           b == heap[p][o]
       IN  /\ b # Nil /\ Color(heap, b) # "red"
           /\ \E n \in {heap[b].left, heap[b].right} : Color(heap, n) # "black"
           /\ \E h \in {IF Color(heap, heap[b][o]) = "black"
                        THEN Rotate(Painted(Painted(heap, heap[b][s], "black"), b, "red"), b, o)
                        ELSE heap} :
              \E t \in {h[p][o]} :
              \E painted \in {[h EXCEPT ![t].color = h[p].color, ![p].color = "black"]} :
                 /\ heap' = Rotate(Painted(painted, h[t][o], "black"), p, s)
                 /\ root' = Holds(heap', root, p)
                 /\ target' = Holds(heap', target, p)
    /\ pc' = "detach"
    /\ UNCHANGED <<byte_size, curr, victim, auxVars>>

\* There is no sibling.
RemoveFixNull ==
    /\ Lacking
    /\ heap[heap[curr].parent][Other(SideOf(heap, curr))] = Nil
    /\ Undefined

\* The end of remove_node(): the node goes, and what hangs below it is lost.
Detach ==
    /\ pc = "detach" \/ (pc = "remove_node" /\ ~Lacking)
    /\ heap[victim].parent # Nil
    /\ LET p == heap[victim].parent
           h == [n \in DOMAIN heap \ Subtree(heap, victim) |->
                    IF n = p THEN [heap[p] EXCEPT ![SideOf(heap, victim)] = Nil] ELSE heap[n]]
       IN  /\ heap' = Blackened(h, root)
           /\ CountOff(h, target)
    /\ pc' = "idle"
    /\ curr' = Nil
    /\ victim' = Nil
    /\ target' = Nil
    /\ UNCHANGED <<root, auxVars>>

\* A root that is removed here is freed and still the root.
DetachRoot ==
    /\ pc = "remove_node"
    /\ heap[victim].parent = Nil
    /\ Undefined

\* (Mutant.)  The root pointer is not reset.
DeleteAll_KeepsRoot ==
    /\ pc = "idle"
    /\ root # Nil
    /\ heap' = << >>
    /\ byte_size' = 0
    /\ present' = {}
    /\ risky' = FALSE
    /\ fresh' = TRUE
    /\ UNCHANGED <<root, pc, curr, victim, target>>

\* delete_tree() and get_and_delete_all_nodes().
DeleteAll ==
    /\ pc = "idle"
    /\ root # Nil
    /\ root' = Nil
    /\ heap' = << >>
    /\ byte_size' = 0
    /\ present' = {}
    /\ risky' = FALSE
    /\ fresh' = TRUE
    /\ UNCHANGED <<pc, curr, victim, target>>

----------------------------------------------------------------------------
InsertStep == FixInsertRecolor \/ FixInsertRotate \/ FixInsertEnds

RemoveStep ==
    \/ RemoveFixRed \/ RemoveFixRecolor \/ RemoveFixRotate \/ RemoveFixNull
    \/ Detach \/ DetachRoot

Remove(k) == RemoveLast(k) \/ RemoveRoot(k) \/ RemoveRed(k) \/ RemoveBlack(k)

Next ==
    \/ \E k \in Keys, w \in Sizes : InsertFirst(k, w) \/ InsertLeaf(k, w)
    \/ \E k \in Removable : Remove(k) \/ \E w \in Sizes : InsertOver(k, w)
    \/ InsertStep \/ RemoveStep \/ DeleteAll

\* The repair goes on until it is done.
Spec == Init /\ [][Next]_vars /\ WF_vars(InsertStep \/ RemoveStep)

----------------------------------------------------------------------------
(* Properties *)

TreeTypeOK ==
    /\ DOMAIN heap \subseteq Keys
    /\ heap \in [DOMAIN heap ->
                    [left : Keys \cup {Nil}, right : Keys \cup {Nil}, parent : Keys \cup {Nil},
                     color : {"red", "black", "double"}, size : Sizes]]
    /\ root \in DOMAIN heap \cup {Nil}
    /\ byte_size \in 0..Wrap - 1
    /\ pc \in {"idle", "fix_insert", "remove_node", "detach", "undefined"}
    /\ curr \in DOMAIN heap \cup {Nil}
    /\ victim \in DOMAIN heap \cup {Nil}
    /\ present \subseteq Keys

\* Links to children and to the parent agree.
Linked ==
    \A n \in DOMAIN heap :
        /\ \A s \in Sides : heap[n][s] # Nil => heap[heap[n][s]].parent = n
        /\ heap[n].parent # Nil => \E s \in Sides : heap[heap[n].parent][s] = n
        /\ heap[n].parent = Nil <=> n = root

\* A search tree that holds just the keys that were inserted and not removed:
\* the traversal lists them in order, and the links up agree with those down.
IsSearchTree ==
    /\ Linked
    /\ LET listed == InOrder
       IN  /\ {listed[i] : i \in DOMAIN listed} = present
           /\ \A i \in 1..Len(listed) - 1 : listed[i] < listed[i + 1]

\* No insertion, of a new key or over an old one, into a tree of whatever
\* colors, loses or misplaces a key, and no removal from a balanced tree does that
\* comes to its end; RemovesAreDefined is about those that do not.
\* (insert, fix_insert, remove, rotate_left, rotate_right)
KeysKept == pc = "idle" /\ ~risky => IsSearchTree

\* A new key leaves a balanced tree balanced.  (fix_insert)
NewKeysBalanced == pc = "idle" /\ fresh => Balanced

\* floor() finds the largest key that is not larger than the one asked for, or
\* nothing if there is none.  (node::floor; level::search rests on it)
FloorFound ==
    pc = "idle" /\ ~risky =>
        \A k \in Keys :
            LET below == {n \in present : n <= k}
            IN  IF below = {} THEN Floor(k) = Nil
                ELSE Floor(k) \in below /\ \A n \in below : n <= Floor(k)

\* The loops of fix_insert() and remove_node() come to an end.
FixEnding == pc \in {"fix_insert", "remove_node"} ~> pc \in {"idle", "undefined"}

----------------------------------------------------------------------------
(* What a comment of the code promises, and the code does not keep *)

\* remove() "removes a specified node, then checks and fixes the tree properties"
\* (node.cpp:295-296): from a balanced tree it takes every key without going on
\* with a node that has been freed, or following a null pointer.
RemovesAreDefined == ~risky => pc # "undefined"
=============================================================================
