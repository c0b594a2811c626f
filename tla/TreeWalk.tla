------------------------------ MODULE TreeWalk ------------------------------
(***************************************************************************)
(* remove_excludes: the excluded paths of a filtered copy are located,     *)
(* measured and removed, one directory entry after another.                *)
(*                                                                         *)
(* Nodes are numbered so that a directory comes before what it holds.  A   *)
(* node's number is also its name.  Root is the copy, Live a directory of  *)
(* the live system beside it; a symlink leads to a node, or nowhere.       *)
(***************************************************************************)
EXTENDS Naturals, Sequences, SequencesExt, FiniteSetsExt

CONSTANTS Trees,      \* the file systems to consider
          Lists,      \* the exclude lists: sets of paths
          Root, Live

Nowhere == 0

ASSUME TreeWalkAssumption ==
    \A t \in Trees :
        LET N == DOMAIN t.parent IN
        /\ IsFiniteSet(N) /\ N = 1 .. Cardinality(N) /\ {Root, Live} \subseteq N
        /\ t.kind \in [N -> {"dir", "file", "link"}]
        /\ t.leads \in [N -> N \union {Nowhere}]
        /\ \A n \in N : /\ t.parent[n] \in 0 .. n - 1
                        /\ t.parent[n] # 0 => t.kind[t.parent[n]] = "dir"
ASSUME ListsAssumption ==
    \A l \in Lists : IsFiniteSet(l) /\ \A e \in l : e \in Seq(Nat) /\ e # <<>>

VARIABLES
    tree,      \* parent, kind and leads (of a link) of each node
    locked,    \* the nodes with the immutable or append-only attribute
    locked0,   \* history: those that had it at first
    there,     \* the nodes not removed yet
    excludes,  \* the exclude list
    todo,      \* its entries not handled yet
    stack,     \* the directories on the way down, the entries left of each
    paths, bytes, \* what remove_excludes counts
    pc         \* "entries", "walk", "done", "failed"

vars == <<tree, locked, locked0, there, excludes, todo, stack, paths, bytes, pc>>

Nodes == DOMAIN tree.parent

Init ==
    /\ tree \in Trees
    /\ locked0 \in {S \in SUBSET Nodes : Cardinality(S) <= 2 /\ \A n \in S : tree.kind[n] # "link"}
    /\ locked = locked0
    /\ there = Nodes
    /\ excludes \in Lists /\ todo = excludes
    /\ stack = <<>> /\ paths = 0 /\ bytes = 0
    /\ pc = "entries"

-----------------------------------------------------------------------------
(* The file system. *)

IsDir(n) == tree.kind[n] = "dir"

(* The nodes at and under n. *)
Subtree(n) ==
    LET above[i \in Nodes] ==
            {i} \union IF tree.parent[i] = 0 THEN {} ELSE above[tree.parent[i]]
    IN {i \in Nodes : n \in above[i]}

Children(S, d) == {n \in S : d # Nowhere /\ tree.parent[n] = d}

(* Where n leads once symlinks are followed; a loop leads nowhere. *)
Real(S, n) ==
    LET hop[k \in 0 .. Cardinality(Nodes)] ==
            IF k = 0 THEN n
            ELSE LET m == hop[k - 1] IN
                 IF m \in S /\ tree.kind[m] = "link" THEN tree.leads[m] ELSE m
        last == hop[Cardinality(Nodes)]
    IN IF last \in S /\ tree.kind[last] # "link" THEN last ELSE Nowhere

(* The directory the path of an entry leads to, but for its last name. *)
Parent(S, entry) ==
    LET walk[k \in 0 .. Len(entry) - 1] ==
            IF k = 0 THEN Root
            ELSE IF entry[k] \in Children(S, walk[k - 1]) THEN Real(S, entry[k]) ELSE Nowhere
    IN walk[Len(entry) - 1]

(* lstat of the whole path: the last name is not followed. *)
Exists(S, entry) == Last(entry) \in Children(S, Parent(S, entry))

LocateAnywhere(S, entry) == \* a bug: the parent may be outside of the copy
    [found |-> Exists(S, entry), refused |-> FALSE, node |-> Last(entry)]

LocateInPlace(S, entry) == \* a bug: a path through a symlink is taken as missing
    [found |-> Exists(S, entry) /\ \A k \in 1 .. Len(entry) - 1 : tree.kind[entry[k]] # "link",
     refused |-> FALSE, node |-> Last(entry)]

(* locate_exclude. *)
Locate(S, entry) ==
    [found   |-> Exists(S, entry),
     refused |-> Parent(S, entry) \notin Subtree(Root),
     node    |-> Last(entry)]

SizeOfFilesOnly(S, n) == \* a bug: what a directory holds is not counted
    IF tree.kind[n] = "file" THEN n ELSE 0

(* tree_size: symlinks are not followed.  The size of file n is n. *)
TreeSize(S, n) == SumSet({f \in Subtree(n) \intersect S : tree.kind[f] = "file"})

(* measure_excludes, what --dry-run reports. *)
Measure == LET found == {e \in excludes : Locate(Nodes, e).found}
           IN MapThenSumSet(LAMBDA e : TreeSize(Nodes, Locate(Nodes, e).node), found)

-----------------------------------------------------------------------------
(* unlinkat refuses on an attribute of the entry or of its directory, and   *)
(* rmdir on a directory that is not empty.                                  *)
Refused(n, S) == {n, tree.parent[n]} \intersect S # {}

UnlinkEntryOnly(n) == \* a bug: the attribute of the directory is not cleared
    /\ locked' = locked \ {n}
    /\ there' = IF Refused(n, locked') THEN there ELSE there \ {n}

UnlinkFollowing(n) == \* a bug: what a symlink leads to is opened and cleared
    /\ locked' = IF Refused(n, locked) THEN locked \ {n, tree.parent[n], tree.leads[n]} ELSE locked
    /\ there' = IF Children(there, n) = {} THEN there \ {n} ELSE there

(* unlink_at: tried again with both attributes cleared. *)
Unlink(n) ==
    /\ locked' = IF Refused(n, locked) THEN locked \ {n, tree.parent[n]} ELSE locked
    /\ there' = IF Children(there, n) = {} THEN there \ {n} ELSE there

(* The next step after an attempt to remove n: an error ends it all. *)
After(n, step) == pc' = IF n \in there' THEN "failed" ELSE step

Open(n) == [dir |-> n, entries |-> Children(there, n)]

(* remove_excludes, one entry of the list.  The list is sorted: a path      *)
(* comes before those under it.                                             *)
NextEntry(e) ==
    LET at == Locate(there, e) IN
    /\ pc = "entries" /\ e \in todo
    /\ \A d \in todo \ {e} : ~ IsStrictPrefix(d, e)
    /\ todo' = todo \ {e}
    /\ \/ /\ ~ at.found
          /\ UNCHANGED <<pc, stack, paths, bytes, locked, there>>
       \/ /\ at.found /\ at.refused
          /\ pc' = "failed"
          /\ UNCHANGED <<stack, paths, bytes, locked, there>>
       \/ /\ at.found /\ ~ at.refused
          /\ paths' = paths + 1 /\ bytes' = bytes + TreeSize(there, at.node)
          /\ IF IsDir(at.node)
             THEN /\ stack' = <<Open(at.node)>> /\ pc' = "walk"
                  /\ UNCHANGED <<locked, there>>
             ELSE Unlink(at.node) /\ After(at.node, "entries") /\ UNCHANGED stack
    /\ UNCHANGED <<tree, locked0, excludes>>

Top == stack[Len(stack)]
Pop(n) == [stack EXCEPT ![Len(stack)].entries = @ \ {n}]

VisitFollowing(n) == \* a bug: a symlink to a directory is walked as one
    LET to == Real(there, n) IN
    /\ pc = "walk" /\ n \in Top.entries
    /\ IF to # Nowhere /\ IsDir(to)
       THEN /\ stack' = Append(Pop(n), Open(to))
            /\ UNCHANGED <<locked, there, pc>>
       ELSE stack' = Pop(n) /\ Unlink(n) /\ After(n, "walk")
    /\ UNCHANGED <<tree, locked0, excludes, todo, paths, bytes>>

(* remove_tree: an entry of the directory on top of the stack; readdir      *)
(* returns them in any order.                                               *)
Visit(n) ==
    /\ pc = "walk" /\ n \in Top.entries
    /\ IF IsDir(n)
       THEN stack' = Append(Pop(n), Open(n)) /\ UNCHANGED <<locked, there, pc>>
       ELSE stack' = Pop(n) /\ Unlink(n) /\ After(n, "walk")
    /\ UNCHANGED <<tree, locked0, excludes, todo, paths, bytes>>

(* An emptied directory goes from the one above. *)
Leave ==
    /\ pc = "walk" /\ Top.entries = {}
    /\ Unlink(Top.dir)
    /\ stack' = Front(stack)
    /\ After(Top.dir, IF Len(stack) = 1 THEN "entries" ELSE "walk")
    /\ UNCHANGED <<tree, locked0, excludes, todo, paths, bytes>>

Finish == /\ pc = "entries" /\ todo = {} /\ pc' = "done"
          /\ UNCHANGED <<tree, locked, locked0, there, excludes, todo, stack, paths, bytes>>

Next == (\E e \in todo : NextEntry(e)) \/ (\E n \in Nodes : Visit(n)) \/ Leave \/ Finish

Spec == Init /\ [][Next]_vars

-----------------------------------------------------------------------------
(* The type invariant; the stack is a path down the tree. *)
TypeOK ==
    /\ locked \subseteq locked0 /\ there \subseteq Nodes /\ todo \subseteq excludes
    /\ pc \in {"entries", "walk", "done", "failed"}
    /\ paths \in Nat /\ bytes \in Nat
    /\ pc = "walk" => stack # <<>>
    /\ \A k \in 1 .. Len(stack) :
        /\ IsDir(stack[k].dir) /\ stack[k].dir \in there
        /\ stack[k].entries \subseteq Children(there, stack[k].dir)
        /\ k > 1 => tree.parent[stack[k].dir] = stack[k - 1].dir

Gone == Nodes \ there

(* Nothing is removed that no entry names, and no symlink is followed: what *)
(* is gone was at or under an excluded path that stays inside the copy      *)
(* (replication.rs:1022-1026, 1285-1288).                                   *)
OnlyExcludedGo ==
    Gone \subseteq UNION {Subtree(Last(e)) : e \in {x \in excludes :
                              Exists(Nodes, x) /\ Parent(Nodes, x) \in Subtree(Root)}}

(* Attributes are cleared only on what is removed and on the directory it   *)
(* is removed from: never outside of the copy (replication.rs:1309-1312).   *)
ClearedAreNeeded ==
    \A n \in locked0 \ locked :
        /\ n \in Subtree(Root)
        /\ n \in Gone \/ \E m \in Gone : tree.parent[m] = n

(* When the copy is said to be filtered, no excluded path leads anywhere.   *)
NothingExcludedStays == pc = "done" => \A e \in excludes : ~ Exists(there, e)

(* It fails only for a path that leaves the copy: no attribute, and no      *)
(* order of the entries, keeps the others from being removed.               *)
FailsOnlyOutside ==
    pc = "failed" => \E e \in excludes :
        Exists(Nodes, e) /\ Parent(Nodes, e) \notin Subtree(Root)

(* What is reported as excluded is what was removed; a dry run never        *)
(* reports less, and the same for a list of one entry.  With several, one   *)
(* may lead through a link that another removes.                            *)
Accounting ==
    pc = "done" => /\ bytes = SumSet({f \in Gone : tree.kind[f] = "file"})
                   /\ bytes <= Measure
                   /\ Cardinality(excludes) = 1 => bytes = Measure
=============================================================================
