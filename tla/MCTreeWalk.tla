---------------------------- MODULE MCTreeWalk ----------------------------
(* Instances of TreeWalk for TLC: every tree of three nodes in the copy. *)
EXTENDS TreeWalk

(* 1 is the copy, 2 to 4 are in it; 5 is a live directory, 6 a file in it. *)
Inner == 2 .. 4
ShapeOf(f) == <<0, f[2], f[3], f[4], 0, 5>>
KindOf(k)  == <<"dir", k[2], k[3], k[4], "dir", "file">>
LeadsOf(l) == <<0, l[2], l[3], l[4], 0, 0>>

SmallTrees ==
    {t \in [parent : {ShapeOf(f) : f \in {g \in [Inner -> 1 .. 3] : \A n \in Inner : g[n] < n}},
            kind   : {KindOf(k) : k \in [Inner -> {"dir", "file", "link"}]},
            leads  : {LeadsOf(l) : l \in [Inner -> {0} \union 1 .. 5]}] :
        /\ \A n \in Inner : t.kind[t.parent[n]] = "dir"
        /\ \A n \in Inner : t.kind[n] # "link" => t.leads[n] = 0}

Names == 2 .. 4
Single == {<<n>> : n \in Names}
Double == {<<n, m>> : n \in Names, m \in Names \union {6}}
SmallLists == {{x} : x \in Single \union Double}
              \union {{x, y} : x \in Single, y \in Single \union Double}
=============================================================================
