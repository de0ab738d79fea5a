------------------------------ MODULE MCDictFile ------------------------------
(* Instances of DictFile for TLC. *)
EXTENDS DictFile, TLC

\* "/", a directory of root's and one of another user's, a link, the
\* dictionary, an older one, another user's file and a fifo.
MCInodes == {"root", "dir", "theirs", "link", "dict", "old", "evil", "fifo"}
MCKind   == [i \in MCInodes |->
               CASE i \in {"root", "dir", "theirs"} -> "dir"
                 [] i = "link" -> "link"
                 [] i = "fifo" -> "fifo"
                 [] OTHER -> "file"]
MCOwner  == [i \in MCInodes |->
               CASE i \in {"theirs", "evil"} -> 7 [] i = "dict" -> 1
                 [] OTHER -> 0]
MCTarget == [i \in MCInodes |-> IF i = "link" THEN "dir" ELSE "none"]

MCNames == {"a"}

Unbound == [i \in MCInodes |-> [n \in MCNames |-> "none"]]

\* /a/a through a directory of root's, through another user's and through a
\* link; one of the inodes on the way may be writable by everyone.
Tree(d, leaf, w) ==
  [entries |-> [Unbound EXCEPT !["root"]["a"] = d, !["dir"]["a"] = leaf,
                               !["theirs"]["a"] = "dict"],
   writable |-> w]

MCTrees ==
  {Tree(d, leaf, {}) : d \in {"dir", "theirs", "link"},
                       leaf \in {"dict", "evil", "fifo"}}
  \cup {Tree("dir", "dict", {i}) : i \in {"root", "dir", "dict"}}

Path == [absolute |-> TRUE, comps |-> <<"a", "a">>, trailing |-> FALSE]

MCPaths ==
  {Path,
   [Path EXCEPT !.trailing = TRUE],
   [Path EXCEPT !.absolute = FALSE],
   [Path EXCEPT !.comps = <<"a", ".", "a">>],
   [Path EXCEPT !.comps = <<"long">>],
   [Path EXCEPT !.comps = <<>>]}
=============================================================================
