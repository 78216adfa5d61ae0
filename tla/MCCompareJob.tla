---------------------------- MODULE MCCompareJob ----------------------------
(***************************************************************************)
(* A tree with a directory below a directory, a sibling directory after    *)
(* it, files at two depths and links: a batch of one ends inside and       *)
(* between directories.  Of a file, a directory and a link readdir does    *)
(* not tell the type.  Another tree, with a special file, lies where the   *)
(* path leads when chdir fails.                                            *)
(***************************************************************************)
EXTENDS CompareJob

TreeNodes == {"root", "d1", "d2", "d3", "f1", "f2", "l1", "u1", "else", "l2", "s1"}
TreeChildren == [d \in {"root", "d1", "d2", "d3", "u1", "else"} |->
    CASE d = "root"         -> {"d1", "d3", "f1"}
      [] d = "d1"           -> {"d2", "f2", "l1"}
      [] d = "d3"           -> {"u1"}
      [] d = "else"         -> {"l2", "s1"}
      [] d \in {"d2", "u1"} -> {}]
TreeKind == [n \in TreeNodes |->
    CASE n \in {"root", "d1", "d2", "d3", "u1", "else"} -> "dir"
      [] n \in {"f1", "f2"}                             -> "file"
      [] n \in {"l1", "l2"}                             -> "link"
      [] n = "s1"                                       -> "special"]
=============================================================================
