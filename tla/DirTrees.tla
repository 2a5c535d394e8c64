------------------------------ MODULE DirTrees ------------------------------
(***************************************************************************)
(* Directory trees under one root, shared by the models of the handlers    *)
(* that walk or change them.  A tree is a function from relative paths    *)
(* (non-empty sequences of Names, at most MaxDepth long) to the kind of    *)
(* entry at that path; "none" marks an absent entry.                       *)
(***************************************************************************)
EXTENDS Naturals, Sequences

CONSTANTS
    Names,      \* entry names
    MaxDepth    \* longest relative path

ASSUME MaxDepth \in Nat \ {0}

RECURSIVE SeqsUpTo(_)
\* The non-empty sequences of Names of length at most n.
SeqsUpTo(n) ==
    IF n = 0 THEN {}
    ELSE [1..1 -> Names] \cup {s \o <<x>> : s \in SeqsUpTo(n - 1), x \in Names}

Rel == SeqsUpTo(MaxDepth)
Parent(p) == SubSeq(p, 1, Len(p) - 1)
Kind(tree, q) == IF q \in DOMAIN tree THEN tree[q] ELSE "none"
Empty == [p \in Rel |-> "none"]

\* A tree is prefix closed: every entry below the top lies in a directory.
IsTree(t) == \A p \in Rel : t[p] # "none" /\ Len(p) > 1 => t[Parent(p)] = "dir"

\* The entries directly inside the directory at p (<<>> for the top).
Children(t, p) == {q \in Rel : Len(q) = Len(p) + 1 /\ Parent(q) = p /\ t[q] # "none"}

\* The directory that would hold p exists in t (the root always does).
InDir(t, p) == IF Len(p) = 1 THEN TRUE ELSE t[Parent(p)] = "dir"
=============================================================================
