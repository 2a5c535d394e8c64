------------------------------ MODULE DirRename ------------------------------
(***************************************************************************)
(* The directory branch of BurstBuffer::Rename (cbb/burst_buffer.cc) on    *)
(* one node: every local file under the old directory is copied to        *)
(* secondary, the local directory is removed, the secondary directory is   *)
(* renamed (or merged into an existing one), and the directory hierarchy   *)
(* is copied back to local under the new name.                             *)
(*                                                                         *)
(* Both loops walk a boost recursive_directory_iterator and build the path *)
(* of the current entry by appending each directory name visited to one   *)
(* string (`local`, `second`), which is never shortened when the iterator  *)
(* climbs back out of a directory.  The iterator's order among siblings is *)
(* readdir order, which the code cannot choose: it is nondeterministic.    *)
(*                                                                         *)
(* Trees are functions from relative paths (sequences of Names, at most    *)
(* MaxDepth long) to "none", "dir" or a file's content: "new" for the      *)
(* local version, "old" for an older version on secondary.                 *)
(***************************************************************************)
EXTENDS DirTrees, FiniteSets

CONSTANT NewExists   \* whether secondary already has a directory at new_path

ASSUME NewExists \in BOOLEAN

(***************************************************************************)
(* Node states the rename can start from: local holds the old directory    *)
(* with newest contents; secondary mirrors its directories (MkDir creates  *)
(* both, DuplicateDirSecondaryToLocal copies secondary's at startup) and   *)
(* holds an older copy of some of its files (those exported).              *)
(***************************************************************************)
LocalTrees == {t \in [Rel -> {"none", "dir", "new"}] : IsTree(t)}
SecondaryOf(l) ==
    {s \in [Rel -> {"none", "dir", "old"}] :
        \A p \in Rel : (s[p] = "dir" <=> l[p] = "dir") /\ (s[p] = "old" => l[p] = "new")}

VARIABLES
    pc,        \* where the handler is
    orig,      \* the local tree under old_path when the request came in
    ltree,     \* local: the tree under old_path
    lnew,      \* local: the tree under new_path
    sold,      \* secondary: the tree under old_path
    snew,      \* secondary: the tree under new_path (empty when there is none)
    isRename,  \* is_rename
    stack,     \* the iterator: the entries still to visit at each depth
    acc        \* the relative path held by `local` (and `second`)

vars == <<pc, orig, ltree, lnew, sold, snew, isRename, stack, acc>>

Init ==
    /\ orig \in LocalTrees
    /\ ltree = orig
    /\ sold \in SecondaryOf(orig)
    /\ snew = Empty
    /\ lnew = Empty
    /\ pc = "start"
    /\ isRename = TRUE
    /\ stack = <<>>
    /\ acc = <<>>

(***************************************************************************)
(* lf_exporter_.UnregisterAll(); second = secondary_path(new_path) when it *)
(* is an existing directory (is_rename = false), else                      *)
(* secondary_path(old_path); the copy iterator opens on the old directory. *)
(***************************************************************************)
Start ==
    /\ pc = "start"
    /\ isRename' = ~NewExists
    /\ stack' = <<Children(ltree, <<>>)>>
    /\ acc' = <<>>
    /\ pc' = "copy"
    /\ UNCHANGED <<orig, ltree, lnew, sold, snew>>

\* The iterator has finished a directory and climbs out; `local` and
\* `second` keep the directory's name.
CopyAscend ==
    /\ pc = "copy"
    /\ stack # <<>> /\ stack[Len(stack)] = {}
    /\ stack' = SubSeq(stack, 1, Len(stack) - 1)
    /\ pc' = IF Len(stack) = 1 THEN "remove" ELSE "copy"
    /\ UNCHANGED <<orig, ltree, lnew, sold, snew, isRename, acc>>

\* A directory entry: local += filename + "/"; second += filename + "/".
CopyDir(c) ==
    /\ stack' = [stack EXCEPT ![Len(stack)] = @ \ {c}] \o <<Children(ltree, c)>>
    /\ acc' = acc \o <<c[Len(c)]>>
    /\ UNCHANGED <<pc, orig, ltree, lnew, sold, snew, isRename>>

(***************************************************************************)
(* A file entry: if fs::exists(local + filename), fs::copy_file(local +    *)
(* filename, second + filename, overwrite_if_exists).  copy_file throws    *)
(* when the source is a directory or the target's directory is missing;   *)
(* the exception leaves the handler and dispatch answers req.error.        *)
(***************************************************************************)
CopyFile(c) ==
    LET q == acc \o <<c[Len(c)]>>
        dest == IF isRename THEN sold ELSE snew
        destDirOk == InDir(dest, q)
    IN  /\ stack' = [stack EXCEPT ![Len(stack)] = @ \ {c}]
        /\ CASE Kind(ltree, q) = "none" ->
                   UNCHANGED <<pc, sold, snew>>
             [] Kind(ltree, q) = "dir" \/ ~destDirOk ->
                   pc' = "thrown" /\ UNCHANGED <<sold, snew>>
             [] isRename ->
                   sold' = [sold EXCEPT ![q] = ltree[q]] /\ UNCHANGED <<pc, snew>>
             [] OTHER ->
                   snew' = [snew EXCEPT ![q] = ltree[q]] /\ UNCHANGED <<pc, sold>>
        /\ UNCHANGED <<orig, ltree, lnew, isRename, acc>>

CopyVisit ==
    /\ pc = "copy"
    /\ stack # <<>>
    /\ \E c \in stack[Len(stack)] :
          IF ltree[c] = "dir" THEN CopyDir(c) ELSE CopyFile(c)

(***************************************************************************)
(* fs::remove_all(target); if is_rename, fs::rename(secondary old, new),   *)
(* whose failure only sets error; create_directories(local new_path); the  *)
(* second iterator opens on secondary_path(new_path).                      *)
(***************************************************************************)
RemoveAndRename ==
    /\ pc = "remove"
    /\ ltree' = Empty
    /\ IF isRename
       THEN snew' = sold /\ sold' = Empty
       ELSE UNCHANGED <<sold, snew>>
    /\ LET top == IF isRename THEN sold ELSE snew IN
       stack' = <<Children(top, <<>>)>>
    /\ acc' = <<>>
    /\ pc' = "mirror"
    /\ UNCHANGED <<orig, lnew, isRename>>

\* The second iterator climbs out of a directory; `local` keeps its name.
MirrorAscend ==
    /\ pc = "mirror"
    /\ stack # <<>> /\ stack[Len(stack)] = {}
    /\ stack' = SubSeq(stack, 1, Len(stack) - 1)
    /\ pc' = IF Len(stack) = 1 THEN "done" ELSE "mirror"
    /\ UNCHANGED <<orig, ltree, lnew, sold, snew, isRename, acc>>

(***************************************************************************)
(* An entry of the secondary tree: a directory extends `local` and         *)
(* create_directories(local_path(local)) makes it and every missing        *)
(* ancestor; a file is skipped.  Paths longer than MaxDepth are cut off.   *)
(***************************************************************************)
MirrorVisit ==
    /\ pc = "mirror"
    /\ stack # <<>>
    /\ \E c \in stack[Len(stack)] :
         LET rest == [stack EXCEPT ![Len(stack)] = @ \ {c}] IN
         IF snew[c] = "dir"
         THEN LET q == acc \o <<c[Len(c)]>> IN
              /\ stack' = rest \o <<Children(snew, c)>>
              /\ acc' = q
              /\ lnew' = [p \in Rel |->
                            IF Len(p) <= Len(q) /\ p = SubSeq(q, 1, Len(p)) THEN "dir"
                            ELSE lnew[p]]
         ELSE stack' = rest /\ UNCHANGED <<acc, lnew>>
    /\ UNCHANGED <<pc, orig, ltree, sold, snew, isRename>>

\* lf_exporter_.ReSearchLocalFiles() and req.result(error), or the
\* exception's req.error: the handler is over.
Finished == pc \in {"done", "thrown"} /\ UNCHANGED vars

Next ==
    \/ Start \/ CopyAscend \/ CopyVisit \/ RemoveAndRename
    \/ MirrorAscend \/ MirrorVisit \/ Finished

Spec == Init /\ [][Next]_vars

-----------------------------------------------------------------------------
(***************************************************************************)
(* The design: a directory rename moves the directory, files included, to  *)
(* the new name.  When the handler completes, every file the old local     *)
(* directory held is on secondary under the new name with its local        *)
(* (newest) content.  Checked against the copy loop's path bookkeeping.    *)
(***************************************************************************)
RenameKeepsFiles ==
    pc = "done" =>
        \A p \in Rel : orig[p] = "new" => snew[p] = "new"
=============================================================================
