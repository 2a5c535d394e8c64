----------------------------- MODULE AbstractFS -----------------------------
(***************************************************************************)
(* What the burst buffer promises its clients: a flat file store with      *)
(* POSIX semantics.  A path names some content or nothing; a handle opened *)
(* on a path keeps writing the file it was opened on, follows it across a  *)
(* rename and becomes an orphan (its writes go nowhere visible) when the   *)
(* file is unlinked.  Contents are opaque versions: every successful write *)
(* produces a version never seen before.  Any call may also fail and leave *)
(* the store as it was.  A new version is drawn from the counter next.     *)
(***************************************************************************)
EXTENDS Naturals

CONSTANTS
    Paths,       \* file names
    Handles,     \* client file handles
    Empty,       \* the content of a newly created file
    Absent,      \* "no such file"
    Orphan,      \* the path of a handle whose file was unlinked
    NoHandle     \* a handle slot that is not open

VARIABLES
    content,     \* content[p]: the version path p holds, or Absent
    hpath,       \* hpath[h]: the path handle h writes to, Orphan or NoHandle
    hwrite,      \* hwrite[h]: whether h was opened for writing
    next         \* the version the next write produces

avars == <<content, hpath, hwrite, next>>

ATypeOK ==
    /\ content \in [Paths -> Nat \cup {Absent}]
    /\ hpath \in [Handles -> Paths \cup {Orphan, NoHandle}]
    /\ hwrite \in [Handles -> BOOLEAN]
    /\ next \in Nat

\* Open an existing file.
AOpen(h, p, wr) ==
    /\ hpath[h] = NoHandle
    /\ content[p] # Absent
    /\ hpath' = [hpath EXCEPT ![h] = p]
    /\ hwrite' = [hwrite EXCEPT ![h] = wr]
    /\ UNCHANGED <<content, next>>

\* Create a file that does not exist yet, empty.
ACreate(h, p) ==
    /\ hpath[h] = NoHandle
    /\ content[p] = Absent
    /\ content' = [content EXCEPT ![p] = Empty]
    /\ hpath' = [hpath EXCEPT ![h] = p]
    /\ hwrite' = [hwrite EXCEPT ![h] = TRUE]
    /\ UNCHANGED next

\* A write (or ftruncate) through a writable handle: the file it is open
\* on gets a new version; an orphan's write is invisible.
AWrite(h) ==
    /\ hpath[h] # NoHandle
    /\ hwrite[h]
    /\ IF hpath[h] = Orphan THEN UNCHANGED content
       ELSE content' = [content EXCEPT ![hpath[h]] = next]
    /\ next' = next + 1
    /\ UNCHANGED <<hpath, hwrite>>

\* truncate(2) by name.
ATruncate(p) ==
    /\ content[p] # Absent
    /\ content' = [content EXCEPT ![p] = next]
    /\ next' = next + 1
    /\ UNCHANGED <<hpath, hwrite>>

\* Close a handle.
ARelease(h) ==
    /\ hpath[h] # NoHandle
    /\ hpath' = [hpath EXCEPT ![h] = NoHandle]
    /\ hwrite' = [hwrite EXCEPT ![h] = FALSE]
    /\ UNCHANGED <<content, next>>

\* Unlink: the name goes, the handles open on it become orphans.
AUnlink(p) ==
    /\ content[p] # Absent
    /\ content' = [content EXCEPT ![p] = Absent]
    /\ hpath' = [h \in Handles |-> IF hpath[h] = p THEN Orphan ELSE hpath[h]]
    /\ UNCHANGED <<hwrite, next>>

\* Rename p to q, replacing q; the handles of q become orphans and those of
\* p follow the file.
ARename(p, q) ==
    /\ p # q
    /\ content[p] # Absent
    /\ content' = [content EXCEPT ![q] = content[p], ![p] = Absent]
    /\ hpath' = [h \in Handles |->
                    CASE hpath[h] = p -> q
                      [] hpath[h] = q -> Orphan
                      [] OTHER        -> hpath[h]]
    /\ UNCHANGED <<hwrite, next>>

ANext ==
    \/ \E h \in Handles, p \in Paths, wr \in BOOLEAN : AOpen(h, p, wr)
    \/ \E h \in Handles, p \in Paths : ACreate(h, p)
    \/ \E h \in Handles : AWrite(h)
    \/ \E p \in Paths : ATruncate(p)
    \/ \E h \in Handles : ARelease(h)
    \/ \E p \in Paths : AUnlink(p)
    \/ \E p, q \in Paths : ARename(p, q)

\* Stores start with some files and no open handle.
AInit ==
    /\ content \in [Paths -> Nat \cup {Absent}]
    /\ next \in Nat
    /\ \A p \in Paths : content[p] # Absent => content[p] < next
    /\ hpath = [h \in Handles |-> NoHandle]
    /\ hwrite = [h \in Handles |-> FALSE]

ASpec == AInit /\ [][ANext]_avars
=============================================================================
