------------------------------- MODULE DictFile -------------------------------
(***************************************************************************)
(* Loading one dictionary file at configuration time: the strict walk of   *)
(* ngx_http_zstd_dict_file.h that opens a path one component at a time,    *)
(* the checks of ngx_http_zstd_open_dict_file(), and the read loop.        *)
(*                                                                         *)
(* Every system call is a step of its own.  Between two of them another    *)
(* user of the machine changes what the file system lets him change, and   *)
(* the file being read may change its length.                              *)
(***************************************************************************)
EXTENDS Integers, Sequences, FiniteSets

CONSTANTS
  Inodes,       \* what names may be bound to
  Root,         \* the directory "/"
  Kind,         \* inode -> "dir", "file", "fifo" or "link"
  Owner,        \* inode -> uid
  Target,       \* link  -> the inode it leads to, or NoInode
  Names,        \* path components
  Dot,          \* "."; the walk treats ".." alike
  Long,         \* a component of NGX_MAX_PATH bytes or more
  Euid,         \* geteuid()
  Paths,        \* paths as configured: [absolute, comps, trailing]
  Trees,        \* file systems at the start: [entries, writable]
  MaxDictSize,  \* NGX_HTTP_ZSTD_MAX_DICT_SIZE
  MaxLength,    \* bound: the longest file
  NoInode

ASSUME RootIsDirectory == Root \in Inodes /\ Kind[Root] = "dir"
ASSUME NoInodeIsNone   == NoInode \notin Inodes
ASSUME DotAndLong      == {Dot, Long} \cap Names = {}
ASSUME PathType ==
  Paths \subseteq [absolute : BOOLEAN, comps : Seq(Names \cup {Dot, Long}),
                   trailing : BOOLEAN]
ASSUME TreeType ==
  Trees \subseteq [entries : [Inodes -> [Names -> Inodes \cup {NoInode}]],
                   writable : SUBSET Inodes]
ASSUME Sizes == MaxDictSize \in Nat /\ MaxLength \in Nat \ {0}

VARIABLES
  entries,   \* directory -> component -> inode or NoInode
  writable,  \* the inodes writable by group or other
  length,    \* the length of each inode's contents
  pc,        \* where the load is
  strict,    \* zstd_dict_strict_path
  path,      \* the path being loaded
  before,    \* entries when the load began
  depth,     \* components of the path consumed by the walk
  fd,        \* the inode behind the descriptor in hand, or NoInode
  open,      \* descriptors open
  size,      \* the length fstat() reported
  buf,       \* the file offset each byte of the buffer was read from
  offset     \* the descriptor's file offset

fsVars   == <<entries, writable, length>>
readVars == <<size, buf, offset>>
vars == <<entries, writable, length, pc, strict, path, before, depth, fd, open,
          size, buf, offset>>

Trusted(uid) == uid \in {0, Euid}

\* Another user may write here.
Exposed(i) == ~ Trusted(Owner[i]) \/ i \in writable

Files == {i \in Inodes : Kind[i] = "file"}

Init ==
  /\ \E t \in Trees : entries = t.entries /\ writable = t.writable
  /\ length \in [Inodes -> {MaxLength - 1}]
  /\ pc = "start"
  /\ strict \in BOOLEAN
  /\ path \in Paths
  /\ before = entries
  /\ depth = 0
  /\ fd = NoInode
  /\ open = 0
  /\ size = 0
  /\ buf = <<>>
  /\ offset = 0

-----------------------------------------------------------------------------
(* The rest of the machine *)

\* Another user binds a name anew in a directory he may write to.
Rebind(d, n, i) ==
  /\ Kind[d] = "dir" /\ Exposed(d)
  /\ entries' = [entries EXCEPT ![d][n] = i]
  /\ UNCHANGED <<writable, length, pc, strict, path, before, depth, fd, open,
                 readVars>>

\* Another user changes the mode of what he owns.
Chmod(i) ==
  /\ ~ Trusted(Owner[i])
  /\ writable' = IF i \in writable THEN writable \ {i} ELSE writable \cup {i}
  /\ UNCHANGED <<entries, length, pc, strict, path, before, depth, fd, open,
                 readVars>>

\* A deployment, or anyone who may, rewrites the file in place.
Resize(f, n) ==
  /\ f = fd
  /\ pc \in {"stat", "read"}
  /\ length' = [length EXCEPT ![f] = n]
  /\ UNCHANGED <<entries, writable, pc, strict, path, before, depth, fd, open,
                 readVars>>

-----------------------------------------------------------------------------
(* The strict walk *)

loadVars == <<fsVars, strict, path, before>>

\* Mutant: the descriptor in hand is forgotten.
RefuseLeaks ==
  /\ pc' = "refused"
  /\ fd' = NoInode
  /\ UNCHANGED <<loadVars, depth, readVars, open>>

\* Every refusal closes what is open.
Refuse ==
  /\ pc' = "refused"
  /\ fd' = NoInode
  /\ open' = IF fd = NoInode THEN open ELSE open - 1
  /\ UNCHANGED <<loadVars, depth, readVars>>

RefuseRelative ==
  /\ pc = "start" /\ strict
  /\ ~ path.absolute
  /\ Refuse

OpenRoot ==
  /\ pc = "start" /\ strict
  /\ path.absolute
  /\ \/ Refuse
     \/ /\ fd' = Root
        /\ open' = open + 1
        /\ pc' = "check"
        /\ UNCHANGED <<loadVars, depth, readVars>>

\* Mutant: a directory need only have the right owner.
DirTrustedAnyMode(i) == Trusted(Owner[i])

\* check_dir(): no directory is taken as a base another user could change.
DirTrusted(i) == Trusted(Owner[i]) /\ i \notin writable

CheckDir ==
  /\ pc = "check"
  /\ \/ Refuse
     \/ /\ DirTrusted(fd)
        /\ pc' = "component"
        /\ UNCHANGED <<loadVars, depth, fd, open, readVars>>

\* next_component() refuses when no component is left, when it is too long,
\* "." or "..", and when only separators follow the last one.
ComponentGood ==
  /\ depth < Len(path.comps)
  /\ path.comps[depth + 1] \notin {Dot, Long}
  /\ depth + 1 = Len(path.comps) => ~ path.trailing

RefuseComponent ==
  /\ pc = "component"
  /\ ~ ComponentGood
  /\ Refuse

\* openat(): O_NOFOLLOW at every component, O_DIRECTORY before the last.
StepsTo(d, n, last) ==
  LET i == entries[d][n] IN
  IF /\ i \in Inodes
     /\ Kind[i] # "link"
     /\ last \/ Kind[i] = "dir"
  THEN i ELSE NoInode

\* The leaf goes to fstat(), a directory is vetted first.
OpenAt ==
  LET last == depth + 1 = Len(path.comps) IN
  /\ pc = "component"
  /\ ComponentGood
  /\ LET next == StepsTo(fd, path.comps[depth + 1], last) IN
     \/ Refuse
     \/ /\ next # NoInode
        /\ fd' = next
        /\ depth' = depth + 1
        /\ pc' = IF last THEN "stat" ELSE "check"
        /\ UNCHANGED <<loadVars, open, readVars>>

-----------------------------------------------------------------------------
(* Without the walk, and after it *)

\* The kernel resolves the path and follows links on the way.
Follow(i) == IF i \in Inodes /\ Kind[i] = "link" THEN Target[i] ELSE i

Resolve(comps) ==
  LET at[k \in 0 .. Len(comps)] ==
        IF k = 0 THEN Root
        ELSE IF at[k - 1] \in Inodes /\ Kind[at[k - 1]] = "dir"
             THEN Follow(IF comps[k] \in Names
                         THEN entries[at[k - 1]][comps[k]]
                         ELSE IF comps[k] = Dot THEN at[k - 1] ELSE NoInode)
             ELSE NoInode
  IN at[Len(comps)]

OpenPlain ==
  /\ pc = "start" /\ ~ strict
  /\ \/ Refuse
     \/ /\ Resolve(path.comps) \in Inodes
        /\ path.trailing => Kind[Resolve(path.comps)] = "dir"
        /\ fd' = Resolve(path.comps)
        /\ open' = open + 1
        /\ pc' = "stat"
        /\ UNCHANGED <<loadVars, depth, readVars>>

\* A regular file; under the strict rule one nobody else can write to.
LeafAccepted(i) ==
  /\ Kind[i] = "file"
  /\ strict => Trusted(Owner[i]) /\ i \notin writable

\* fstat() and the limits on the size; the buffer is allocated.
Stat ==
  /\ pc = "stat"
  /\ \/ Refuse
     \/ /\ LeafAccepted(fd)
        /\ length[fd] > 0 /\ length[fd] <= MaxDictSize
        /\ size' = length[fd]
        /\ pc' = "read"
        /\ UNCHANGED <<loadVars, depth, fd, open, buf, offset>>

-----------------------------------------------------------------------------
(* The read loop *)

Done == Len(buf)

\* read() returns n bytes, which may be fewer than asked for.
ReadSome(n) ==
  /\ pc = "read"
  /\ Done < size
  /\ n <= size - Done /\ offset + n <= length[fd]
  /\ buf' = [k \in 1 .. Done + n |-> IF k <= Done THEN buf[k]
                                     ELSE offset + (k - Done)]
  /\ offset' = offset + n
  /\ UNCHANGED <<loadVars, pc, depth, fd, open, size>>

\* Mutant: an interrupted load starts over.
InterruptedRestarts ==
  /\ pc = "read"
  /\ Done < size
  /\ buf' = <<>>
  /\ offset' = 0
  /\ UNCHANGED <<loadVars, pc, depth, fd, open, size>>

\* EINTR: the read is issued again.
Interrupted ==
  /\ pc = "read"
  /\ Done < size
  /\ UNCHANGED vars

ReadError ==
  /\ pc = "read"
  /\ Done < size
  /\ Refuse

\* Mutant: what could be read is taken.
EndOfFileTaken ==
  /\ pc = "read"
  /\ Done < size /\ offset >= length[fd]
  /\ pc' = "loaded"
  /\ open' = open - 1
  /\ UNCHANGED <<loadVars, depth, fd, readVars>>

\* The end of the file with bytes still owed: the file has shrunk.
EndOfFile ==
  /\ pc = "read"
  /\ Done < size /\ offset >= length[fd]
  /\ Refuse

\* close(); its failure, too, refuses the dictionary.
Close ==
  /\ pc = "read"
  /\ Done = size
  /\ \/ Refuse
     \/ /\ pc' = "loaded"
        /\ open' = open - 1
        /\ UNCHANGED <<loadVars, depth, fd, readVars>>

Loaded == pc \in {"loaded", "refused"}

Walk == RefuseRelative \/ OpenRoot \/ CheckDir \/ RefuseComponent \/ OpenAt
Read == (\E n \in 1 .. MaxLength : ReadSome(n)) \/ ReadError \/ EndOfFile

Load == Walk \/ OpenPlain \/ Stat \/ Read \/ Close

Others ==
  /\ ~ Loaded
  /\ \/ \E d \in Inodes, n \in Names, i \in Inodes \cup {NoInode} :
          Rebind(d, n, i)
     \/ \E i \in Inodes : Chmod(i)
     \/ \E f \in Files, n \in 0 .. MaxLength : Resize(f, n)

Next ==
  \/ Load
  \/ Interrupted
  \/ Others
  \/ Loaded /\ UNCHANGED vars

Spec == Init /\ [][Next]_vars

\* The loader is one process that runs on; a read is not interrupted for ever.
FairSpec == Spec /\ WF_vars(Load)

-----------------------------------------------------------------------------
(* Properties *)

\* The first k components of the path lead from the root to i through the
\* names as they were bound in e.
Leads(e, k, i) ==
  \E chain \in [0 .. k -> Inodes] :
    /\ chain[0] = Root
    /\ chain[k] = i
    /\ \A j \in 1 .. k : chain[j] = e[chain[j - 1]][path.comps[j]]

\* A path that names a file without detours: one that ends in a separator
\* names none (dict_file.h:292-320).
PlainPath ==
  /\ path.absolute /\ ~ path.trailing
  /\ \A k \in 1 .. Len(path.comps) : path.comps[k] \in Names

\* What a strict load reads is what the path named when the load began,
\* links not followed, whatever other users did in the meantime, and none of
\* them can write to it (dict_file.h:397-424, filter_module.c:4505-4572).
Unsteered ==
  strict /\ pc \in {"read", "loaded"} =>
    /\ PlainPath
    /\ Leads(before, Len(path.comps), fd)
    /\ ~ Exposed(fd)

\* A dictionary that is handed on holds the whole file in its order: every
\* byte of the buffer was read, each from its place (dict_file.h:93-133).
BufferWhole ==
  pc = "loaded" => buf = [k \in 1 .. size |-> k]

\* Each step of the walk hands on one descriptor, the previous one closed, and
\* none is open when the load is over (dict_file.h:436-492,
\* filter_module.c:6716-6724).
DescriptorsClosed ==
  /\ open <= 1
  /\ Loaded => open = 0

\* The load comes to an end, with a file that shrinks and grows under it.
LoadEnds == <>Loaded
=============================================================================
