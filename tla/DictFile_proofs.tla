---------------------------- MODULE DictFile_proofs ----------------------------
(***************************************************************************)
(* A strict load reads the file its path named when it began, for every    *)
(* file system, path and interference: the walk is on the chain of names   *)
(* as they were bound at the start, because every directory it has vetted  *)
(* is one whose names nobody else can change.                              *)
(***************************************************************************)
EXTENDS DictFile, TLAPS

TypeInv ==
  /\ entries \in [Inodes -> [Names -> Inodes \cup {NoInode}]]
  /\ before \in [Inodes -> [Names -> Inodes \cup {NoInode}]]
  /\ writable \subseteq Inodes
  /\ path \in [absolute : BOOLEAN, comps : Seq(Names \cup {Dot, Long}),
               trailing : BOOLEAN]
  /\ strict \in BOOLEAN
  /\ fd \in Inodes \cup {NoInode}
  /\ depth \in Nat /\ depth <= Len(path.comps)
  /\ pc \in {"start", "check", "component", "stat", "read", "loaded", "refused"}

Holding == pc \in {"check", "component", "stat", "read"}

\* One descriptor while the load goes on.
HeldInv ==
  /\ pc = "start" => fd = NoInode /\ open = 0
  /\ Holding => fd \in Inodes /\ open = 1
  /\ pc \in {"loaded", "refused"} => open = 0
  /\ pc = "loaded" => fd \in Inodes

\* The names in a directory that others cannot write to are the old ones.
StableInv == \A d \in Inodes : ~ Exposed(d) => entries[d] = before[d]

\* The walk is on the old chain.
WalkInv ==
  strict /\ pc \notin {"refused"} =>
    /\ pc = "start" => depth = 0
    /\ pc # "start" =>
         /\ path.absolute
         /\ Leads(before, depth, fd)
         /\ \A k \in 1 .. depth : path.comps[k] \in Names
    /\ pc = "component" => ~ Exposed(fd)
    /\ pc \in {"stat", "read", "loaded"} =>
         depth = Len(path.comps) /\ ~ path.trailing
    /\ pc \in {"read", "loaded"} => ~ Exposed(fd)

IInv == TypeInv /\ HeldInv /\ StableInv /\ WalkInv

(* The empty prefix of a path leads to the root. *)
LEMMA LeadsToRoot ==
  ASSUME NEW e
  PROVE  Leads(e, 0, Root)
<1> DEFINE c == [j \in 0 .. 0 |-> Root]
<1>1. c \in [0 .. 0 -> Inodes] /\ c[0] = Root
  BY RootIsDirectory
<1>2. \A j \in 1 .. 0 : c[j] = e[c[j - 1]][path.comps[j]]
  OBVIOUS
<1> QED  BY <1>1, <1>2 DEF Leads

(* A chain grows by the name bound in its last directory. *)
LEMMA LeadsOn ==
  ASSUME NEW e, NEW k \in Nat, NEW d \in Inodes, NEW i \in Inodes,
         Leads(e, k, d), i = e[d][path.comps[k + 1]]
  PROVE  Leads(e, k + 1, i)
<1>1. PICK c \in [0 .. k -> Inodes] :
        /\ c[0] = Root
        /\ c[k] = d
        /\ \A j \in 1 .. k : c[j] = e[c[j - 1]][path.comps[j]]
  BY DEF Leads
<1> DEFINE x == [j \in 0 .. (k + 1) |-> IF j = k + 1 THEN i ELSE c[j]]
<1>2. x \in [0 .. (k + 1) -> Inodes]
  BY <1>1
<1>3. x[0] = Root /\ x[k + 1] = i
  BY <1>1
<1>4. ASSUME NEW j \in 1 .. (k + 1)
      PROVE  x[j] = e[x[j - 1]][path.comps[j]]
  <2>1. CASE j = k + 1
    <3>1. x[j] = i /\ x[j - 1] = d
      BY <1>1, <2>1
    <3> QED  BY <2>1, <3>1
  <2>2. CASE j # k + 1
    <3>1. j \in 1 .. k /\ j \in 0 .. k /\ j - 1 \in 0 .. k
      BY <2>2
    <3>2. x[j] = c[j] /\ x[j - 1] = c[j - 1]
      BY <3>1
    <3> QED  BY <1>1, <3>1, <3>2
  <2> QED  BY <2>1, <2>2
<1> HIDE DEF x
<1> QED  BY <1>2, <1>3, <1>4 DEF Leads

LEMMA InitInv == Init => IInv
<1> SUFFICES ASSUME Init PROVE IInv  OBVIOUS
<1>1. TypeInv
  BY TreeType, PathType DEF Init, TypeInv
<1>2. HeldInv
  BY DEF Init, HeldInv, Holding
<1>3. StableInv
  BY DEF Init, StableInv
<1>4. WalkInv
  BY DEF Init, WalkInv
<1> QED  BY <1>1, <1>2, <1>3, <1>4 DEF IInv

(* A refusal holds nothing and claims nothing. *)
LEMMA RefuseInv ==
  ASSUME IInv, Refuse, pc \notin {"loaded", "refused"}
  PROVE  IInv'
<1>1. TypeInv'
  BY DEF IInv, TypeInv, Refuse, loadVars, fsVars
<1>2. HeldInv'
  BY NoInodeIsNone DEF IInv, TypeInv, HeldInv, Holding, Refuse, loadVars
<1>3. StableInv'
  BY DEF IInv, StableInv, Exposed, Refuse, loadVars, fsVars
<1>4. WalkInv'
  BY DEF WalkInv, Refuse
<1> QED  BY <1>1, <1>2, <1>3, <1>4 DEF IInv

(* What other users may change leaves the vetted directories alone. *)
LEMMA OthersInv ==
  ASSUME IInv, Others
  PROVE  IInv'
<1>1. /\ UNCHANGED <<pc, strict, path, before, depth, fd, open>>
  BY DEF Others, Rebind, Chmod, Resize
<1>2. /\ entries' \in [Inodes -> [Names -> Inodes \cup {NoInode}]]
      /\ writable' \subseteq Inodes
      /\ \A d \in Inodes : Exposed(d)' = Exposed(d)
      /\ \A d \in Inodes : ~ Exposed(d) => entries'[d] = entries[d]
  <2>1. ASSUME NEW d \in Inodes, NEW n \in Names,
               NEW i \in Inodes \cup {NoInode}, Rebind(d, n, i)
        PROVE  <1>2
    BY <2>1 DEF Rebind, Exposed, IInv, TypeInv
  <2>2. ASSUME NEW i \in Inodes, Chmod(i)
        PROVE  <1>2
    BY <2>2 DEF Chmod, Exposed, IInv, TypeInv
  <2>3. ASSUME NEW f \in Files, NEW n \in 0 .. MaxLength, Resize(f, n)
        PROVE  <1>2
    BY <2>3 DEF Resize, Exposed, IInv, TypeInv
  <2> QED  BY <2>1, <2>2, <2>3 DEF Others
<1>3. TypeInv'
  BY <1>1, <1>2 DEF IInv, TypeInv
<1>4. HeldInv'
  BY <1>1 DEF IInv, HeldInv, Holding
<1>5. StableInv'
  BY <1>1, <1>2 DEF IInv, StableInv
<1>6. WalkInv'
  <2>1. Leads(before, depth, fd)' = Leads(before, depth, fd)
    BY <1>1 DEF Leads
  <2>2. fd \in Inodes => Exposed(fd)' = Exposed(fd)
    BY <1>1, <1>2 DEF Exposed
  <2>3. strict /\ pc \in {"component", "read", "loaded"} => fd \in Inodes
    BY DEF IInv, HeldInv, Holding
  <2> QED  BY <1>1, <2>1, <2>2, <2>3 DEF IInv, WalkInv
<1> QED  BY <1>3, <1>4, <1>5, <1>6 DEF IInv

(* The walk starts at the root. *)
LEMMA OpenRootInv ==
  ASSUME IInv, OpenRoot
  PROVE  IInv'
<1>1. CASE Refuse
  BY <1>1, RefuseInv DEF OpenRoot
<1>2. CASE ~ Refuse
  <2>1. /\ pc = "start" /\ strict /\ path.absolute
        /\ fd' = Root /\ open' = open + 1 /\ pc' = "check"
        /\ UNCHANGED <<loadVars, depth, readVars>>
    BY <1>2 DEF OpenRoot
  <2>2. TypeInv'
    BY <2>1, RootIsDirectory DEF IInv, TypeInv, loadVars, fsVars
  <2>3. HeldInv'
    BY <2>1, RootIsDirectory DEF IInv, HeldInv, Holding
  <2>4. StableInv'
    BY <2>1 DEF IInv, StableInv, Exposed, loadVars, fsVars
  <2>5. Leads(before, depth, fd)'
    <3>1. depth' = 0 /\ fd' = Root /\ before' = before /\ path' = path
      BY <2>1 DEF IInv, WalkInv, loadVars
    <3>2. Leads(before, 0, Root)
      BY LeadsToRoot
    <3> QED  BY <3>1, <3>2 DEF Leads
  <2>6. WalkInv'
    BY <2>1, <2>5 DEF IInv, WalkInv, loadVars
  <2> QED  BY <2>2, <2>3, <2>4, <2>6 DEF IInv
<1> QED  BY <1>1, <1>2

(* A directory that passes the check is one nobody else can change. *)
LEMMA CheckDirInv ==
  ASSUME IInv, CheckDir
  PROVE  IInv'
<1>1. CASE Refuse
  BY <1>1, RefuseInv DEF CheckDir
<1>2. CASE ~ Refuse
  <2>1. /\ pc = "check" /\ DirTrusted(fd) /\ pc' = "component"
        /\ UNCHANGED <<loadVars, depth, fd, open, readVars>>
    BY <1>2 DEF CheckDir
  <2>2. TypeInv'
    BY <2>1 DEF IInv, TypeInv, loadVars, fsVars
  <2>3. HeldInv'
    BY <2>1 DEF IInv, HeldInv, Holding
  <2>4. StableInv'
    BY <2>1 DEF IInv, StableInv, Exposed, loadVars, fsVars
  <2>5. Leads(before, depth, fd)' = Leads(before, depth, fd)
    BY <2>1 DEF Leads, loadVars
  <2>6. ~ Exposed(fd)'
    BY <2>1 DEF DirTrusted, Exposed, loadVars, fsVars
  <2>7. WalkInv'
    BY <2>1, <2>5, <2>6 DEF IInv, WalkInv, loadVars
  <2> QED  BY <2>2, <2>3, <2>4, <2>7 DEF IInv
<1> QED  BY <1>1, <1>2

(* One component on: the name is bound as it was at the start. *)
LEMMA OpenAtInv ==
  ASSUME IInv, OpenAt
  PROVE  IInv'
<1> DEFINE last == depth + 1 = Len(path.comps)
           name == path.comps[depth + 1]
           next == StepsTo(fd, name, last)
<1>1. CASE Refuse
  BY <1>1, RefuseInv DEF OpenAt
<1>2. CASE ~ Refuse
  <2>1. /\ pc = "component" /\ ComponentGood
        /\ next # NoInode
        /\ fd' = next /\ depth' = depth + 1
        /\ pc' = (IF last THEN "stat" ELSE "check")
        /\ UNCHANGED <<loadVars, open, readVars>>
    BY <1>2 DEF OpenAt
  <2>2. next \in Inodes /\ next = entries[fd][name]
    BY <2>1 DEF StepsTo
  <2>3. /\ depth < Len(path.comps) /\ name \in Names
        /\ last => ~ path.trailing
    BY <2>1 DEF ComponentGood, IInv, TypeInv
  <2>4. TypeInv'
    BY <2>1, <2>2, <2>3 DEF IInv, TypeInv, loadVars, fsVars
  <2>5. HeldInv'
    BY <2>1, <2>2 DEF IInv, HeldInv, Holding
  <2>6. StableInv'
    BY <2>1 DEF IInv, StableInv, Exposed, loadVars, fsVars
  <2>7. ASSUME strict PROVE WalkInv'
    <3>1. fd \in Inodes /\ ~ Exposed(fd) /\ path.absolute
          /\ Leads(before, depth, fd)
          /\ \A k \in 1 .. depth : path.comps[k] \in Names
      BY <2>1, <2>7 DEF IInv, HeldInv, Holding, WalkInv
    <3>2. next = before[fd][name]
      BY <2>2, <3>1 DEF IInv, StableInv
    <3>3. Leads(before, depth + 1, next)
      BY <2>2, <3>1, <3>2, LeadsOn DEF IInv, TypeInv
    <3>4. Leads(before, depth, fd)'
      BY <2>1, <3>3 DEF Leads, loadVars
    <3>5. \A k \in 1 .. (depth + 1) : path.comps[k] \in Names
      BY <2>3, <3>1 DEF IInv, TypeInv
    <3> QED  BY <2>1, <2>3, <3>1, <3>4, <3>5 DEF WalkInv, loadVars
  <2>8. WalkInv'
    BY <2>1, <2>7 DEF WalkInv, loadVars
  <2> QED  BY <2>4, <2>5, <2>6, <2>8 DEF IInv
<1> QED  BY <1>1, <1>2

(* A load without the walk claims nothing of its path. *)
LEMMA OpenPlainInv ==
  ASSUME IInv, OpenPlain
  PROVE  IInv'
<1>1. CASE Refuse
  BY <1>1, RefuseInv DEF OpenPlain
<1>2. CASE ~ Refuse
  <2> DEFINE i == Resolve(path.comps)
  <2>1. /\ pc = "start" /\ ~ strict /\ i \in Inodes
        /\ fd' = i /\ open' = open + 1 /\ pc' = "stat"
        /\ UNCHANGED <<loadVars, depth, readVars>>
    BY <1>2 DEF OpenPlain
  <2> HIDE DEF i
  <2>2. TypeInv'
    BY <2>1 DEF IInv, TypeInv, loadVars, fsVars
  <2>3. HeldInv'
    BY <2>1 DEF IInv, HeldInv, Holding
  <2>4. StableInv'
    BY <2>1 DEF IInv, StableInv, Exposed, loadVars, fsVars
  <2>5. WalkInv'
    BY <2>1 DEF WalkInv, loadVars
  <2> QED  BY <2>2, <2>3, <2>4, <2>5 DEF IInv
<1> QED  BY <1>1, <1>2

(* Steps that keep the descriptor: fstat(), a read, the last close. *)
LEMMA StatReadCloseInv ==
  ASSUME IInv, ~ Refuse,
         Stat \/ Close \/ \E n \in 1 .. MaxLength : ReadSome(n)
  PROVE  IInv'
<1>1. /\ UNCHANGED <<loadVars, depth, fd>>
      /\ pc \in {"stat", "read"}
      /\ \/ pc = "stat" /\ pc' = "read" /\ LeafAccepted(fd) /\ open' = open
         \/ pc = "read" /\ pc' = "read" /\ open' = open
         \/ pc = "read" /\ pc' = "loaded" /\ open' = open - 1
  BY DEF Stat, Close, ReadSome
<1>2. TypeInv'
  BY <1>1 DEF IInv, TypeInv, loadVars, fsVars
<1>3. HeldInv'
  BY <1>1 DEF IInv, HeldInv, Holding
<1>4. StableInv'
  BY <1>1 DEF IInv, StableInv, Exposed, loadVars, fsVars
<1>5. Leads(before, depth, fd)' = Leads(before, depth, fd)
  BY <1>1 DEF Leads, loadVars
<1>6. strict => ~ Exposed(fd)'
  BY <1>1 DEF IInv, WalkInv, LeafAccepted, Exposed, loadVars, fsVars
<1>7. WalkInv'
  BY <1>1, <1>5, <1>6 DEF IInv, WalkInv, loadVars
<1> QED  BY <1>2, <1>3, <1>4, <1>7 DEF IInv

LEMMA NextInv == IInv /\ [Next]_vars => IInv'
<1> SUFFICES ASSUME IInv, [Next]_vars PROVE IInv'  OBVIOUS
<1>1. CASE RefuseRelative \/ RefuseComponent \/ ReadError \/ EndOfFile
  BY <1>1, RefuseInv DEF RefuseRelative, RefuseComponent, ReadError, EndOfFile
<1>2. CASE OpenRoot   BY <1>2, OpenRootInv
<1>3. CASE CheckDir   BY <1>3, CheckDirInv
<1>4. CASE OpenAt     BY <1>4, OpenAtInv
<1>5. CASE OpenPlain  BY <1>5, OpenPlainInv
<1>6. CASE Stat \/ Close \/ \E n \in 1 .. MaxLength : ReadSome(n)
  <2>1. CASE ~ Refuse
    BY <1>6, <2>1, StatReadCloseInv
  <2>2. CASE Refuse
    <3>1. pc \notin {"loaded", "refused"}
      BY <1>6 DEF Stat, Close, ReadSome
    <3> QED  BY <2>2, <3>1, RefuseInv
  <2> QED  BY <2>1, <2>2
<1>7. CASE Others     BY <1>7, OthersInv
<1>8. CASE UNCHANGED vars
  <2>1. Leads(before, depth, fd)' = Leads(before, depth, fd)
    BY <1>8 DEF Leads, vars
  <2> QED
    BY <1>8, <2>1 DEF IInv, TypeInv, HeldInv, Holding, StableInv, WalkInv,
                      Exposed, vars
<1> QED
  BY <1>1, <1>2, <1>3, <1>4, <1>5, <1>6, <1>7, <1>8
  DEF Next, Load, Walk, Read, Interrupted

(* The inductive invariant holds of every load. *)
LEMMA Invariance == Spec => []IInv
  BY InitInv, NextInv, PTL DEF Spec

(* Unsteered: a strict load reads the file its path named when it began,   *)
(* and no other user can write to it (dict_file.h:397-499).                *)
THEOREM StrictLoadIsUnsteered == Spec => []Unsteered
<1>1. IInv => Unsteered
  <2> SUFFICES ASSUME IInv, strict, pc \in {"read", "loaded"}
               PROVE  /\ PlainPath
                      /\ Leads(before, Len(path.comps), fd)
                      /\ ~ Exposed(fd)
    BY DEF Unsteered
  <2> QED  BY DEF IInv, WalkInv, PlainPath
<1> QED  BY <1>1, Invariance, PTL

(* DescriptorsClosed: one descriptor at most, none after the load          *)
(* (dict_file.h:417-423, filter_module.c:6716-6724).                       *)
THEOREM LoadClosesDescriptors == Spec => []DescriptorsClosed
<1>1. IInv => DescriptorsClosed
  BY DEF IInv, TypeInv, HeldInv, Holding, DescriptorsClosed, Loaded
<1> QED  BY <1>1, Invariance, PTL

-----------------------------------------------------------------------------
(* The read loop *)

\* The buffer holds the file from its start, as far as it was read.
BufInv ==
  /\ buf \in Seq(Int)
  /\ \A k \in 1 .. Len(buf) : buf[k] = k
  /\ offset = Len(buf)
  /\ pc \in {"start", "check", "component", "stat"} => Len(buf) = 0
  /\ pc = "loaded" => Len(buf) = size

LEMMA BufNext == BufInv /\ [Next]_vars => BufInv'
<1> SUFFICES ASSUME BufInv, [Next]_vars PROVE BufInv'  OBVIOUS
<1>1. ASSUME NEW n \in 1 .. MaxLength, ReadSome(n)
      PROVE  BufInv'
  <2> DEFINE m == Len(buf) + n
  <2>1. m \in Nat /\ Len(buf) \in Nat
    BY Sizes DEF BufInv
  <2>2. buf' = [k \in 1 .. m |-> IF k <= Len(buf) THEN buf[k]
                                 ELSE offset + (k - Len(buf))]
    BY <1>1 DEF ReadSome, Done
  <2>3. \A k \in 1 .. m : buf'[k] = k
    BY <2>1, <2>2 DEF BufInv
  <2>4. buf' \in Seq(Int) /\ Len(buf') = m
    <3>1. buf' \in [1 .. m -> Int]
      BY <2>1, <2>2, <2>3
    <3> QED  BY <2>1, <3>1
  <2>5. offset' = m /\ pc = "read" /\ pc' = "read"
    BY <1>1 DEF ReadSome, BufInv
  <2> QED  BY <2>3, <2>4, <2>5 DEF BufInv
<1>2. CASE Close
  BY <1>2 DEF Close, Refuse, BufInv, Done, readVars
<1>3. CASE Refuse
  BY <1>3 DEF Refuse, BufInv, readVars
<1>4. CASE OpenRoot
  BY <1>4, <1>3 DEF OpenRoot, BufInv, readVars
<1>5. CASE CheckDir
  BY <1>5, <1>3 DEF CheckDir, BufInv, readVars
<1>6. CASE OpenAt
  <2>1. CASE ~ Refuse
    <3>1. UNCHANGED readVars /\ pc' \in {"stat", "check"} /\ pc = "component"
      BY <1>6, <2>1 DEF OpenAt
    <3> QED  BY <3>1 DEF BufInv, readVars
  <2> QED  BY <1>3, <2>1
<1>7. CASE OpenPlain
  BY <1>7, <1>3 DEF OpenPlain, BufInv, readVars
<1>8. CASE Stat
  BY <1>8, <1>3 DEF Stat, BufInv
<1>9. CASE Others
  <2>1. UNCHANGED <<pc, readVars>>
    BY <1>9 DEF Others, Rebind, Chmod, Resize
  <2> QED  BY <2>1 DEF BufInv, readVars
<1>10. CASE UNCHANGED vars
  BY <1>10 DEF BufInv, vars
<1>11. CASE RefuseRelative \/ RefuseComponent \/ ReadError \/ EndOfFile
  BY <1>3, <1>11 DEF RefuseRelative, RefuseComponent, ReadError, EndOfFile
<1> QED
  BY <1>1, <1>2, <1>4, <1>5, <1>6, <1>7, <1>8, <1>9, <1>10, <1>11
  DEF Next, Load, Walk, Read, Interrupted

(* BufferWhole: a dictionary that is handed on is the whole file, read in  *)
(* its order, however short the reads were (dict_file.h:134-178).          *)
THEOREM LoadedIsWhole == Spec => []BufferWhole
<1>1. Init => BufInv
  BY DEF Init, BufInv
<1>2. BufInv => BufferWhole
  <2> SUFFICES ASSUME BufInv, pc = "loaded"
               PROVE  buf = [k \in 1 .. size |-> k]
    BY DEF BufferWhole
  <2>1. DOMAIN buf = 1 .. size /\ buf = [k \in DOMAIN buf |-> buf[k]]
    BY DEF BufInv
  <2>2. \A k \in 1 .. size : buf[k] = k
    BY DEF BufInv
  <2> QED  BY <2>1, <2>2
<1> QED  BY <1>1, <1>2, BufNext, PTL DEF Spec
================================================================================
