---------------------------- MODULE VerdictCache ----------------------------
(***************************************************************************)
(* The worker's table of frame-probe verdicts in                           *)
(* ngx_http_zstd_static_module.c, and the part of the content handler that *)
(* consults it: ngx_open_cached_file(), cached_verdict(), probe_file(),    *)
(* remember().                                                             *)
(*                                                                         *)
(* The table is shared by all locations of a worker; what a location adds  *)
(* is its open_file_cache_valid, 0 standing for "open_file_cache off".     *)
(*                                                                         *)
(* A sidecar file is [ino, stamp]: stamp is its (mtime, size), which an    *)
(* in-place rewrite within the timestamp's granularity leaves as it was.   *)
(* Its contents are those of the inode, "good" or "bad" to the probe.      *)
(***************************************************************************)
EXTENDS Integers, FiniteSets

CONSTANTS
  Paths,        \* ".zst" paths, all shorter than NGX_MAX_PATH
  Inodes,       \* inode numbers, reused by nobody
  Stamps,       \* (mtime, size) pairs
  Lifetimes,    \* open_file_cache_valid of the locations
  NumSlots,     \* NGX_HTTP_ZSTD_STATIC_VERDICT_CACHE_SLOTS
  MaxTime,      \* bound on the clock
  NULL          \* no inode, no open file

ASSUME VerdictBounds ==
  /\ NumSlots \in Nat \ {0}
  /\ MaxTime \in Nat
  /\ Lifetimes \subseteq Nat
ASSUME VerdictNull == NULL \notin Inodes \cup Paths \cup Stamps

VARIABLES
  now,       \* ngx_time()
  disk,      \* the file at each path
  good,      \* is the inode's content a frame the probe accepts?
  goodAt,    \* the last time it was
  ofc,       \* open_file_cache: [ino, stamp, at]
  slots,     \* ngx_http_zstd_static_verdict_cache
  next,      \* ..._cache_next
  count,     \* ..._cache_count
  last       \* what the latest request got: [ino, valid], ino NULL if declined

cacheVars == <<now, disk, good, goodAt, ofc, slots, next, count, last>>
fileVars == <<disk, good, goodAt>>
tableVars == <<slots, next, count>>

Slots == 0 .. NumSlots - 1
File  == [ino : Inodes \cup {NULL}, stamp : Stamps]

\* The table starts as zero-initialised static storage.
ZeroSlot == [path |-> NULL, ino |-> NULL, stamp |-> NULL, checked |-> 0,
             valid |-> "none"]

NotOpened == [ino |-> NULL, stamp |-> NULL, at |-> 0]

Open    == [ino : Inodes \cup {NULL}, stamp : Stamps, at : Nat]
Entry   == [path : Paths, ino : Inodes, stamp : Stamps, checked : Nat,
            valid : {"none", "bad", "good"}]

TableTyped ==
  /\ now \in 0 .. MaxTime
  /\ disk \in [Paths -> File]
  /\ good \in [Inodes -> BOOLEAN]
  /\ goodAt \in [Inodes -> Int]
  /\ ofc \in [Paths -> Open \cup {NotOpened}]
  /\ slots \in [Slots -> Entry \cup {ZeroSlot}]
  /\ next \in Slots
  /\ count \in 0 .. NumSlots
  /\ last \in [ino : Inodes \cup {NULL}, valid : Nat]

CacheInit ==
  /\ now = 0
  /\ disk \in {d \in [Paths -> File] : \A p \in Paths : d[p].ino = NULL}
  /\ good \in [Inodes -> BOOLEAN]
  /\ goodAt = [i \in Inodes |-> IF good[i] THEN 0 ELSE -1]
  /\ ofc = [p \in Paths |-> NotOpened]
  /\ slots = [s \in Slots |-> ZeroSlot]
  /\ next = 0
  /\ count = 0
  /\ last = [ino |-> NULL, valid |-> 0]

-----------------------------------------------------------------------------
(* The table *)

\* Mutant: the lifetime's last second counts.
ExpiredLate(e, valid) ==
  /\ e.valid = "good"
  /\ now < e.checked \/ now - e.checked > valid

\* Only good verdicts expire, and at once in a location without a file cache.
Expired(e, valid) ==
  /\ e.valid = "good"
  /\ valid = 0 \/ now < e.checked \/ now - e.checked >= valid

Same(e, p, of) == /\ e.valid # "none"
                  /\ e.path = p /\ e.ino = of.ino /\ e.stamp = of.stamp

\* The slot cached_verdict() answers from, if any: the first one in the
\* populated prefix that is about this file and has not expired.
Hits(p, of, valid) ==
  {s \in Slots : /\ s < count
                 /\ Same(slots[s], p, of)
                 /\ ~ Expired(slots[s], valid)
                 /\ \A t \in Slots : t < s =>
                      ~ (Same(slots[t], p, of) /\ ~ Expired(slots[t], valid))}

\* Mutant: an expired verdict stays in the table.
ScannedKeepsExpired(p, of, valid) == slots

\* The scan drops the expired verdicts about this file it meets on its way.
Scanned(p, of, valid) ==
  [s \in Slots |->
     IF /\ s < count
        /\ \A h \in Hits(p, of, valid) : s < h
        /\ Same(slots[s], p, of)
        /\ Expired(slots[s], valid)
     THEN [slots[s] EXCEPT !.valid = "none"]
     ELSE slots[s]]

\* Mutant: the count is the number of verdicts held.
RememberCountsHeld(tab, p, of, verdict) ==
  /\ slots' = [tab EXCEPT ![next] =
                 [path |-> p, ino |-> of.ino, stamp |-> of.stamp,
                  checked |-> now, valid |-> verdict]]
  /\ count' = Cardinality({s \in Slots : slots'[s].valid # "none"})
  /\ next' = IF next + 1 = NumSlots THEN 0 ELSE next + 1

\* remember(): round robin; the count only grows.
Remember(tab, p, of, verdict) ==
  /\ slots' = [tab EXCEPT ![next] =
                 [path |-> p, ino |-> of.ino, stamp |-> of.stamp,
                  checked |-> now, valid |-> verdict]]
  /\ count' = IF tab[next].valid = "none" /\ count < NumSlots
              THEN count + 1 ELSE count
  /\ next' = IF next + 1 = NumSlots THEN 0 ELSE next + 1

-----------------------------------------------------------------------------
(* The handler *)

\* ngx_open_cached_file(): what stat() said no longer than `valid' ago.
Opened(p, valid) ==
  IF valid # 0 /\ ofc[p].ino # NULL /\ now - ofc[p].at < valid
  THEN [ino |-> ofc[p].ino, stamp |-> ofc[p].stamp]
  ELSE disk[p]

OfcAfter(p, valid) ==
  IF valid # 0 /\ (ofc[p].ino = NULL \/ now - ofc[p].at >= valid)
  THEN [ofc EXCEPT ![p] = [ino |-> disk[p].ino, stamp |-> disk[p].stamp,
                           at |-> now]]
  ELSE ofc

Serve(of, valid) == last' = [ino |-> of.ino, valid |-> valid]
Decline(valid)   == last' = [ino |-> NULL, valid |-> valid]

\* No sidecar; a directory or a file that cannot be opened ends alike.
Missing(p, valid) ==
  /\ Opened(p, valid).ino = NULL
  /\ ofc' = OfcAfter(p, valid)
  /\ Decline(valid)
  /\ UNCHANGED <<now, fileVars, tableVars>>

\* A verdict in the table decides without a probe.
CachedVerdict(p, valid) ==
  LET of == Opened(p, valid) IN
  /\ of.ino # NULL
  /\ \E s \in Hits(p, of, valid) :
       IF slots[s].valid = "good" THEN Serve(of, valid) ELSE Decline(valid)
  /\ slots' = Scanned(p, of, valid)
  /\ ofc' = OfcAfter(p, valid)
  /\ UNCHANGED <<now, fileVars, next, count>>

\* The probe finds a frame a browser accepts; the verdict is kept unless the
\* location has no file cache to bound it.
ProbeGood(p, valid) ==
  LET of == Opened(p, valid) IN
  /\ of.ino # NULL
  /\ Hits(p, of, valid) = {}
  /\ good[of.ino]
  /\ IF valid = 0
     THEN slots' = Scanned(p, of, valid) /\ UNCHANGED <<next, count>>
     ELSE Remember(Scanned(p, of, valid), p, of, "good")
  /\ Serve(of, valid)
  /\ ofc' = OfcAfter(p, valid)
  /\ UNCHANGED <<now, fileVars>>

ProbeBad(p, valid) ==
  LET of == Opened(p, valid) IN
  /\ of.ino # NULL
  /\ Hits(p, of, valid) = {}
  /\ ~ good[of.ino]
  /\ Remember(Scanned(p, of, valid), p, of, "bad")
  /\ Decline(valid)
  /\ ofc' = OfcAfter(p, valid)
  /\ UNCHANGED <<now, fileVars>>

\* A read error, or no memory for the aligned buffer: nothing is learnt.
ProbeFails(p, valid) ==
  LET of == Opened(p, valid) IN
  /\ of.ino # NULL
  /\ Hits(p, of, valid) = {}
  /\ slots' = Scanned(p, of, valid)
  /\ Decline(valid)
  /\ ofc' = OfcAfter(p, valid)
  /\ UNCHANGED <<now, fileVars, next, count>>

Handler(p, valid) ==
  \/ Missing(p, valid)
  \/ CachedVerdict(p, valid)
  \/ ProbeGood(p, valid)
  \/ ProbeBad(p, valid)
  \/ ProbeFails(p, valid)

-----------------------------------------------------------------------------
(* The world *)

Tick ==
  /\ now < MaxTime
  /\ now' = now + 1
  /\ goodAt' = [i \in Inodes |-> IF good[i] THEN now' ELSE goodAt[i]]
  /\ last' = [ino |-> NULL, valid |-> 0]
  /\ UNCHANGED <<disk, good, ofc, tableVars>>

\* A deployment rewrites a file in place; its stamp may or may not change.
Rewrite(p, stamp) ==
  /\ disk[p].ino # NULL
  /\ good' = [good EXCEPT ![disk[p].ino] = ~ @]
  /\ disk' = [disk EXCEPT ![p].stamp = stamp]
  /\ goodAt' = [goodAt EXCEPT ![disk[p].ino] = now]
  /\ last' = [ino |-> NULL, valid |-> 0]
  /\ UNCHANGED <<now, ofc, tableVars>>

\* A deployment renames another file into place, or removes the file.
Replace(p, ino) ==
  /\ \A q \in Paths : ino # NULL => disk[q].ino # ino
  /\ disk' = [disk EXCEPT ![p].ino = ino]
  /\ last' = [ino |-> NULL, valid |-> 0]
  /\ UNCHANGED <<now, good, goodAt, ofc, tableVars>>

CacheNext ==
  \/ \E p \in Paths, valid \in Lifetimes : Handler(p, valid)
  \/ Tick
  \/ \E p \in Paths, stamp \in Stamps : Rewrite(p, stamp)
  \/ \E p \in Paths, ino \in Inodes \cup {NULL} : Replace(p, ino)

CacheSpec == CacheInit /\ [][CacheNext]_cacheVars

-----------------------------------------------------------------------------
(* Properties *)

\* The table holds at most one verdict about a file: an expired one is gone
\* before its successor is remembered, whichever location's lifetime expired
\* it (static_module.c:896-909).  Two would let a stale verdict answer.
OneVerdictPerFile ==
  \A s, t \in Slots :
    /\ slots[s].valid # "none"
    /\ Same(slots[t], slots[s].path, slots[s])
    => s = t

\* Every verdict lies in the prefix cached_verdict() scans, also after holes
\* opened by expiry were filled again, and the cursor never leaves a gap
\* above it (static_module.c:184-189).
AllVerdictsScanned ==
  /\ \A s \in Slots : s >= count => slots[s].valid = "none"
  /\ next <= count

\* A file that went bad in place, with stamp and inode unchanged, is served
\* for less than the serving location's open_file_cache_valid, and never by a
\* location without a file cache (static_module.c:149-153).
StalenessBounded ==
  last.ino # NULL =>
    good[last.ino] \/ now - goodAt[last.ino] < last.valid

-----------------------------------------------------------------------------
(* The inductive invariant *)

\* What a good verdict and the clock say about the inode.
Truthful ==
  /\ \A i \in Inodes : goodAt[i] <= now /\ (good[i] => goodAt[i] = now)
  /\ \A s \in Slots : slots[s].valid = "good" =>
       slots[s].checked <= goodAt[slots[s].ino]

TableInv ==
  /\ TableTyped
  /\ OneVerdictPerFile
  /\ AllVerdictsScanned
  /\ Truthful
  /\ StalenessBounded
=============================================================================
