----------------------------- MODULE DczProfiles -----------------------------
(***************************************************************************)
(* The compression profile of a response in ngx_http_zstd_filter_module.c: *)
(* the window log a dictionary (dcz) response derives from its dictionary  *)
(* and body, the memory budget that caps it, the key under which a worker  *)
(* keeps the context, and the dictionaries prepared at configuration load. *)
(*                                                                         *)
(* A configuration is loaded location by location (the second half of      *)
(* merge_loc_conf()); then requests run.  Windows, levels and key fields   *)
(* have their real ranges; size_t is scaled down to SizeMax.  What libzstd *)
(* estimates and measures is given by constant operators.                  *)
(***************************************************************************)
EXTENDS Integers, Sequences, FiniteSetsExt

CONSTANTS
  Confs,          \* merged location configurations
  Locations,      \* how many are loaded
  Pledges,        \* Content-Length, negative when unknown
  DictLen,        \* the length of each dictionary
  SizeMax,        \* SIZE_MAX
  Guess,          \* NGX_HTTP_ZSTD_UNKNOWN_SIZE_GUESS
  CacheBytes,     \* NGX_HTTP_ZSTD_DCZ_CDICT_CACHE_BYTES
  DefaultLog(_),  \* libzstd: the window log of a level
  Workspace(_, _, _),  \* libzstd: ZSTD_estimateCStreamSize(level, long, wlog)
  CDictEstimate(_, _, _),  \* libzstd: (dictionary, level, wlog)
  CDictSize(_, _, _),
  NULL

MinLog == 10    \* NGX_HTTP_ZSTD_DCZ_MIN_WINDOW_LOG
MaxLog == 23    \* NGX_HTTP_ZSTD_DCZ_MAX_WINDOW_LOG
LdmLog == 27    \* NGX_HTTP_ZSTD_LDM_WINDOWLOG
UNSET  == -1    \* NGX_CONF_UNSET

Dicts  == DOMAIN DictLen
Levels == {c.level : c \in Confs}

\* What a merged location holds before its window cap is fixed.
ASSUME ConfTypes ==
  Confs \subseteq [enable : BOOLEAN, level : Int, long : BOOLEAN, cblock : Nat,
                  windowLog : {0} \cup MinLog .. 31, budget : Int, cap : {0},
                  dicts : Seq(Dicts)]

\* A length is a size_t; a Content-Length may be anything.
ASSUME SizeWidth ==
  /\ SizeMax \in Nat /\ 2 ^ MaxLog <= SizeMax
  /\ DictLen \in [Dicts -> Nat]
  /\ Guess \in Nat /\ CacheBytes \in Nat /\ Locations \in Nat
  /\ Pledges \subseteq Int

\* libzstd needs no less memory for a larger window.
ASSUME WorkspaceMonotone ==
  \A l \in Levels, long \in BOOLEAN :
    \A v \in MinLog .. 31, w \in MinLog .. 31 :
      /\ Workspace(l, long, v) \in Nat
      /\ v <= w => Workspace(l, long, v) <= Workspace(l, long, w)

\* The window log libzstd has for a level is within its own bounds.
ASSUME WindowBounds == \A l \in Levels : DefaultLog(l) \in MinLog .. 31

ASSUME CDictSizes ==
  \A d \in Dicts, l \in Levels, w \in MinLog .. MaxLog : CDictSize(d, l, w) \in Nat

ASSUME NullIsDistinct ==
  /\ NULL \notin Dicts
  /\ NULL \notin [dict : Dicts, level : Levels, w : MinLog .. MaxLog]

VARIABLES
  phase,     \* "load", "build", "run", "failed"
  confs,     \* the locations loaded
  cursor,    \* build_cdicts(): the dictionary and window it is at
  cdicts,    \* the prepared dictionaries, by dictionary
  bytes,     \* zmcf->dcz_cdict_bytes
  skipped,   \* the profiles left unprepared for want of room
  slot,      \* a worker's cached context: [key, params]
  req        \* the latest request

vars == <<phase, confs, cursor, cdicts, bytes, skipped, slot, req>>

-----------------------------------------------------------------------------
(* Window arithmetic *)

\* 64 minus the leading zeros.
BitLength(x) == CHOOSE n \in 1 .. 31 : 2 ^ (n - 1) <= x /\ x < 2 ^ n

CeilLog2(x) ==
  IF x <= 2 ^ MinLog THEN MinLog
  ELSE IF x > 2 ^ MaxLog THEN MaxLog
  ELSE IF x = 2 ^ (BitLength(x) - 1) THEN BitLength(x) - 1 ELSE BitLength(x)

Capped(w, cap) == IF cap > 0 /\ cap < w THEN cap ELSE w

\* Mutant: the sum wraps around.
RequiredWraps(len, pledged) ==
  (len + IF pledged < 0 THEN Guess ELSE pledged) % (SizeMax + 1)

\* Dictionary and body, saturated: off_t may be wider than size_t, and the
\* sum may not fit it.
Required(len, pledged) ==
  LET body == IF pledged < 0 THEN Guess
              ELSE IF pledged > SizeMax THEN SizeMax ELSE pledged
  IN IF len + body > SizeMax THEN SizeMax ELSE len + body

DczWindowLog(len, pledged, windowLog, budgetCap) ==
  LET w == Capped(Capped(CeilLog2(Required(len, pledged)), windowLog),
                  budgetCap)
  IN IF w < MinLog THEN MinLog ELSE w

\* The windows a dictionary may meet at request time.
FirstWindow(d, c) == DczWindowLog(DictLen[d], 0, c.windowLog, c.cap)

\* Mutant: the upper end is that of a body of unknown size.
LastWindowOfGuess(d, c) == DczWindowLog(DictLen[d], -1, c.windowLog, c.cap)

LastWindow(d, c)  == DczWindowLog(DictLen[d], 2 ^ MaxLog, c.windowLog, c.cap)

-----------------------------------------------------------------------------
(* The memory budget *)

\* ZSTD_CCtx_params as estimate_cctx_memory() fills them in: long distance
\* matching sets the window, and no window means the level's.
EffectiveWindow(c, w) ==
  IF w > 0 THEN w ELSE IF c.long THEN LdmLog ELSE DefaultLog(c.level)

Estimate(c, w) == Workspace(c.level, c.long, EffectiveWindow(c, w))

HasBudget(c) == c.budget # UNSET /\ c.budget > 0

\* Mutant: the first window that does not fit.
WindowCapOneHigh(c) ==
  IF ~ HasBudget(c) THEN 0
  ELSE LET fits == {w \in MinLog .. MaxLog : Estimate(c, w) <= c.budget}
       IN IF fits = {} THEN MinLog
          ELSE IF MaxLog \in fits THEN MaxLog
          ELSE 1 + CHOOSE w \in fits : \A v \in fits : v <= w

\* dcz_window_cap(): the largest window that fits, 0 without a budget.
WindowCap(c) ==
  IF ~ HasBudget(c) THEN 0
  ELSE LET fits == {w \in MinLog .. MaxLog : Estimate(c, w) <= c.budget}
       IN IF fits = {} THEN MinLog
          ELSE CHOOSE w \in fits : \A v \in fits : v <= w

-----------------------------------------------------------------------------
(* The key *)

LevelBias == 131072       \* 2^17
LevelMax  == 262143       \* 18 bits
WlogMax   == 63           \* 6 bits
WlogShift == 262144       \* 2^18
LongShift == 16777216     \* 2^24
INVALID   == 1073741824   \* NGX_HTTP_ZSTD_PROFILE_INVALID: a bit no key has

\* Mutant: the window is shifted by too little.
ProfilePackOverlap(level, long, w) ==
  (level + LevelBias) + w * 131072 + (IF long THEN LongShift ELSE 0)

\* profile_pack(): the fields lie side by side.
ProfilePack(level, long, w) ==
  IF \/ level < - LevelBias \/ level + LevelBias > LevelMax
     \/ w < 0 \/ w > WlogMax
  THEN INVALID
  ELSE (level + LevelBias) + w * WlogShift + (IF long THEN LongShift ELSE 0)

\* profile_unpack()
ProfileUnpack(key) ==
  [level |-> (key % WlogShift) - LevelBias,
   w     |-> (key \div WlogShift) % (WlogMax + 1),
   long  |-> (key \div LongShift) % 2 = 1]

-----------------------------------------------------------------------------
(* Configuration load *)

NoSlot    == [key |-> INVALID, level |-> 0, long |-> FALSE, w |-> 0]
NoRequest == [conf |-> NULL, dict |-> NULL, pledged |-> 0, w |-> 0,
              cdict |-> NULL, reused |-> FALSE]

Init ==
  /\ phase = "load"
  /\ confs = <<>>
  /\ cursor = [i |-> 1, w |-> 0]
  /\ cdicts = [d \in Dicts |-> {}]
  /\ bytes = 0
  /\ skipped = {}
  /\ slot = NoSlot
  /\ req = NoRequest

runVars == <<slot, req>>

\* The location in the making.
Conf == confs[Len(confs)]

\* Does build_cdicts() have anything to do?
Preparable(c) == c.enable /\ c.dicts # <<>> /\ ~ c.long /\ c.cblock = 0

\* The budget is checked for the configured window; the location is refused.
OverBudget(c) ==
  /\ phase = "load"
  /\ Len(confs) < Locations
  /\ c.enable /\ HasBudget(c)
  /\ Estimate(c, c.windowLog) > c.budget
  /\ phase' = "failed"
  /\ UNCHANGED <<confs, cursor, cdicts, bytes, skipped, runVars>>

\* A location within its budget: the cap is fixed before build_cdicts().
MergeLocation(c) ==
  LET merged == [c EXCEPT !.cap = IF c.enable THEN WindowCap(c) ELSE 0] IN
  /\ phase = "load"
  /\ Len(confs) < Locations
  /\ c.enable /\ HasBudget(c) => Estimate(c, c.windowLog) <= c.budget
  /\ confs' = Append(confs, merged)
  /\ IF Preparable(c)
     THEN /\ phase' = "build"
          /\ cursor' = [i |-> 1, w |-> FirstWindow(c.dicts[1], merged)]
     ELSE UNCHANGED <<phase, cursor>>
  /\ UNCHANGED <<cdicts, bytes, skipped, runVars>>

\* cdict_lookup()
Lookup(d, c, w) ==
  IF c.long \/ c.cblock > 0 THEN {}
  ELSE {e \in cdicts[d] : e.level = c.level /\ e.w = w}

Dict == Conf.dicts[cursor.i]

\* The loops over dictionaries and windows.
Advance ==
  IF cursor.w < LastWindow(Dict, Conf)
  THEN cursor' = [cursor EXCEPT !.w = @ + 1] /\ UNCHANGED phase
  ELSE IF cursor.i < Len(Conf.dicts)
  THEN /\ cursor' = [i |-> cursor.i + 1,
                     w |-> FirstWindow(Conf.dicts[cursor.i + 1], Conf)]
       /\ UNCHANGED phase
  ELSE phase' = "load" /\ cursor' = [i |-> 1, w |-> 0]

AlreadyPrepared ==
  /\ phase = "build"
  /\ Lookup(Dict, Conf, cursor.w) # {}
  /\ Advance
  /\ UNCHANGED <<confs, cdicts, bytes, skipped, runVars>>

\* Room by the estimate, and by the size it turned out to have.
Room == CacheBytes - bytes
Estimated == CDictEstimate(Dict, Conf.level, cursor.w)
Measured  == CDictSize(Dict, Conf.level, cursor.w)

SkipPrepared ==
  /\ phase = "build"
  /\ Lookup(Dict, Conf, cursor.w) = {}
  /\ Estimated > Room \/ Measured > Room
  /\ skipped' = skipped \cup {<<Dict, Conf.level, cursor.w>>}
  /\ Advance
  /\ UNCHANGED <<confs, cdicts, bytes, runVars>>

Prepare ==
  /\ phase = "build"
  /\ Lookup(Dict, Conf, cursor.w) = {}
  /\ Estimated <= Room /\ Measured <= Room
  /\ cdicts' = [cdicts EXCEPT ![Dict] =
                  @ \cup {[dict |-> Dict, level |-> Conf.level, w |-> cursor.w]}]
  /\ bytes' = bytes + Measured
  /\ Advance
  /\ UNCHANGED <<confs, skipped, runVars>>

\* libzstd or the pool is out of memory: what was created is freed.
PrepareFails ==
  /\ phase = "build"
  /\ Lookup(Dict, Conf, cursor.w) = {}
  /\ Estimated <= Room
  /\ phase' = "failed"
  /\ UNCHANGED <<confs, cursor, cdicts, bytes, skipped, runVars>>

Start ==
  /\ phase = "load"
  /\ Len(confs) = Locations
  /\ phase' = "run"
  /\ UNCHANGED <<confs, cursor, cdicts, bytes, skipped, runVars>>

-----------------------------------------------------------------------------
(* Requests *)

\* acquire_cctx() and filter_init_cctx(): the effective window is the key's,
\* the parameter's and the lookup's.
Respond(c, d, pledged) ==
  LET w == IF d = NULL THEN c.windowLog
           ELSE DczWindowLog(DictLen[d], pledged, c.windowLog, c.cap)
      key == ProfilePack(c.level, c.long, w)
      found == IF d = NULL THEN {} ELSE Lookup(d, c, w)
  IN /\ phase = "run"
     /\ c.enable
     /\ req' = [conf |-> c, dict |-> d, pledged |-> pledged, w |-> w,
                cdict |-> IF found = {} THEN NULL ELSE CHOOSE e \in found : TRUE,
                reused |-> slot # NoSlot /\ slot.key = key]
     /\ slot' = IF slot = NoSlot /\ key # INVALID
                THEN [key |-> key, level |-> c.level, long |-> c.long, w |-> w]
                ELSE slot
     /\ UNCHANGED <<phase, confs, cursor, cdicts, bytes, skipped>>

Next ==
  \/ \E c \in Confs : OverBudget(c) \/ MergeLocation(c)
  \/ AlreadyPrepared
  \/ SkipPrepared
  \/ Prepare
  \/ PrepareFails
  \/ Start
  \/ \E i \in 1 .. Len(confs), pledged \in Pledges :
       \/ Respond(confs[i], NULL, pledged)
       \/ \E k \in 1 .. Len(confs[i].dicts) :
            Respond(confs[i], confs[i].dicts[k], pledged)

Spec == Init /\ [][Next]_vars

-----------------------------------------------------------------------------
(* Properties *)

\* The window of a dictionary response spans dictionary and body unless a
\* ceiling forbids it, and is no larger than that takes.  The right-hand side
\* has no widths: nothing wraps (filter_module.c:329-353).
WindowSpansDictionary ==
  req.dict # NULL =>
    LET need == DictLen[req.dict]
                  + IF req.pledged < 0 THEN Guess ELSE req.pledged
    IN /\ \/ 2 ^ req.w >= need
          \/ req.w \in {MaxLog, req.conf.windowLog, req.conf.cap}
       /\ req.w = MinLog \/ 2 ^ (req.w - 1) < need

\* Every response, with a dictionary or without, compresses within the budget
\* its location was accepted with (filter_module.c:4934-4955, :5585-5634).
ResponseBudget ==
  req.conf # NULL /\ HasBudget(req.conf) =>
    Estimate(req.conf, req.w) <= req.conf.budget

\* What prepared dictionaries measure, one and all.
SizeOf(e) == CDictSize(e.dict, e.level, e.w)
SizeOfAll(entries) == MapThenSumSet(SizeOf, entries)

\* Responses keep their budget, and the prepared dictionaries of a cycle, as
\* measured, keep theirs, their bytes counted exactly
\* (filter_module.c:6338-6386).
BudgetHeld ==
  /\ ResponseBudget
  /\ bytes <= CacheBytes
  /\ bytes = SizeOfAll(UNION {cdicts[d] : d \in Dicts})

\* A cached context is reused only for the parameters it was created for, and
\* a prepared dictionary stands for exactly what the request would have set
\* itself: the dictionary, the level and the window, and nothing that cannot
\* be prepared (filter_module.c:1226-1257, :6216-6240).
MadeForTheRequest ==
  /\ req.reused => /\ slot.level = req.conf.level
                   /\ slot.long = req.conf.long
                   /\ slot.w = req.w
                   /\ ProfileUnpack(slot.key) =
                        [level |-> slot.level, long |-> slot.long, w |-> slot.w]
  /\ req.cdict # NULL =>
       /\ req.cdict = [dict |-> req.dict, level |-> req.conf.level, w |-> req.w]
       /\ ~ req.conf.long /\ req.conf.cblock = 0

\* Load has prepared every window a request can ask for, except those the
\* cache had no room for (filter_module.c:381-390).
PreparedForEveryRequest ==
  req.dict # NULL /\ req.cdict = NULL =>
    \/ req.conf.long
    \/ req.conf.cblock > 0
    \/ <<req.dict, req.conf.level, req.w>> \in skipped

=============================================================================
