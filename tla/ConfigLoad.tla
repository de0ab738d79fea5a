------------------------------ MODULE ConfigLoad ------------------------------
(***************************************************************************)
(* One configuration load of the two modules: directives are parsed block  *)
(* by block in the order of the file, init_main_conf() looks at the whole, *)
(* merge_loc_conf() runs for every block below http{}, the request hooks   *)
(* are installed and the loaded libzstd is checked.  The configuration is  *)
(* then in force until its pool is destroyed; a load that fails destroys   *)
(* it at once.                                                             *)
(*                                                                         *)
(* How a dictionary is opened and read is DictFile's subject, what its     *)
(* parameters cost is that of DczProfiles.                                 *)
(***************************************************************************)
EXTENDS Integers, Sequences, SequencesExt, FiniteSetsExt

CONSTANTS
  Blocks,         \* http, its servers, their locations (and their "if"s)
  Http,           \* the http block
  Ifs,            \* those that are "if"s in a location
  Parent,         \* block -> the block around it
  Files,          \* what a file is written from: a set of directives by name
                  \* and value, and a bound on how many of them it contains
  Digest,         \* dictionary file -> the SHA-256 of its contents
  NoLiteral,      \* no hash in the directive
  BadLiteral,     \* one that is not 64 hex digits
  Threshold,      \* NGX_HTTP_ZSTD_DCZ_BSEARCH_THRESHOLD
  Build,          \* ZSTD_VERSION_NUMBER
  Runtimes        \* values of ZSTD_versionNumber()

UNSET        == -1        \* NGX_CONF_UNSET
LEVEL_UNSET  == -1000000  \* NGX_HTTP_ZSTD_LEVEL_UNSET: no level at all
DefaultLevel == 3
NoDict       == 0         \* conf->dict is NULL

\* The blocks around a block, itself included: the least set that has it and
\* the parents of what it has.
Around ==
  [b \in Blocks |->
     {x \in Blocks : \A S \in SUBSET Blocks :
        b \in S /\ (\A y \in S \ {Http} : Parent[y] \in S) => x \in S}]

ASSUME HttpIsTop ==
  /\ Http \in Blocks
  /\ \A b \in Blocks \ {Http} : Parent[b] \in Blocks \ {b}
  /\ \A b \in Blocks : Http \in Around[b]
  /\ Ifs \subseteq Blocks \ {Http}

\* What the directives' handlers accept: flags, the enumerations, a level
\* (never the sentinel: no libzstd has it), window logs and block sizes.  A
\* hash is a number, for memcmp() to order.
Directives ==
  [name : {"strict", "trust", "unsafe", "enable"}, value : {0, 1}]
    \cup [name : {"static"}, value : {0, 1, 2}]
    \cup [name : {"level"}, value : Int \ {LEVEL_UNSET}]
    \cup [name : {"window", "cblock"}, value : Nat]
    \cup [name : {"file"}, value : {1}]
    \cup [name : {"dcz"}, file : DOMAIN Digest, value : Int]

ASSUME FileTypes == Files \subseteq [of : SUBSET Directives, bound : Nat]

ASSUME HashTypes ==
  /\ Digest \in [DOMAIN Digest -> Int]
  /\ NoLiteral \in Int /\ BadLiteral \in Int

ASSUME VersionNumbers == Build \in Nat /\ Runtimes \subseteq Nat

VARIABLES
  phase,    \* "parse", "merge", "init", "run", "failed", "gone"
  at,       \* the block being parsed
  opened,   \* the blocks seen so far
  rest,     \* the rest of the file: some of which directives, how many
  main,     \* ngx_http_zstd_main_conf_t and its static counterpart
  loc,      \* block -> ngx_http_zstd_loc_conf_t
  merged,   \* the blocks merged so far
  declared, \* block -> what its own directives said
  cdicts,   \* the prepared dictionaries of zstd_dict_file, with their owner
  runtime,  \* ZSTD_versionNumber(), once it was asked
  hooks     \* what has been installed

vars == <<phase, at, opened, rest, main, loc, merged, declared, cdicts,
          runtime, hooks>>

NoList == [set |-> FALSE, list |-> <<>>]

\* create_main_conf()
NewMain ==
  [strict |-> UNSET, trust |-> UNSET, unsafe |-> UNSET, file |-> FALSE,
   unchecked |-> FALSE, verified |-> FALSE, any |-> FALSE, anyStatic |-> FALSE,
   negative |-> FALSE, cblock |-> FALSE, hashed |-> 0, shown |-> 0,
   buf |-> FALSE, bufStrict |-> FALSE]

\* create_loc_conf()
NewLoc ==
  [enable |-> UNSET, static |-> UNSET, level |-> LEVEL_UNSET, window |-> UNSET,
   cblock |-> UNSET, dicts |-> NoList, dict |-> NoDict]

Init ==
  /\ phase = "parse"
  /\ at = Http
  /\ opened = {Http}
  /\ rest \in Files
  /\ main = NewMain
  /\ loc = [b \in Blocks |-> NewLoc]
  /\ merged = {}
  /\ declared = [b \in Blocks |-> NewLoc]
  /\ cdicts = <<>>
  /\ runtime = 0
  /\ hooks = {}

Fail ==
  /\ phase' = "failed"
  /\ UNCHANGED <<at, opened, rest, main, loc, merged, declared, cdicts,
                 runtime, hooks>>

-----------------------------------------------------------------------------
(* Parsing *)

EnterBlock(b) ==
  /\ phase = "parse"
  /\ b \notin opened /\ Parent[b] = at
  /\ at' = b
  /\ opened' = opened \cup {b}
  /\ UNCHANGED <<phase, rest, main, loc, merged, declared, cdicts, runtime,
                 hooks>>

LeaveBlock ==
  /\ phase = "parse"
  /\ at # Http
  /\ at' = Parent[at]
  /\ UNCHANGED <<phase, opened, rest, main, loc, merged, declared, cdicts,
                 runtime, hooks>>

\* The parser calls a directive's handler.
Handle ==
  /\ phase = "parse"
  /\ rest.bound > 0
  /\ rest' = [rest EXCEPT !.bound = @ - 1]
  /\ UNCHANGED <<at, opened, merged, cdicts, runtime, hooks>>

\* A directive of the main configuration, in http{} only.
SetMain(field, v) ==
  /\ Handle
  /\ at = Http
  /\ main[field] = UNSET
  /\ main' = [main EXCEPT ![field] = v]
  /\ UNCHANGED <<phase, loc, declared>>

SetDictFile ==
  /\ Handle
  /\ at = Http
  /\ ~ main.file
  /\ main' = [main EXCEPT !.file = TRUE]
  /\ UNCHANGED <<phase, loc, declared>>

\* Mutant: only a location can enable the modules.
LatchInLocation(field, v) ==
  CASE field = "enable" -> [main EXCEPT !.any = @ \/ (v = 1 /\ at # Http)]
    [] field = "static" -> [main EXCEPT !.anyStatic = @ \/ v # 0]
    [] field = "level"  -> [main EXCEPT !.negative = @ \/ v < 0]
    [] field = "cblock" -> [main EXCEPT !.cblock = @ \/ v > 0]
    [] OTHER -> main

\* What a location's directive leaves in the main configuration: set by any
\* value that enables, cleared by none.
Latch(field, v) ==
  CASE field = "enable" -> [main EXCEPT !.any = @ \/ v = 1]
    [] field = "static" -> [main EXCEPT !.anyStatic = @ \/ v # 0]
    [] field = "level"  -> [main EXCEPT !.negative = @ \/ v < 0]
    [] field = "cblock" -> [main EXCEPT !.cblock = @ \/ v > 0]
    [] OTHER -> main

Unset(field) == IF field = "level" THEN LEVEL_UNSET ELSE UNSET

\* set_enable_slot(), set_num_slot_with_negatives() and their like.  Only
\* "zstd" may stand in an "if".
SetLoc(field, v) ==
  /\ Handle
  /\ at \in Ifs => field = "enable"
  /\ loc[at][field] = Unset(field)
  /\ loc' = [loc EXCEPT ![at][field] = v]
  /\ declared' = [declared EXCEPT ![at][field] = v]
  /\ main' = Latch(field, v)
  /\ UNCHANGED phase

\* "is duplicate"
Duplicate(d) ==
  /\ phase = "parse" /\ rest.bound > 0
  /\ d.name \in {"strict", "trust", "unsafe"} => at = Http /\ main[d.name] # UNSET
  /\ d.name \in {"enable", "static", "level", "window", "cblock"} =>
       loc[at][d.name] # Unset(d.name)
  /\ d.name = "file" => at = Http /\ main.file
  /\ d.name # "dcz"
  /\ Fail

\* The hash a dictionary goes by, and whether it is taken on trust.
OnTrust(literal) == literal # NoLiteral /\ main.trust = 1
HashOf(f, literal) == IF OnTrust(literal) THEN literal ELSE Digest[f]

\* Mutant: a literal is not compared.
DczRefusedUnverified(f, literal) ==
  \/ literal = BadLiteral
  \/ \E k \in DOMAIN loc[at].dicts.list :
       loc[at].dicts.list[k].hash = HashOf(f, literal)

\* A malformed literal, one that the file does not match, and a hash that the
\* block has already.
DczRefused(f, literal) ==
  \/ literal = BadLiteral
  \/ literal # NoLiteral /\ ~ OnTrust(literal) /\ literal # Digest[f]
  \/ \E k \in DOMAIN loc[at].dicts.list :
       loc[at].dicts.list[k].hash = HashOf(f, literal)

\* What zstd_dcz_dict_file notes for init_main_conf() to find.
DczMain(literal) ==
  [main EXCEPT !.unchecked = @ \/ main.strict # 1,
               !.verified = @ \/ (literal # NoLiteral /\ main.trust # 1),
               !.hashed = IF OnTrust(literal) THEN @ ELSE @ + 1]

DczDictFile(f, literal) ==
  LET entry == [file |-> f, hash |-> HashOf(f, literal),
                strict |-> main.strict = 1, literal |-> literal]
      push(c) == [c EXCEPT !.dicts = [set |-> TRUE, list |-> Append(@.list, entry)]]
  IN /\ Handle
     /\ at \notin Ifs
     /\ ~ DczRefused(f, literal)
     /\ main' = DczMain(literal)
     /\ loc' = [loc EXCEPT ![at] = push(@)]
     /\ declared' = [declared EXCEPT ![at] = push(@)]
     /\ UNCHANGED phase

\* Refused, or it could not be opened or read.
DczFails ==
  /\ phase = "parse" /\ rest.bound > 0
  /\ Fail

-----------------------------------------------------------------------------
(* init_main_conf() *)

\* Mutant: the strict rule may come late, the trust may not.
MainConfBadStrictLate ==
  \/ main.trust = 1 /\ main.verified
  \/ main.file /\ main.unsafe # 1

\* A switch that came after a dictionary it should have applied to; a
\* non-standard dictionary nobody has answered for.
MainConfBad ==
  \/ main.strict = 1 /\ main.unchecked
  \/ main.trust = 1 /\ main.verified
  \/ main.file /\ main.unsafe # 1

InitMainConfFails ==
  /\ phase = "parse" /\ at = Http
  /\ MainConfBad
  /\ Fail

InitMainConf ==
  /\ phase = "parse" /\ at = Http
  /\ ~ MainConfBad
  /\ phase' = "merge"
  /\ main' = [main EXCEPT !.shown = main.hashed,
                          !.strict = IF @ = UNSET THEN 0 ELSE @,
                          !.trust  = IF @ = UNSET THEN 0 ELSE @]
  /\ UNCHANGED <<at, opened, rest, loc, merged, declared, cdicts, runtime, hooks>>

-----------------------------------------------------------------------------
(* merge_loc_conf() *)

\* ngx_conf_merge_value()
Inherit(own, outer, default) ==
  IF own # UNSET THEN own ELSE IF outer # UNSET THEN outer ELSE default

\* Mutant: the stock macro, to which -1 is no value.
InheritLevelStock(own, outer) ==
  LET known(l) == IF l = LEVEL_UNSET THEN UNSET ELSE l
  IN Inherit(known(own), known(outer), DefaultLevel)

\* By hand, since -1 is a level.
InheritLevel(own, outer) ==
  IF own # LEVEL_UNSET THEN own
  ELSE IF outer # LEVEL_UNSET THEN outer ELSE DefaultLevel

\* dcz_dict_sort(), by hash.  No list has a hash twice, so that an entry's
\* place is one behind those with a smaller one.
DczDictSort(list) ==
  [k \in DOMAIN list |->
     CHOOSE e \in ToSet(list) :
       Cardinality({x \in ToSet(list) : x.hash < e.hash}) = k - 1]

\* Mutant: the list is left as it was declared.
MergeDictsUnsorted(own, outer) == IF own.set THEN own ELSE outer

\* The block's own list, sorted once; else the outer one as it is.
MergeDicts(own, outer) ==
  IF own.set THEN [own EXCEPT !.list = DczDictSort(@)] ELSE outer

Inherited(b) ==
  LET c == loc[b]
      p == loc[Parent[b]]
  IN [enable |-> Inherit(c.enable, p.enable, 0),
      static |-> Inherit(c.static, p.static, 0),
      level  |-> InheritLevel(c.level, p.level),
      window |-> Inherit(c.window, p.window, 0),
      cblock |-> Inherit(c.cblock, p.cblock, 0),
      dicts  |-> MergeDicts(c.dicts, p.dicts),
      dict   |-> NoDict]

\* Servers before their locations; the outermost block is never a child.
Mergeable(b) ==
  /\ phase = "merge"
  /\ b \in opened \ (merged \cup {Http})
  /\ Parent[b] \in merged \cup {Http}

\* Does the location need a prepared dictionary of zstd_dict_file?
Wants(c) == c.enable = 1 /\ main.file

\* Mutant: any prepared dictionary will do.
SharedAny(c) == {k \in DOMAIN cdicts : cdicts[k].registered}

\* The registry's entries for the location's parameters.
Shared(c) ==
  {k \in DOMAIN cdicts : /\ cdicts[k].registered
                         /\ cdicts[k].level = c.level
                         /\ cdicts[k].window = c.window}

MergeLocConf(b) ==
  LET c == Inherited(b) IN
  /\ Mergeable(b)
  /\ Wants(c) => Shared(c) # {}
  /\ loc' = [loc EXCEPT ![b] =
               IF Wants(c) THEN [c EXCEPT !.dict = Min(Shared(c))] ELSE c]
  /\ merged' = merged \cup {b}
  /\ UNCHANGED <<phase, at, opened, rest, main, declared, cdicts, runtime, hooks>>

\* The file is read once a cycle.
ReadDictFile ==
  main' = [main EXCEPT !.buf = TRUE,
                       !.bufStrict = IF main.buf THEN @ ELSE main.strict = 1]

NewCDict(c, live, owned, registered) ==
  Append(cdicts, [level |-> c.level, window |-> c.window, live |-> live,
                  owned |-> owned, registered |-> registered])

MergeCreates(b) ==
  LET c == Inherited(b) IN
  /\ Mergeable(b)
  /\ Wants(c) /\ Shared(c) = {}
  /\ ReadDictFile
  /\ cdicts' = NewCDict(c, TRUE, TRUE, TRUE)
  /\ loc' = [loc EXCEPT ![b] = [c EXCEPT !.dict = Len(cdicts) + 1]]
  /\ merged' = merged \cup {b}
  /\ UNCHANGED <<phase, at, opened, rest, declared, runtime, hooks>>

\* Mutant: a dictionary without a cleanup is left behind.
CreateFailuresLeak(c) ==
  {NewCDict(c, TRUE, FALSE, FALSE), NewCDict(c, TRUE, TRUE, FALSE),
   NewCDict(c, TRUE, TRUE, TRUE)}

\* No cleanup could be added: the dictionary is freed.  The registry could
\* not grow: the pool owns it.  It is there and registered, but the buffers
\* were refused before it was built, or the memory budget after.
CreateFailures(c) ==
  {NewCDict(c, FALSE, FALSE, FALSE), NewCDict(c, TRUE, TRUE, FALSE),
   NewCDict(c, TRUE, TRUE, TRUE)}

MergeCreateFails(b) ==
  LET c == Inherited(b) IN
  /\ Mergeable(b)
  /\ Wants(c) /\ Shared(c) = {}
  /\ ReadDictFile
  /\ cdicts' \in CreateFailures(c)
  /\ phase' = "failed"
  /\ UNCHANGED <<at, opened, rest, loc, merged, declared, runtime, hooks>>

\* No dictionary was built: bad types, a bad file, libzstd out of memory; or
\* none was needed, and the buffers or the memory budget were refused.
MergeFails(b) ==
  /\ Mergeable(b)
  /\ Fail

-----------------------------------------------------------------------------
(* Hooks, the library, and the end *)

\* filter_init() and static_init()
PostConfiguration ==
  /\ phase = "merge"
  /\ merged = opened \ {Http}
  /\ phase' = "init"
  /\ hooks' = (IF main.any THEN {"filter"} ELSE {})
                \cup (IF main.anyStatic THEN {"static"} ELSE {})
  /\ UNCHANGED <<at, opened, rest, main, loc, merged, declared, cdicts, runtime>>

\* version_policy(): the library lacks what the configuration relies on.
VersionRefused(version) ==
  /\ Build # version
  /\ \/ Build >= 10506 /\ version < 10506 /\ main.cblock
     \/ Build >= 10400 /\ version < 10400 /\ main.negative

InitModule ==
  /\ phase = "init"
  /\ runtime' \in Runtimes
  /\ phase' = IF VersionRefused(runtime') THEN "failed" ELSE "run"
  /\ UNCHANGED <<at, opened, rest, main, loc, merged, declared, cdicts, hooks>>

\* The pool is destroyed: with the cycle, or because the load has failed.
DestroyPool ==
  /\ phase \in {"run", "failed"}
  /\ phase' = "gone"
  /\ cdicts' = [k \in DOMAIN cdicts |->
                  [cdicts[k] EXCEPT !.live = @ /\ ~ cdicts[k].owned]]
  /\ UNCHANGED <<at, opened, rest, main, loc, merged, declared, runtime, hooks>>

Parse ==
  \/ \E b \in Blocks \ {Http} : EnterBlock(b)
  \/ LeaveBlock
  \/ \E d \in rest.of :
       \/ d.name \in {"strict", "trust", "unsafe"} /\ SetMain(d.name, d.value)
       \/ d.name = "file" /\ SetDictFile
       \/ /\ d.name \in {"enable", "static", "level", "window", "cblock"}
          /\ SetLoc(d.name, d.value)
       \/ d.name = "dcz" /\ DczDictFile(d.file, d.value)
       \/ d.name = "dcz" /\ DczFails
       \/ Duplicate(d)

Next ==
  \/ Parse
  \/ InitMainConfFails
  \/ InitMainConf
  \/ \E b \in Blocks \ {Http} :
       MergeLocConf(b) \/ MergeCreates(b) \/ MergeCreateFails(b) \/ MergeFails(b)
  \/ PostConfiguration
  \/ InitModule
  \/ DestroyPool
  \/ phase = "gone" /\ UNCHANGED vars

Spec == Init /\ [][Next]_vars

-----------------------------------------------------------------------------
(* The lookup at request time *)

\* dcz_dict_lookup(): the entry found, 0 for none.  A range is its first and
\* its last place.
Ranges(list) == (1 .. Len(list) + 1) \X (0 .. Len(list))
Mid(r) == (r[1] + r[2]) \div 2

\* Where to go on when the entry in the middle is not it.
Half(list, hash, r) ==
  IF list[Mid(r)].hash < hash THEN <<Mid(r) + 1, r[2]>> ELSE <<r[1], Mid(r) - 1>>

Bisect(list, hash) ==
  LET search[r \in Ranges(list)] ==
        IF r[1] > r[2] THEN 0
        ELSE IF list[Mid(r)].hash = hash THEN Mid(r)
        ELSE search[Half(list, hash, r)]
  IN search[<<1, Len(list)>>]

Scan(list, hash) == SelectInSeq(list, LAMBDA e : e.hash = hash)

Lookup(list, hash) ==
  IF Len(list) > Threshold THEN Bisect(list, hash) ELSE Scan(list, hash)

-----------------------------------------------------------------------------
(* Properties *)

Locations == merged
Entries(b) == ToSet(loc[b].dicts.list)
AllEntries == UNION {ToSet(declared[b].dicts.list) : b \in Blocks}

\* With zstd_dict_strict_path on, wherever in http{} it was written, every
\* dictionary in force was opened by the walk (filter_module.c:4122-4149).
StrictCoversAll ==
  phase = "run" /\ main.strict = 1 =>
    /\ \A e \in AllEntries : e.strict
    /\ main.buf => main.bufStrict

\* Is this entry's hash one that the load computed?
Hashed(e) == main.trust # 1 \/ e.literal = NoLiteral

\* Where those are, by block and place.
HashedEntries ==
  UNION {{b} \X {k \in DOMAIN declared[b].dicts.list :
                   Hashed(declared[b].dicts.list[k])} : b \in Blocks}

\* A dictionary goes by the hash of its contents, or by a literal the
\* operator wanted trusted (filter_module.c:6487-6542, :6616-6662).
EntriesVouchedFor ==
  phase = "run" =>
    \A e \in AllEntries :
      IF Hashed(e)
      THEN e.hash = Digest[e.file] /\ e.literal \in {NoLiteral, e.hash}
      ELSE e.hash = e.literal

\* That, and with trust on no literal was hashed all the same:
\* $zstd_dcz_dicts_hashed is the number of those that were
\* (filter_module.c:6616-6662).
HashIsVouchedFor ==
  /\ EntriesVouchedFor
  /\ phase = "run" => main.shown = Cardinality(HashedEntries)

\* The block nearest to b, outwards, of those that say something.
Innermost(blocks) ==
  IF blocks = {} THEN Http
  ELSE CHOOSE x \in blocks : blocks \subseteq Around[x]
Nearest(b, saying) == Innermost(Around[b] \cap saying)

\* The settings that ngx_conf_merge_value() and its like merge, all of which
\* default to zero.
MacroMerged == {"enable", "static", "window", "cblock"}

\* The blocks that have a directive of their own.
Says(field) == {x \in Blocks : declared[x][field] # UNSET}
LevelSet    == {x \in Blocks : declared[x].level # LEVEL_UNSET}
ListSet     == {x \in Blocks : declared[x].dicts.set}

\* zstd, zstd_static, zstd_comp_level, zstd_window_log and
\* zstd_target_cblock_size are for a location what the nearest block around it
\* says, or the default; a list of dictionaries replaces the outer one, and
\* none holds a hash twice (filter_module.c:5138-5190, :6664-6684,
\* static_module.c:1965-1972).
MergedIsNearest ==
  phase = "run" =>
    \A b \in Locations :
      LET said(field) == declared[Nearest(b, Says(field))][field]
          level == declared[Nearest(b, LevelSet)].level
          dicts == declared[Nearest(b, ListSet)].dicts
      IN /\ \A field \in MacroMerged :
              loc[b][field] = IF said(field) = UNSET THEN 0 ELSE said(field)
         /\ loc[b].level = IF level = LEVEL_UNSET THEN DefaultLevel ELSE level
         /\ Entries(b) = ToSet(dicts.list)
         /\ Len(loc[b].dicts.list) = Len(dicts.list)
         /\ \A e, f \in Entries(b) : e.hash = f.hash => e = f

\* A client that has a dictionary of the location's finds it, when a server
\* or a location declares the list (filter_module.c:2084-2181).
ServerListFound ==
  phase = "run" =>
    \A b \in Locations :
      Nearest(b, ListSet) \in ListSet \ {Http} =>
      \A e \in Entries(b) :
        LET k == Lookup(loc[b].dicts.list, e.hash)
        IN k # 0 /\ loc[b].dicts.list[k] = e

\* "above it, dcz_dicts is sorted by hash at merge-config time
\* (ngx_http_zstd_dcz_dict_cmp()) and a binary search wins"
\* (filter_module.c:2129-2133): so every list in force is found in, that of
\* http{} too.
EveryListFound ==
  phase = "run" =>
    \A b \in Locations : \A e \in Entries(b) :
      Lookup(loc[b].dicts.list, e.hash) # 0

\* No location is enabled without the hook that serves it, and none relies on
\* what the loaded library does not have, however the setting reached it
\* (filter_module.c:5811-5826, static_module.c:2072-2083,
\* ngx_http_zstd_version.h:12-29).
EnabledIsServed ==
  phase = "run" =>
    \A b \in Locations :
      /\ loc[b].enable = 1 => "filter" \in hooks
      /\ loc[b].static > 0 => "static" \in hooks
      /\ Build >= 10400 /\ loc[b].level < 0 => runtime >= 10400
      /\ Build >= 10506 /\ loc[b].cblock > 0 => runtime >= 10506

\* An enabled location compresses with a live dictionary prepared for its own
\* level and window; there is one for each (filter_module.c:5281-5291).
DictOfOwnProfile ==
  phase = "run" =>
    /\ \A b \in Locations :
         IF Wants(loc[b])
         THEN LET k == loc[b].dict IN
              /\ k # NoDict
              /\ cdicts[k].live
              /\ cdicts[k].level = loc[b].level
              /\ cdicts[k].window = loc[b].window
         ELSE loc[b].dict = NoDict
    /\ \A j, k \in DOMAIN cdicts :
         cdicts[j].level = cdicts[k].level /\ cdicts[j].window = cdicts[k].window
           => j = k

\* Every prepared dictionary is freed once: with its pool, or before by the
\* step that failed (filter_module.c:5448-5483).
DictsFreedOnce ==
  /\ \A k \in DOMAIN cdicts : cdicts[k].owned /\ phase # "gone" => cdicts[k].live
  /\ phase = "gone" => \A k \in DOMAIN cdicts : ~ cdicts[k].live
=============================================================================
