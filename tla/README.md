# A TLA+ model of nginx-zstd-module

The module compresses nginx responses with zstd. It consists of two nginx
modules, the *filter* (compression on the fly, `ngx_http_zstd_filter_module.c`)
and the *static handler* (serving `.zst` sidecar files,
`ngx_http_zstd_static_module.c`), which share header files for negotiation.
This directory models the parts whose correctness depends on order: who owns a
compression context, how a body travels through buffers, what a shared cache may
do with the responses, how a worker judges sidecar files and what it remembers
about them, how a configuration comes into force, and how its dictionaries are
opened, read, prepared and chosen.

Below, `filter:N` and `static:N` are lines of those two files.

## 1. Inventory

| Part | State | Operations | Interaction |
|---|---|---|---|
| worker context ring (`filter:1086-1213`, `3570-3722`, `6035-6192`) | slots of (context, packed parameters, busy), per worker; one loan per request | `acquire_cctx`, `init_cctx`, `return_cctx`, pool cleanup, `exit_process` | called by the body filter; the cleanup by nginx when a request's pool goes; contexts live in libzstd |
| body filter (`filter:2461-3530`) | the request context: input chain, current buffer, free/busy/out chains, flags, counters | `body_filter` with `add_data`, `get_buf`, `compress`, `copy_input` | called with chains by the upstream and by write events; passes chains downstream |
| header filter (`filter:1590-1896`) | none of its own | gates, Vary, bypass, dcz, zstd | reads the configuration and request fields; its Vary lines are read by caches |
| dcz negotiation (`filter:2050-2361`) | sorted dictionary digests of the location | digest decoding, lookup, Sec-Fetch-Site and secure-context gates | called by the header filter |
| Accept-Encoding (`accept_encoding.h`) | none | weight of a coding over all field lines | header filter, static handler |
| Vary helpers (`common.h`) | the response's header list | find tokens, push lines | header filter, static handler; nginx adds its own line under `gzip_vary` |
| static handler (`static:1462-1917`) | none | negotiate, stand aside, serve, decline | runs before the filter; leaves Vary lines on the response when it declines |
| verdict cache (`static:130-190`, `862-960`) | table of 64 verdicts, cursor, high-water mark, per worker | `cached_verdict`, `remember` | between `open_file_cache` and the frame probe; shared by all locations |
| frame probe (`frame_probe.h`, `static:454-655`, `1035-1457`) | a block kept from the previous read; the worker's directio scratch buffer | walk over leading skippable frames, gathering reads, window check | reads the sidecar; its verdict goes to the verdict cache |
| configuration (`filter:4054-4252`, `5121-5835`, `6104-6158`, `6407-7300`, `static:1920-2141`, `version.h`) | main and per-block configuration, flags left by directives | directive handlers, `init_main_conf`, `merge_loc_conf`, hooks, library check | nginx's parser calls it in the order of the file |
| dictionary registry and prepared dictionaries (`filter:5259-5540`, `6208-6394`) | prepared dictionaries with their owners, bytes used | create, share, skip, look up | filled while merging, read by requests |
| dictionary file loading (`dict_file.h`, `filter:4255-4650`) | a descriptor, the buffer | strict walk, checks, read loop | file system, shared with other users |
| window and memory arithmetic (`filter:103-403`, `1216-1361`, `4738-5029`) | none | pure functions | configuration, ring and header filter |
| log variables (`filter:5838-6001`, `ratio.h`) | counters of the request | ratio, formatting | log phase |
| SHA-256, fault-injection hooks | - | - | load time or test builds |

What is hard here:

* **Interleaving.** A worker is one thread, but many requests are between two
  callbacks at any time, and each may be holding a context of the shared ring.
* **Callbacks that stop halfway.** The body filter returns when buffers run out,
  keeping input it has not read and output it has not finished; everything that
  has to happen later needs somebody to call again.
* **Failure anywhere.** Every allocation, every libzstd call and the downstream
  may fail, and the client may go away; each path has to return the loan.
* **Other people's memory.** A cached context keeps its workspace; a recycled
  buffer keeps its flags; a cached response outlives the configuration; a
  verdict outlives the file's contents.
* **Caches in front.** A wrong or missing Vary shows only when some client has
  filled the cache before another one asks.
* **Directives in any order.** A switch takes effect where it is parsed, a
  default where it is merged, and the outermost block is never merged; whether
  the result is what was meant depends on the order of a file nobody has yet
  written.
* **A file system that moves.** Between two system calls of a load, others
  replace directories, links and files; reads come back short or interrupted.
* **Arithmetic at the edge.** Window sizes from unbounded body lengths, keys
  packed into one word, a quotient of two 64-bit counters.

What makes each part correct is stated as properties in the modules; section 4
says which run checks which. `PROJECT.json` lists the hazards with their lines.

## 2. Plan

In order of importance; all but the last are done.

1. `CctxRing` with the abstract `CctxLending` - ownership of contexts. Proved.
2. `BodyFilter` with the abstract `FrameStream` - the stream through the buffers.
   Proved but for liveness.
3. `AcceptEncoding`, `AcceptEncodingField` - weights against a reference. Proved.
4. `Negotiation` - header filter and shared cache. Proved.
5. `VerdictCache` - the verdict table over time. Proved.
6. `StaticNegotiation` - the static handler composed with `Negotiation`. Proved.
7. `FrameProbe` - the walk and its reads against a reference that knows the
   whole file. Proved but for liveness.
8. `DczProfiles` - windows, budget, context keys and prepared dictionaries, from
   load to request. Proved.
9. `DictFile` - opening and reading a dictionary among other users. Proved.
10. `ConfigLoad` - directives, inheritance, hooks, the dictionary registry. Proved.
11. `LogRatio` - the ratio's long division. Proved.
12. Left: the body filter composed with the ring.

## 3. Modules and code

### CctxRing, CctxLending

`slots` and `ctx` are the C structures; `phase` is where a request is
(`idle` before the first callback with work, `acquired` between `acquire_cctx`
and the end of `init_cctx`, `streaming`, `failing`, `finishing`, `done`);
`worker` is the request whose callback runs, so that steps of two requests
interleave only between callbacks. `live`, `params`, `session` and `footprint`
describe libzstd's side: what is allocated, whose parameters a context has, whose
frame it holds, and which parameter sets have grown its workspace. `touched`
records a use or free of a freed context. Each action is one outcome of one
function, the failures included (`CleanupFails`, `CreateFails`,
`ConfigureFails`, `CompressFails`); `DestroyPool` is the pool cleanup, which may
come at any time between callbacks (client abort), and `ExitProcess` the worker's
end, which may come before the pools are destroyed.

`CctxLending` has neither slots nor flags: contexts are granted to one owner,
kept for one parameter set, at most `Limit` of them.

### BodyFilter, FrameStream

One response. Body bytes are numbered tokens, output is units (a token, the
frame's epilogue, the dcz header), so loss, repetition and reordering are all
visible. Output buffers are numbered cells shared by the filter's chains and the
downstream. `pc` walks through the loop of `body_filter()`. The encoder is
external: for each call it may eat and emit any amount `ZSTD_compressStream2()`'s
contract allows, including an end of frame that reports bytes which turn out not
to exist (`coy`), the case the zero-output terminal call at `filter:3111` is
written for. The downstream takes any prefix; it postpones only buffers nginx's
writer may postpone (no flush, no last_buf, not recycled), and a write event
comes when the socket drains.

The arm at `filter:2930-2982`, which switches to the end directive after a call
that left the frame open with no input left, is modelled (`SwitchToEnd`) but never
taken: the directive is already the end one whenever its condition holds. After `NGX_ERROR` nginx finalizes the
request and does not call the filter again.

`FrameStream` is the client's view: the wire holds a prefix of the one frame of
the body, complete exactly if the end was marked.

### AcceptEncoding, AcceptEncodingField

The folds of `accept_encoding.h` over parameters, elements and field lines.
Octets are cut into elements and parameters beforehand: white space, quoting and
letter case are the lexer's business and covered by the repository's fuzzer.
`AcceptEncodingField` builds every field within the bounds, with the codings and
weights of its constants, and compares with a definition on the joined list that
uses no fold.

### Negotiation, StaticNegotiation

`HeaderFilter(conf, resp, req)` is the whole of `header_filter()` as a function
to coding, dictionary and Vary lines; `Respond` puts the static handler in front
of it. The state is the location's configuration, the resource and a shared cache
that follows HTTP's rules: it matches on the fields the stored response's Vary
names. `Reload` and `Publish` change the origin while the cache keeps what it
has. A dictionary is its digest as a number; an `Available-Dictionary` value is a
digest or `NotADigest`.

### VerdictCache

The table, its cursor and its high-water mark, `open_file_cache` with its own
staleness, and the files: inode, stamp (mtime and size) and whether the probe
would accept the contents. Locations differ by `open_file_cache_valid`; 0 stands
for `open_file_cache off`. `goodAt` and `last` are history variables for
`StalenessBounded`. Paths of `NGX_MAX_PATH` bytes or more never touch the table
and are left out. `Expired` keeps the code's test for a clock that was set back;
no action sets it back.

### FrameProbe

One worker probing one sidecar after another. A file is the list of its leading
skippable frames and the header behind them, with the length on disk and the size
the open reported, which differ when it changed in between. `pc` walks through
`probe_file()`; a system call (`Transfer`, `EndOfFile`, `ReadError`) and what
`pread()` makes of it (`Account`) are steps of their own, so a short read may come
anywhere, and under directio be resumed at a whole block. `have` is the block in
the buffer with the offset the code believes it has (`base`) and the one it was
read from (`at`): `HeaderInBlock` compares the two. `scratch` is the worker's
directio buffer; `BeginPool` and `NoBuffer` are the ways without it. A header is
its decoded fields; the bytes are not represented.

A file has the size `fstat()` gave at the open and the length it has when it is
read, so it may have grown or shrunk in between. `VerdictProven` holds a
malformed verdict against the bytes that were there at the open and still are
(`Steady`), since the verdict table files it under the former size. Its one
exception is `HeaderCut`: the current read stopped inside a directio block
(`stalled`, which every new read clears), and the header judged is longer than
what landed.

### DczProfiles

First locations are loaded, as in the second half of `merge_loc_conf()`: the
memory check (`OverBudget`, `MergeLocation`), then `build_cdicts()`, one
dictionary and window a step. Then requests run: `Respond` derives the window,
packs the key, looks for the cached context and for the prepared dictionary.
Levels, windows and key fields have their real ranges; `INVALID` is bit 30
instead of bit 63, above all key bits as there, and `size_t` has 25 bits. What libzstd
estimates and measures is external: the estimate grows with the window, and
the measured size of a prepared dictionary may exceed its estimate.

### LogRatio

The long division of `ratio.h` with one action per digit, or per addition inside
a digit whose product would not fit, in arithmetic modulo `Modulus`.

### DictFile

One load, strict or not. Each system call is an action; `Rebind` and `Chmod` are
other users doing what permissions let them, `Resize` is anyone rewriting the file
while it is read. Root and the account nginx runs as are trusted, as
`check_dir()` trusts them, and do not interfere with the walk; everybody else may
at any point. `before` remembers the names at the start, for `Unsteered`. Every
call may also fail. One `OpenAt` step stands for `openat()` and the `close()` of the
previous descriptor, which no other actor can tell apart. `Resolve` is the
kernel following links, for loads without the strict rule, about which only
`BufferWhole`, `DescriptorsClosed` and `LoadEnds` say anything. All refusing exits
of the walk, of the read and of their callers share `Refuse`, which closes the
descriptors: that each `return` and `goto` of the source does so was compared by
hand, and a leak at a single one of them would not show in the run.

### ConfigLoad

The parser enters and leaves blocks and calls directive handlers in any order;
then come `init_main_conf()`, `merge_loc_conf()` for each block below `http{}` in
nginx's order (the outermost block is only ever the parent), the hooks, the
library check, and finally the pool's end. `main` and `loc` are the configuration
structures, `rest` is what the file may still contain; `declared` keeps what each
block said itself, for `MergedIsNearest`.
Settings stand for their kind: `enable`, `static`, `level` (with its own mark for
"unset"), `window`, `cblock`, and the list of dictionaries. A dictionary file is
its digest, a literal is a digest, absent or malformed. `cdicts` are the prepared
dictionaries of `zstd_dict_file`; every step of preparing one may fail and has
its owner recorded. Refused buffers and an exceeded budget do not stop
`merge_loc_conf()` from building one, so a load can fail with a dictionary that
is complete and registered (`CreateFailures`). In an `if` (`Ifs`) only `zstd` is
accepted, as the command tables say.

## 4. Runs

| Run | Checks | Shows |
|---|---|---|
| `cctx_ring` | `NoUseAfterFree`, `OwnParameters`, `FootprintVetted`, `NoStrandedContext`, `LendingRefined`, `LoanReturned` | contexts under all interleavings and failures; the ring implements the lending service, in which a context has one owner; every loan ends |
| `body_filter` | `StreamIntact`, `NoZeroSizeBuf`, `BuffersUnshared`, `StreamRefined`, `ResponseCompletes`, `FlushReachesClient` | the stream is exact; no buffer is in two places; no loop spins and no call returns with work left and nobody to call again, so responses complete and flushes get through |
| `accept_encoding` | `WeightIsOfJoinedField` | weights equal the reference |
| `negotiation` | `OnlyWantedCodings`, `CacheTransparent` | nobody gets a body it did not ask for, from origin or cache; the cache changes nothing |
| `static_negotiation` | `OnlyAlwaysForces`, `SidecarTransparent` | handler, filter and cache together |
| `verdict_cache` | `OneVerdictPerFile`, `AllVerdictsScanned`, `StalenessBounded` | the table stays searchable and unambiguous; staleness is bounded by the serving location's lifetime |
| `frame_probe` | `VerdictProven`, `HeaderInBlock`, `DirectioLegal`, `ProbeEnds` | verdicts against the file whatever the reads return, but for a header the device cut; aligned reads, the scratch buffer given back; every probe ends |
| `dcz_profiles` | `WindowSpansDictionary`, `BudgetHeld`, `MadeForTheRequest`, `PreparedForEveryRequest` | the parameters of a response, the context and the prepared dictionary belong together and within budget |
| `log_ratio` | `RatioExact` | the ratio equals the exact quotient |
| `dict_file` | `Unsteered`, `BufferWhole`, `DescriptorsClosed`, `LoadEnds` | a load among other users |
| `config_load` | `StrictCoversAll`, `HashIsVouchedFor`, `MergedIsNearest`, `ServerListFound`, `EnabledIsServed`, `DictOfOwnProfile`, `DictsFreedOnce` | settings, dictionaries and the switches they depend on in every order; hooks, library and prepared dictionaries, with failures |
| `config_http_list` | `EveryListFound` (violated) | the finding of section 6 |

**Bounds.** The ring: two requests, two slots, two cacheable parameter sets and
one that does not fit the key. That is enough for a slot that is free, lent, or
taken by another parameter set when the other request comes, and for a full
ring; four contexts are the most that can be alive together. The code has 4
slots, and the theorems hold for any number of everything. The body filter: two
tokens in up to four links, buffers of two units and one or two of them. Four
links are needed for one call to keep two of them and the next to bring two
more, which is when their order matters; the dcz header, two tokens and the
epilogue need both buffers, links without data may stand anywhere, and the first
buffer may also be shrunk to one unit. `Limits` are
`zstd_max_length` unset, and one below the longest body. Fields: three lines,
three elements, two parameters, enough for two elements in conflict and a
wildcard between them in any distribution. Negotiation: `MaxEntries = 1` because
the properties relate one stored response to one request; `Evict` lets any
request fill it. `BsearchThreshold = 1` (the code: 16) so that the binary search
runs with three dictionaries and the linear one with one. Verdicts: two slots,
two inodes for one path, two stamps, a location with lifetime 2 and one without a
file cache, and a clock up to 3: a verdict may live, expire, be replaced in the
other slot and meet the wrapped cursor.

The probe: at most two skippable frames are allowed and up to three occur (the
code: four); blocks are 32 to 64 bytes (4 KB to 64 KB), so that frames of 8 to 78
bytes lie within a block, across its end and behind it, and reads of 3, 20
and 40 bytes end inside a header, inside the first block and inside the second;
configured alignments lie below and above the clamp. The stack buffer and all
windows have their real sizes. Profiles: two locations out of ten configurations, so
that contexts and dictionaries are shared and not shared; bodies at the edges of
window sizes and beyond `size_t`. The ratio: `Modulus = 64`, every pair of
counters; both branches are taken and sums wrap. Dictionary files: eight inodes of
every kind and owner, two components, files up to three bytes with a limit of two:
one read may be short, and the file may shrink or grow between any two. The
configuration: nested `http`, `server`, `location` and `if`; a file is made of up to
five directives on lists, with `Threshold = 2` (16), so that three make a list that
is bisected, or of up to four on settings (each with two values, zero among them
where zero is also the default) and the shared dictionary, since the two
kinds meet only in the strict switch, which is in both; libraries below, between and
at the two version floors.

`CHECK_DEADLOCK FALSE` stands where the modelled part ends: a worker that
exited, a response that is complete, a clock at its bound, a field at its
bounds, a configuration in force or refused. The negotiation, probe, dictionary
file and configuration runs check deadlock.

**Fairness.** `CctxRing`'s `FairSpec` says that a callback that runs continues
to its return and that a request's pool is destroyed eventually: nginx's timeouts
finalize every request; strong, because callbacks of other requests disable it in
between. `BodyFilter`'s is `WF(Step)`, a running callback runs to
its return, and `SF(WriteEvent)`: as long as something is waiting for the socket,
nginx has a write event armed, and a client that takes data makes it fire again
and again; strong, because calls from the upstream may disable it in between. A
client that takes nothing runs into `send_timeout`, which is the client abort of
`CctxRing`. Nothing is assumed of the upstream. `FrameProbe`'s is weak fairness
of the probe's own steps: the handler is synchronous, so a worker in a probe does
nothing else, and the kernel answers each read; what it answers is left open.
`DictFile`'s is `WF(Load)`: the loader is one process; a read interrupted by a
signal is a step that changes nothing and may come any number of times, but not
for ever. Nothing is assumed of the others.

**Mutants.** Each property is accompanied by a mutated definition (in the
modules, marked "Mutant") standing for a plausible slip in the code, under which
TLC finds the property violated.

## 5. Proofs

TLAPS checks all of these for arbitrary constants.

`CctxRing_proofs`. None of the properties is inductive alone: that two requests
do not share a context needs to know that a busy slot has exactly one borrower,
which needs to know which phases hold a context at all. `IInv` joins `TypeOK`,
`Lifecycle` (what a phase says about loan, cleanup and running callback),
`Ownership` (slots, requests and `live`; contexts are distinct; busy means lent)
and `Contents` (parameters, session and footprint of what is owned). There is one
lemma per action; the two uses of `return_cctx()` share `GiveBackIInv`. From
`IInv` follow `LoansAreExclusive`, `BusyIsALoan`, `MemorySafe`,
`ParametersAreOwn`, `FootprintIsVetted`, `NothingStranded`, `IdleIsClean` and the
action property `SlotsAreStable`. `RingImplementsLending` maps held and idle
contexts to leases: borrowing and creating are grants, returning is giving back
(kept if cached, dropped if private or after exit), exit is the shutdown, and
everything else stutters. Assumed: at least one slot, `Cacheable` a subset of
`Profiles`, and a null distinct from everything else; `Key` is injective on
`Cacheable` by definition, which is what `profile_pack()` provides.

`BodyFilter_proofs`. The three invariants are proved one after the other, each using
those before it, and each with one lemma per step of the loop.

*The buffers* (`BufInv`). That no buffer is filled while the socket reads it, and
that none of size zero is queued, are facts about four chains, the current buffer
and what the downstream holds, none of which a single step looks at together.
`ControlInv` says what is over at each place of the callback; `PlaceInv` that every
buffer allocated so far is in at most one chain and the current one in none;
`DataInv` that what is queued has bytes or is the empty end, and that the current
buffer is empty at every turn but for a dcz header whose call is repeated, which
is why the space offered to the encoder is never too small; `HeldInv` that the
downstream holds exactly the busy chain until the response is done, so that
`ngx_chain_update_chains()` recycles exactly what was sent (`UpdateDrains`).

*The stream* (`StreamInv`). `StreamIntact` is one equation between strings: what
the client has, then the downstream, the out chain, the current buffer (`Ahead`),
then the encoder's output and input, the buffer being read, the links retained and
those of this call (`Behind`) is the header, the body and perhaps the epilogue. Each
step moves a piece across one boundary, so a proof is a regrouping of the
concatenation, with the boundary that moves isolated; `FlattenSeq` over chains is
shown to distribute over concatenation for any length. The equation is not inductive
alone: that a frame ends behind all of the body needs `EndInv` (no end directive
before the last link was read), and that an end is not written twice needs `FlowInv`
to say which of the two equations holds. `CountInv` counts the queued units.

*The end* (`CloseInv`). For the refinement the mark of the end must leave behind
everything else: a buffer with `last_buf` is the last of what is held and queued,
and once it is queued the encoder is empty. `ImplementsFrameStream` then maps steps:
`Feed` is `HandOver`; the three places that call the next body filter with success
(`PassThrough`, `BeginNomem`, `Deliver`) are `Transmit` or, when the socket takes
nothing, stutter; `Fail`, at the end of every error path, is `Abort`;
everything else stutters, a failed delivery included.

Theorems, for every number and size of buffers, body, chain of links, limit and
downstream: `BuffersInvariant`, `WriterAcceptsBuffers`, `BuffersAreUnshared`,
`StreamInvariant`, `StreamIsIntact`, `EndInvariant`, `ImplementsFrameStream`. Assumed:
at least one buffer of at least one unit (`BoundsAssumption`), and that header,
epilogue and body tokens can be told apart (`UnitsAssumption`).

The model has no `CASE` with guards that overlap here: where the code is an if-else
chain it is written as one, since a `CASE` leaves open which of two true guards it
takes, and the proofs failed on just that.

`Negotiation_proofs`. The properties speak of the cache and of every request, so
the invariant is `Stored`: an entry's answer is what `header_filter()` made of the
request that filled it, under some configuration and resource, those of now while
the entry is current. What remains is about `HeaderFilter` alone. For
`CodingsAreWanted`: its Vary lines name every field the choice depended on
(Accept-Encoding for zstd; all three for dcz), so that a match carries the choice
over to the new request, whatever the configuration is by now; `DczGates` and the
`Vary...Names` lemmas say what negotiation checked and what the helpers leave
behind. For `CacheIsTransparent`: two requests that agree on the fields named get
the same answer, dictionary lookup, bypass and all. `StaticStored`,
`AlwaysAloneForces` and `SidecarIsTransparent` say the same of the composition
with the static handler. All hold for any sets of requests, configurations and
responses. Assumed: fields have their types, and `zstd_static` is off, on or
always.

`WeightsAreOfJoinedField` is about the three nested loops of `accept_encoding.h`.
Each is a fold; `FoldEnds` and `FoldRuns` turn the fold's equation into the turns
of a loop, and `Turns` is induction over them. What holds after each turn:
`QvalueAfter` (the parameters so far are well formed, or the weight is already
malformed, and *q* is the value of the only "q" so far), `LineAfter` (the two
weights are those of the last well-formed element of either name so far) and
`ChainAfter` (the same over lines, where the weight of "*" is only right while no
line named the coding: `chain_coding_weight()` stops looking at "*" on a line that
does, which is harmless because the explicit weight then decides). `LastIsJoined`
puts the last element of the last line together. The names, the weights and the
three bounds are arbitrary. Assumed: a weight is a qvalue (`WeightRange`).

`DictFile_proofs`. `Unsteered` speaks of the end of the walk. Its invariant is
that the walk is on the chain of names as they were bound at the start
(`WalkInv`), and this is kept because a directory that passed `check_dir()` is one
whose names nobody else can change (`StableInv`), while a directory not yet
vetted is never a base. `HeldInv` counts the descriptor, and `BufInv`, an
invariant of its own, says that byte *k* of the buffer came from offset *k*.
Theorems, for every file system, path and number of interfering steps:
`StrictLoadIsUnsteered`, `LoadClosesDescriptors`, `LoadedIsWhole`. Assumed: the
root is a directory, and constants have their types.

`LogRatio_proofs`. The loop invariant is the usual one of a long division
(`DigitsExact`), with one for the inner loop (`PeelExact`): what has been peeled
off plus the accumulator is the multiple added so far, and the accumulator stays
below the divisor, which is why a wrapped sum is recognised by being smaller than
its summand. `RatioInvariant` and `RatioIsExact` hold for every modulus above
ten, so for 2^64.

`FrameProbe_proofs`. A verdict is passed on the bytes in the buffer; that they are
the right ones, and enough, is a matter of every read before. `ProbeInv` joins
`AlignInv` (who holds the scratch buffer, and that its alignment suits the probe),
`WalkInv` (the walk is at one of the file's frames), `BlockInv` (the block held
came from where `have.base` says), `ReadInv` (a read in progress is at a block
boundary, short of the buffer's end, and has gathered nothing from behind the end
of the file) and `ParseInv` (why a read stopped: a whole header is there, the file
ends, as much is there as when it was opened, or the device stalled in this very
read). Hence the only malformed verdict about a file decodable within `Steady` is
one with `HeaderCut`; that a file grew or shrank is no excuse. The
arithmetic of resumed reads is in `RoundDown`, `MultiplesAdd` and `ResumeRange`;
`VerdictIsProven`, `HeaderIsInBlock` and `DirectioIsLegal` follow. Assumed: a file
is a chain of frames whose header fields have the widths the format gives them
(`FilesAreFrames`); of two alignments, which are powers of two because
`posix_memalign()` accepts nothing else, the smaller divides the larger
(`AlignmentsNest`); and the sizes of the buffers (`ProbeBounds`).

The verdict table's proofs are in the same module, since its verdicts are the
probe's. `OneVerdictPerFile` holds only because a miss has removed every verdict
about the file (`MissLeavesNone`), and that only because all verdicts lie in the
scanned prefix, so the two are proved together, as `TableInv`;
`StalenessBounded` needs `Truthful`: a good verdict was taken no later than the
file was last good. Theorems: `TableInvariant`, `VerdictsAreUnique`,
`NoVerdictHidden`, `StalenessIsBounded`, `TableStaysTyped`.

`DczProfiles_proofs`. `ProfileKeyInjective` and `ProfileKeyReversible`, over all
integers for level and window: the fields lie side by side, and a set that does
not fit is `INVALID`, which no valid key equals. This is what `CctxRing` takes
`Key` to be. The window needs powers of two and the rounded-up logarithm for all
numbers (`PowerStep`, `PowerMonotone`, `CeilLog2Bounds`, `CeilLog2Monotone`), and
then how limits cap it (`CappedWindow`, `WindowBetween`): every window a request
can have lies between the two ends `build_cdicts()` computes at load. `DczInv`
joins `StateInv`, `CursorInv` (where `build_cdicts()` is), `CoverInv` (every
location before the one in the making is covered, that one up to the cursor),
`SlotInv` (a cached context is filed under the key of its parameters) and the
properties of the request at hand. `WindowIsRight`, `ReuseIsExact` and
`LoadPreparesAll` follow. `BudgetsAreKept` also needs the byte count (`BytesInv`),
and that a sum over a set grows by the size of what is added, in whatever order
the sum is taken (`AnyOrder`, `OneMore`). Assumed: configurations as
`merge_loc_conf()` leaves them (`ConfTypes`); `size_t` is wide enough for the
largest window (`SizeWidth`); libzstd needs no less memory for a larger window
(`WorkspaceMonotone`), which the code relies on when it vets only the cap; its
defaults lie within its own bounds (`WindowBounds`); a prepared dictionary has a
size (`CDictSizes`).

`ConfigLoad_proofs`. A switch may come after what it applies to, so nothing about
the configuration in force can be seen from one directive. `ConfigInv` relates
what the directives left in the main configuration to what all of them declared:
`LatchInv` (every setting that enables something is remembered), `SwitchInv` (a
dictionary opened without the walk is remembered, so is a literal that was
compared, and neither survives `init_main_conf()` with its switch on), `ListInv`
(what a hash was taken from; no block has one twice), `FromParent` (a merged block
has its own settings or those its parent ended up with), `HookInv`, and `DictInv`
(who owns a prepared dictionary, which location has it, and that there is one per
level and window). It is kept by every directive, every merge in any order that
starts from the outside, and every failure. Theorems, for every file and every tree
of blocks: `StrictHolds`, `HashesAreVouchedFor`, `EveryLocationIsServed`,
`DictionariesMatch`, `DictionariesAreFreed`. Three more go beyond one step.
`NearestSettings`: `merge_loc_conf()` sees only the parent, so that `zstd`,
`zstd_static`, level, window, block size and list are the nearest block's is an
induction over the tree (`OutwardInduction`), for which
`Around` is the least set of blocks closed under parents.
`ServerListsAreSearched`: the sort puts an entry behind as many as have a smaller
hash, which loses none (`Places`, `SortFacts`); the loop of `dcz_dict_lookup()` ends
because the range shrinks (`LoopEnds`), and on a sorted list never leaves behind
the entry looked for (`BisectFinds`). `HashesAreCounted`: the count is right unless
`init_main_conf()` is going to refuse the file (`CountInv`, an invariant of its
own). Assumed: directives carry the values their handlers accept (`FileTypes`: in
particular no level is the sentinel for "unset", which lies below libzstd's
minimum), every block lies in `http{}`, which is the only one without a parent,
an `if` is one of those inside, hashes are numbers and versions are natural.

The library's induction rules cannot be used here, so where a proof needs
induction it takes the least element of the set of counterexamples (`LeastNat`).
Each inductive invariant was model-checked on the instance of its run first.

**Only proved:** the ring's `IInv` and `TypeOK`, `ExclusiveLoan`, `BusyMeansLent`,
`IdleContextsClean` and `SlotNeverRebuilt` are in no run: the theorems cover every
instance. The same goes for the invariants `TableInv`, `TableTyped`, `ProbeInv`,
`DczInv`, `ConfigInv`, `BufInv`, `StreamInv` and `CloseInv`.

**Only model-checked:** liveness (`LoanReturned`, `ResponseCompletes`,
`FlushReachesClient`, `ProbeEnds`, `LoadEnds`), which is outside the prover's reach.

## 6. Findings

`zstd_dcz_dict_file` may stand in `http{}`, but a list is sorted only when its
block is merged as a child (`filter:5182`), which never happens to `http{}`. With
more than 16 entries the inherited list is bisected (`filter:2129-2133`:
"sorted by hash at merge-config time"), and dictionaries that are configured are
not found; clients get zstd instead of dcz. The run `config_http_list` shows it.
Lists of servers and locations are found (`ServerListFound`).

Texts that do not describe what the code, and therefore the model, does; no run
is about them, and none of them corrupts a response:

* `README.md:533` describes two output buffers as one being filled while the
  other is in flight. `body_filter()` forgets its current buffer at each delivery
  (`filter:2660`, `Deliver`), also one it has just acquired and that is still
  empty; the buffer is then in no chain but still counted.
* The comment at `filter:2257` says "an explicit q=0 anywhere is final". The
  latest explicit element wins, as the helper itself documents.
* `README.md:298` promises exactly one `Vary: Accept-Encoding` line. With
  `gzip_vary on`, a response that comes with such a line leaves with two.
* `CHANGES:61-64` says of `zstd_static_dict_bypass` that a shared cache cannot
  cross its routing decision. The response that stood aside is keyed on the
  dictionary fields; the sidecar served to others is not. This is why
  `SidecarTransparent` excludes locations with `dict_bypass`.
* The comment at `static:519-526` says that a short read does not mean "the file
  is bad". Under directio, when a read that stops inside a block leaves the
  header incomplete, the file is called malformed (`static:1361`). The comment at
  `static:616-636` accepts that such a probe declines, so as not to ask for the
  same block for ever; that the verdict table then keeps the verdict until the
  file changes, it does not say. This is the exception `HeaderCut` of
  `VerdictProven`, and the only one.

## 7. Not modelled

SHA-256 (a bit-level algorithm with test vectors), log throttling and all
logging, ETag and range handling of responses, the character level of header and
directive parsing (Cache-Control, field names, hex digits), directives that are
inherited like the modelled ones and bound nothing else (buffer sizes, types,
lengths, bypass predicates) and the warnings about them, rendering of log
variables, the Win32 variants, libzstd's format, and the test hooks, build,
packaging and CI. The memory advisory without a budget only warns. The cast of the
ratio to `ngx_uint_t` (`ratio.h:61`) is the identity in `LogRatio`: it truncates
only in 32-bit builds, and there only a ratio of 2^32 and more.
