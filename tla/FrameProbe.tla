------------------------------ MODULE FrameProbe ------------------------------
(***************************************************************************)
(* The frame probe of ngx_http_zstd_static_module.c: probe_file() walks    *)
(* over the skippable frames at the head of a sidecar until it meets the   *)
(* first regular frame, whose header probe_frame() judges.  pread()        *)
(* gathers short reads, under directio in whole aligned blocks; a block    *)
(* once read is reused while it holds the next header.                     *)
(*                                                                         *)
(* A file is the headers of its leading skippable frames and the header    *)
(* behind them, each at its offset.  Its bytes are not represented: a      *)
(* header is read correctly where a frame starts, and any other offset     *)
(* holds garbage.                                                          *)
(***************************************************************************)
EXTENDS Integers, Sequences

CONSTANTS
  Files,        \* [frames, len, size]: len on disk, size from the open
  Alignments,   \* directio_alignment of the locations, 0 without directio
  ShortCounts,  \* what a short pread() may return
  MaxSkips,     \* NGX_HTTP_ZSTD_STATIC_MAX_SKIP_FRAMES
  MaxWindow,    \* NGX_HTTP_ZSTD_STATIC_MAX_WINDOW
  DioProbe,     \* NGX_HTTP_ZSTD_STATIC_DIO_PROBE, at least a header long
  DioProbeMax,  \* NGX_HTTP_ZSTD_STATIC_DIO_PROBE_MAX
  HdrBuf,       \* sizeof(hdrbuf)
  NoFile        \* no file is open

HeaderMax == 18

ASSUME ProbeBounds ==
  /\ DioProbe \in Nat /\ DioProbe >= HeaderMax
  /\ DioProbeMax \in Nat /\ DioProbeMax >= DioProbe
  /\ HdrBuf \in Nat /\ HdrBuf >= HeaderMax
  /\ MaxSkips \in Nat /\ MaxWindow \in Nat
  /\ Alignments \subseteq Nat
  /\ ShortCounts \subseteq Nat \ {0}

VARIABLES
  pc,        \* "idle", "frame", "read", "got", "parse", "done"
  file,      \* the open file
  align,     \* 0 without directio
  pos,       \* offset of the frame looked for
  frames,    \* frames seen
  have,      \* the block held: [base, n, at]; n is -1 after an error, at is
             \* where its bytes came from
  blockSet,  \* have_block
  frameOff,  \* the frame's offset in the block
  base,      \* the block's offset in the file
  done,      \* bytes gathered by pread()
  prev,      \* ... at its previous round
  got,       \* what the latest system call returned
  stalled,   \* the pread() that filled the block held gave up inside a block
             \* of the device, short of the end of the file
  scratch,   \* the worker's buffer: [cap, align, busy]
  own,       \* does this probe hold the scratch buffer?
  result     \* [rc, malformed] of the latest probe

vars == <<pc, file, align, pos, frames, have, blockSet, frameOff, base, done,
          prev, got, stalled, scratch, own, result>>
walkVars == <<pos, frames, have, blockSet>>
readVars == <<done, prev, got, stalled>>

NoResult == [rc |-> "none", malformed |-> FALSE]
Want == IF align = 0 THEN HdrBuf ELSE 2 * align

Directio == align # 0

-----------------------------------------------------------------------------
(* Files *)

\* The optional dictionary id's bytes and the content size field's.
DidLen == <<0, 1, 2, 4>>
FcsSize(h) == IF h.fcsFlag = 0 THEN 1 ELSE 2 ^ h.fcsFlag

\* What the bytes at an offset of the file are.
HeaderAt(f, at) ==
  IF \E k \in DOMAIN f.frames : f.frames[k].at = at
  THEN f.frames[CHOOSE k \in DOMAIN f.frames : f.frames[k].at = at].header
  ELSE [magic |-> "other"]

\* The headers there are: the fields of a regular one have the width the frame
\* format gives them, the payload of a skippable one has any length.
Headers ==
  [magic : {"zstd"}, reserved : BOOLEAN, single : BOOLEAN, fcsFlag : 0 .. 3,
   did : 0 .. 3, exp : 0 .. 31, mant : 0 .. 7, fcs : Nat]
  \cup [magic : {"skip"}, skip : Nat]
  \cup [magic : {"other"}]

\* All frames but the last are skippable: 8 bytes and the payload.
FrameChain(fr) ==
  /\ fr \in Seq([at : Nat, header : Headers])
  /\ Len(fr) > 0 /\ fr[1].at = 0
  /\ fr[Len(fr)].header.magic # "skip"
  /\ \A k \in 1 .. Len(fr) - 1 :
       /\ fr[k].header.magic = "skip"
       /\ fr[k + 1].at = fr[k].at + 8 + fr[k].header.skip

ASSUME FilesAreFrames ==
  \A f \in Files : f.len \in Nat /\ f.size \in Nat /\ FrameChain(f.frames)

\* The window a regular frame declares.  A two-byte size is offset by 256.
Window(h) ==
  IF h.single
  THEN IF FcsSize(h) = 2 THEN h.fcs + 256 ELSE h.fcs
  ELSE 2 ^ (10 + h.exp) + 2 ^ (7 + h.exp) * h.mant

\* The header bytes needed to know it.
HeaderLen(h) ==
  IF h.single THEN 5 + DidLen[h.did + 1] + FcsSize(h) ELSE 6

\* probe_frame(): the verdict on a header of which n >= 4 bytes are there.
ProbeFrame(h, n) ==
  CASE h.magic = "other" -> "not_zstd"
    [] h.magic = "skip" -> IF n < 8 THEN "truncated" ELSE "skip"
    [] h.magic = "zstd" /\ n < 5 -> "truncated"
    [] OTHER ->
         IF h.reserved THEN "reserved"
         ELSE IF n < HeaderLen(h) THEN "truncated"
         ELSE IF Window(h) > MaxWindow THEN "window_big"
         ELSE "ok"

-----------------------------------------------------------------------------
(* The block *)

Minimum(a, b) == IF a < b THEN a ELSE b
Maximum(a, b) == IF a < b THEN b ELSE a

\* The bytes of the next header that could be there.
Need == Minimum(HeaderMax, Maximum(4, file.size - pos))

\* probe_reuse(): does the block held cover the next header?
Reusable ==
  /\ blockSet
  /\ have.n > 0
  /\ pos >= have.base
  /\ pos - have.base <= have.n
  /\ have.n - (pos - have.base) >= Need

ScratchTooSmall(want, al) == scratch.cap < want \/ scratch.align < al

\* The alignment a directio probe works with.
ProbeAlign(conf) ==
  IF conf = 0 THEN 0 ELSE Minimum(Maximum(DioProbe, conf), DioProbeMax)

\* posix_memalign() takes powers of two, of which the smaller divides the
\* larger: a buffer aligned for one location is aligned for every location
\* that asks for no more.
ASSUME AlignmentsNest ==
  \A c, d \in Alignments \ {0} :
    ProbeAlign(c) <= ProbeAlign(d) => ProbeAlign(d) % ProbeAlign(c) = 0

Init ==
  /\ pc = "idle"
  /\ file = NoFile
  /\ align = 0
  /\ pos = 0 /\ frames = 0
  /\ have = [base |-> 0, n |-> 0, at |-> 0] /\ blockSet = FALSE
  /\ frameOff = 0 /\ base = 0
  /\ done = 0 /\ prev = 0 /\ got = 0 /\ stalled = FALSE
  /\ scratch = [cap |-> 0, align |-> 0, busy |-> FALSE]
  /\ own = FALSE
  /\ result = NoResult

-----------------------------------------------------------------------------
(* probe_file() *)

\* probe_done: the scratch buffer goes back on every way out.
Finish(rc, malformed) ==
  /\ pc' = "done"
  /\ result' = [rc |-> rc, malformed |-> malformed]
  /\ scratch' = [scratch EXCEPT !.busy = @ /\ ~ own]
  /\ own' = FALSE

Fresh(f, al) ==
  /\ file' = f /\ align' = al
  /\ pos' = 0 /\ frames' = 0
  /\ have' = [base |-> 0, n |-> 0, at |-> 0] /\ blockSet' = FALSE
  /\ frameOff' = 0 /\ base' = 0
  /\ done' = 0 /\ prev' = 0 /\ got' = 0 /\ stalled' = FALSE

TooSmall(f) ==
  /\ pc = "idle"
  /\ f.size < 4
  /\ Fresh(f, 0)
  /\ Finish("declined", TRUE)

\* A buffered probe reads into the stack.
BeginBuffered(f) ==
  /\ pc = "idle"
  /\ f.size >= 4
  /\ Fresh(f, 0)
  /\ pc' = "frame"
  /\ own' = FALSE
  /\ result' = NoResult
  /\ UNCHANGED scratch

\* dio_buf(): the scratch buffer, grown when it is too small.
BeginScratch(f, conf) ==
  LET al == ProbeAlign(conf) IN
  /\ pc = "idle"
  /\ conf # 0
  /\ f.size >= 4
  /\ ~ scratch.busy
  /\ Fresh(f, al)
  /\ scratch' = IF ScratchTooSmall(2 * al, al)
                THEN [cap |-> 2 * al, align |-> al, busy |-> TRUE]
                ELSE [scratch EXCEPT !.busy = TRUE]
  /\ pc' = "frame"
  /\ own' = TRUE
  /\ result' = NoResult

\* dio_buf() falling back on the request's pool: the scratch buffer is in use
\* or could not be grown.
BeginPool(f, conf) ==
  LET al == ProbeAlign(conf) IN
  /\ pc = "idle"
  /\ conf # 0
  /\ f.size >= 4
  /\ scratch.busy \/ ScratchTooSmall(2 * al, al)
  /\ Fresh(f, al)
  /\ pc' = "frame"
  /\ own' = FALSE
  /\ result' = NoResult
  /\ UNCHANGED scratch

\* ... whose allocation fails as well.
NoBuffer(f, conf) ==
  LET al == ProbeAlign(conf) IN
  /\ pc = "idle"
  /\ conf # 0
  /\ f.size >= 4
  /\ scratch.busy \/ ScratchTooSmall(2 * al, al)
  /\ Fresh(f, al)
  /\ Finish("error", FALSE)

\* The next header is in the block already.
ReuseBlock ==
  /\ pc = "frame"
  /\ Reusable
  /\ frameOff' = pos - have.base
  /\ base' = have.base
  /\ pc' = "parse"
  /\ UNCHANGED <<file, align, walkVars, readVars, scratch, own, result>>

\* Mutant: a directio probe reads at the frame, not at its block.
BeginReadUnaligned ==
  /\ pc = "frame"
  /\ ~ Reusable
  /\ frameOff' = 0
  /\ base' = pos
  /\ done' = 0 /\ prev' = 0 /\ got' = 0 /\ stalled' = FALSE
  /\ pc' = "read"
  /\ UNCHANGED <<file, align, walkVars, scratch, own, result>>

\* It has to be read: from its own offset, or from the start of its block.
BeginRead ==
  /\ pc = "frame"
  /\ ~ Reusable
  /\ frameOff' = IF Directio THEN pos % align ELSE 0
  /\ base' = IF Directio THEN pos - (pos % align) ELSE pos
  /\ done' = 0 /\ prev' = 0 /\ got' = 0 /\ stalled' = FALSE
  /\ pc' = "read"
  /\ UNCHANGED <<file, align, walkVars, scratch, own, result>>

-----------------------------------------------------------------------------
(* pread(): EINTR repeats the call and is a stuttering step *)

\* The bytes left in the file and in the buffer.
Available == Maximum(0, Minimum(Want - done, file.len - (base + done)))

\* Mutant: the block's offset is recorded once.
PreadReturnsFirstBase(n) ==
  /\ have' = [base |-> IF n > 0 /\ ~ blockSet THEN base ELSE have.base,
              n |-> n, at |-> base]
  /\ blockSet' = (blockSet \/ n > 0)
  /\ pc' = "parse"

\* The end of pread(): n bytes, or -1, are in the buffer.
PreadReturns(n) ==
  /\ have' = [base |-> IF n > 0 THEN base ELSE have.base, n |-> n, at |-> base]
  /\ blockSet' = (blockSet \/ n > 0)
  /\ pc' = "parse"

\* The kernel transfers k bytes, all that is there or fewer.
Transfer(k) ==
  /\ pc = "read"
  /\ k <= Available
  /\ got' = k
  /\ pc' = "got"
  /\ UNCHANGED <<file, align, walkVars, frameOff, base, done, prev, stalled,
                 scratch, own, result>>

\* The resume point: under directio rounded down to a block.
Resume == IF Directio THEN done + got - ((done + got) % align) ELSE done + got

Gathered ==
  /\ done' = Resume
  /\ prev' = Resume
  /\ UNCHANGED stalled
  /\ IF Resume < Want THEN pc' = "read" /\ UNCHANGED <<have, blockSet>>
                      ELSE PreadReturns(Resume)

\* Mutant: only a first block that cannot be completed ends the call.
AccountStallsLater ==
  /\ pc = "got"
  /\ IF Directio /\ Resume = 0
     THEN /\ PreadReturns(prev + got)
          /\ stalled' = (base + prev + got < file.len)
          /\ UNCHANGED <<done, prev>>
     ELSE Gathered
  /\ UNCHANGED <<file, align, pos, frames, frameOff, base, got, scratch, own,
                 result>>

\* A call that did not complete another block ends the loop: the next one
\* would be the same again.
Account ==
  /\ pc = "got"
  /\ IF Directio /\ Resume = prev
     THEN /\ PreadReturns(prev + got)
          /\ stalled' = (base + prev + got < file.len)
          /\ UNCHANGED <<done, prev>>
     ELSE Gathered
  /\ UNCHANGED <<file, align, pos, frames, frameOff, base, got, scratch, own,
                 result>>

\* The end of the file: what was gathered is returned.
EndOfFile ==
  /\ pc = "read"
  /\ Available = 0
  /\ PreadReturns(done)
  /\ UNCHANGED <<file, align, pos, frames, frameOff, base, readVars, scratch,
                 own, result>>

ReadError ==
  /\ pc = "read"
  /\ PreadReturns(-1)
  /\ UNCHANGED <<file, align, pos, frames, frameOff, base, readVars, scratch,
                 own, result>>

-----------------------------------------------------------------------------
(* The verdict *)

\* The header bytes that were read.
Avail == Maximum(0, Maximum(have.n, 0) - frameOff)

Header == HeaderAt(file, have.at + frameOff)

\* Mutant: a read that failed is held against the file.
NoHeaderBlames ==
  /\ pc = "parse"
  /\ have.n < 0 \/ Avail < 4
  /\ Finish("declined", TRUE)
  /\ UNCHANGED <<file, align, walkVars, frameOff, base, readVars>>

\* No header could be read; only an error says nothing about the file.
NoHeader ==
  /\ pc = "parse"
  /\ have.n < 0 \/ Avail < 4
  /\ Finish("declined", have.n >= 0)
  /\ UNCHANGED <<file, align, walkVars, frameOff, base, readVars>>

Parsing == pc = "parse" /\ have.n >= 0 /\ Avail >= 4
Verdict == ProbeFrame(Header, Avail)

\* The payload to skip, and how much of the file is left for it.
SkipFits == /\ pos <= file.size
            /\ file.size - pos >= 8
            /\ Header.skip <= file.size - pos - 8

\* A skippable frame within the bound: on to the next header.
SkipFrame ==
  /\ Parsing
  /\ Verdict = "skip"
  /\ SkipFits
  /\ frames < MaxSkips
  /\ pos' = pos + 8 + Header.skip
  /\ frames' = frames + 1
  /\ pc' = "frame"
  /\ UNCHANGED <<file, align, have, blockSet, frameOff, base, readVars,
                 scratch, own, result>>

\* A skippable frame too many, or one that runs past the end of the file.
SkipRefused ==
  /\ Parsing
  /\ Verdict = "skip"
  /\ ~ SkipFits \/ frames >= MaxSkips
  /\ pos' = IF SkipFits THEN pos + 8 + Header.skip ELSE pos
  /\ Finish("declined", TRUE)
  /\ UNCHANGED <<file, align, frames, have, blockSet, frameOff, base,
                 readVars>>

Malformed ==
  /\ Parsing
  /\ Verdict \notin {"skip", "ok"}
  /\ Finish("declined", TRUE)
  /\ UNCHANGED <<file, align, walkVars, frameOff, base, readVars>>

Accepted ==
  /\ Parsing
  /\ Verdict = "ok"
  /\ Finish("ok", FALSE)
  /\ UNCHANGED <<file, align, walkVars, frameOff, base, readVars>>

-----------------------------------------------------------------------------
\* The handler is done with the request.
Return ==
  /\ pc = "done"
  /\ pc' = "idle"
  /\ Fresh(NoFile, 0)
  /\ result' = NoResult
  /\ UNCHANGED <<scratch, own>>

Begin ==
  \E f \in Files :
    \/ TooSmall(f)
    \/ BeginBuffered(f)
    \/ \E conf \in Alignments :
         \/ BeginScratch(f, conf)
         \/ BeginPool(f, conf)
         \/ NoBuffer(f, conf)

Pread ==
  \/ \E k \in ShortCounts : Transfer(k)
  \/ pc = "read" /\ Available > 0 /\ Transfer(Available)
  \/ EndOfFile
  \/ ReadError
  \/ Account

Judge ==
  \/ NoHeader
  \/ SkipFrame
  \/ SkipRefused
  \/ Malformed
  \/ Accepted

Next ==
  \/ Begin
  \/ ReuseBlock
  \/ BeginRead
  \/ Pread
  \/ Judge
  \/ Return

Spec == Init /\ [][Next]_vars

\* A worker that probes goes on with it: the handler is synchronous and the
\* kernel does not interrupt a call for ever.
FairSpec == Spec /\ WF_vars(ReuseBlock \/ BeginRead \/ Pread \/ Judge)

-----------------------------------------------------------------------------
(* Properties *)

\* The reference: the first n bytes of the file are enough for a browser to
\* decode it.  It starts with at most MaxSkips skippable frames, behind which
\* there is a whole header of a regular frame with a window within the limit.
Decodable(f, n) ==
  LET last == f.frames[Len(f.frames)] IN
  /\ Len(f.frames) - 1 <= MaxSkips
  /\ last.header.magic = "zstd"
  /\ ~ last.header.reserved
  /\ Window(last.header) <= MaxWindow
  /\ last.at + HeaderLen(last.header) <= n

\* The bytes the file had when it was opened and still has.  The verdict table
\* files a verdict under the size at the open, so a file that has grown since
\* is judged by the length it had, and one that has shrunk by what is left.
Steady(f) == Minimum(f.len, f.size)

\* The one exception: the device gave up inside a block, where pread() stops so
\* as not to read the same part for ever (static_module.c:616-636), and what
\* landed is not all of the header that was judged.
HeaderCut ==
  /\ stalled
  /\ Avail < IF Header.magic = "zstd" THEN HeaderLen(Header) ELSE 8

\* Whatever the reads returned, and however the block was reused, the probe
\* accepts only files a browser decodes; and a file it calls malformed, which
\* the verdict table then holds until the file changes, is malformed within
\* the bytes it had at the open and still has, but for a header cut by the
\* device.  Neither a failed read, nor a missing buffer, nor a short read that
\* could be resumed is held against it (static_module.c:519-526, :1035-1113,
\* :1361, :1385, :1864).
VerdictProven ==
  /\ result.rc = "ok" => Decodable(file, file.len)
  /\ result.malformed => ~ Decodable(file, Steady(file)) \/ HeaderCut

\* The header judged is the one looked for, and the bytes it is judged by
\* were read into the buffer (static_module.c:1263-1316, frame_probe.h:290).
HeaderInBlock ==
  pc = "parse" /\ have.n > 0 =>
    /\ have.at + frameOff = pos
    /\ have.at + have.n <= file.len
    /\ have.n <= Want

\* Offset, length and buffer address of every directio read are multiples of
\* the alignment, also when a short read is resumed, and the buffer is large
\* enough; the worker's scratch buffer is busy exactly while a probe holds it,
\* so that no way out is paid for by later probes (static_module.c:534-552,
\* :1204-1220, :1452-1454).
DirectioLegal ==
  /\ pc = "read" /\ Directio =>
       /\ (base + done) % align = 0
       /\ (Want - done) % align = 0
       /\ done < Want
       /\ own => scratch.cap >= Want /\ scratch.align % align = 0
  /\ scratch.busy <=> own

\* A probe comes to an end, whatever the device answers
\* (static_module.c:616-644).
ProbeEnds == pc = "frame" ~> pc = "done"
=============================================================================
