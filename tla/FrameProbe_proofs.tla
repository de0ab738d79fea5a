-------------------------- MODULE FrameProbe_proofs --------------------------
(***************************************************************************)
(* Proofs about how a worker judges sidecar files: the frame probe, and    *)
(* the table of the verdicts it has reached.                               *)
(*                                                                         *)
(* The probe, for every set of files, every sequence of short reads, and   *)
(* every set of alignments:                                                *)
(*   - the header judged is the one looked for (HeaderInBlock);            *)
(*   - every directio read is legal (DirectioLegal);                       *)
(*   - the verdict on a file is the right one (VerdictProven).             *)
(* They rest on one invariant, ProbeInv: where the walk is in the file,    *)
(* what the block in the buffer covers, and why pread() stopped.           *)
(*                                                                         *)
(* The table, for every number of slots and every set of files, locations  *)
(* and lifetimes: a file has one verdict (OneVerdictPerFile), every        *)
(* verdict is found (AllVerdictsScanned), and none is honoured for too     *)
(* long (StalenessBounded).  They rest on TableInv.                        *)
(***************************************************************************)
EXTENDS FrameProbe, VerdictCache, TLAPS, WellFoundedInduction

-----------------------------------------------------------------------------
(* Arithmetic *)

\* Every set of naturals that is not empty has a least element.
LEMMA LeastNat ==
  ASSUME NEW S, S \subseteq Nat, S # {}
  PROVE  \E m \in S : \A n \in S : m <= n
<1> DEFINE R == {ss \in Nat \X Nat : ss[1] < ss[2]}
<1>1. IsWellFoundedOn(R, Nat)
  BY NatLessThanWellFounded DEF OpToRel
<1>2. PICK m \in S : \A y \in S : ~ (<<y, m>> \in R)
  <2> HIDE DEF R
  <2> QED
    BY <1>1, WFMin
<1>3. \A y \in S : ~ (y < m)
  BY <1>2
<1> QED
  BY <1>3

\* Rounding down to a block, the base of every directio read
\* (static_module.c:1282-1292).
LEMMA RoundDown ==
  ASSUME NEW x \in Nat, NEW a \in Nat, a > 0
  PROVE  /\ x % a \in Nat /\ x % a < a /\ x % a <= x
         /\ x - (x % a) \in Nat /\ (x - (x % a)) % a = 0
OBVIOUS

LEMMA Quotient ==
  ASSUME NEW x \in Nat, NEW a \in Nat, a > 0, x % a = 0
  PROVE  \E q \in Int : x = a * q
<1>1. x \div a \in Int /\ x = a * (x \div a)
  OBVIOUS
<1> QED
  BY <1>1

LEMMA Multiple ==
  ASSUME NEW q \in Int, NEW a \in Nat, a > 0
  PROVE  (a * q) % a = 0
OBVIOUS

\* Multiples of the alignment are closed under the sums and differences of
\* a resumed read (static_module.c:545-552).
LEMMA MultiplesAdd ==
  ASSUME NEW a \in Nat, a > 0, NEW x \in Nat, NEW y \in Nat,
         x % a = 0, y % a = 0
  PROVE  (x + y) % a = 0
<1>1. PICK q \in Int : x = a * q
  BY Quotient
<1>2. PICK r \in Int : y = a * r
  BY Quotient
<1>3. x + y = a * (q + r)
  BY <1>1, <1>2
<1>4. (a * (q + r)) % a = 0
  BY Multiple
<1> QED
  BY <1>3, <1>4

LEMMA TwoBlocksLeft ==
  ASSUME NEW a \in Nat, a > 0, NEW x \in Nat, x % a = 0
  PROVE  (2 * a - x) % a = 0
<1>1. PICK q \in Int : x = a * q
  BY Quotient
<1>2. 2 * a - x = a * (2 - q)
  BY <1>1
<1>3. (a * (2 - q)) % a = 0
  BY Multiple
<1> QED
  BY <1>2, <1>3

\* The next multiple of the alignment, which a read past x cannot reach
\* without rounding down to at least x.
LEMMA RoundDownPast ==
  ASSUME NEW a \in Nat, a > 0, NEW x \in Nat, NEW y \in Nat, x % a = 0, x <= y
  PROVE  x <= y - (y % a)
<1>1. PICK q \in Int : x = a * q
  BY Quotient
<1>2. PICK r \in Int : y - (y % a) = a * r
  BY RoundDown, Quotient
<1>3. y < a * r + a /\ a * r + a = a * (r + 1)
  BY <1>2, RoundDown
<1>4. q <= r
  <2> SUFFICES ASSUME r + 1 <= q PROVE FALSE
    OBVIOUS
  <2>1. a * (r + 1) <= a * q
    OBVIOUS
  <2> QED
    BY <2>1, <1>1, <1>3
<1>5. a * q <= a * r
  BY <1>4
<1> QED
  BY <1>1, <1>2, <1>5

-----------------------------------------------------------------------------
(* Files *)

\* The frames of a file, by the kind of their header.
LEMMA FrameHeaders ==
  ASSUME NEW fr, FrameChain(fr), NEW k \in 1 .. Len(fr)
  PROVE  /\ Len(fr) \in Nat
         /\ fr[k].at \in Nat
         /\ fr[k].header \in Headers
         /\ k < Len(fr) <=> fr[k].header.magic = "skip"
         /\ fr[k].header.magic = "skip" => fr[k].header.skip \in Nat
<1>1. fr[k] \in [at : Nat, header : Headers] /\ Len(fr) \in Nat
  <2> DEFINE S == [at : Nat, header : Headers]
  <2>1. fr \in Seq(S)
    BY DEF FrameChain
  <2> HIDE DEF S
  <2>2. fr[k] \in S /\ Len(fr) \in Nat
    BY <2>1
  <2> QED
    BY <2>2 DEF S
<1>2. k < Len(fr) => fr[k].header.magic = "skip"
  BY <1>1 DEF FrameChain
<1>3. k = Len(fr) => fr[k].header.magic # "skip"
  BY DEF FrameChain
<1>4. fr[k].header.magic = "skip" => fr[k].header.skip \in Nat
  BY <1>1 DEF Headers
<1> QED
  BY <1>1, <1>2, <1>3, <1>4

\* A later frame starts at least a skippable header further on.
LEMMA OffsetsGrow ==
  ASSUME NEW fr, FrameChain(fr),
         NEW j \in 1 .. Len(fr), NEW k \in 1 .. Len(fr), j < k
  PROVE  fr[j].at + 8 <= fr[k].at
<1> DEFINE Early == {i \in j + 1 .. Len(fr) : fr[i].at < fr[j].at + 8}
<1>1. Len(fr) \in Nat /\ fr[j].at \in Nat /\ fr[k].at \in Nat
  BY FrameHeaders
<1> SUFFICES ASSUME k \in Early PROVE FALSE
  BY <1>1
<1>2. PICK m \in Early : \A i \in Early : m <= i
  <2>1. Early \subseteq Nat
    BY <1>1
  <2> HIDE DEF Early
  <2> QED
    BY <2>1, LeastNat
<1>3. PICK i \in 1 .. Len(fr) - 1 : i = m - 1
  BY <1>1
<1>4. /\ fr[i + 1].at = fr[i].at + 8 + fr[i].header.skip
      /\ fr[i].header.magic = "skip"
  BY DEF FrameChain
<1>5. fr[i].header.skip \in Nat /\ fr[i].at \in Nat
  BY SMTT(30), <1>1, <1>4, FrameHeaders
<1>6. i \notin Early
  BY <1>1, <1>2, <1>3
<1>7. fr[i].at >= fr[j].at
  <2>1. CASE i = j
    BY <2>1, <1>1
  <2>2. CASE i # j
    BY <2>2, <1>1, <1>3, <1>5, <1>6
  <2> QED
    BY <2>1, <2>2
<1>8. fr[i + 1].at < fr[j].at + 8
  BY <1>1, <1>3
<1>9. \A a, b, c \in Nat : a >= b => ~ (a + 8 + c < b + 8)
  OBVIOUS
<1> QED
  BY <1>1, <1>4, <1>5, <1>7, <1>8, <1>9, Zenon

\* The header at a frame's offset is that frame's: no other frame starts
\* there.
LEMMA HeaderAtFrame ==
  ASSUME NEW f, FrameChain(f.frames), NEW k \in 1 .. Len(f.frames)
  PROVE  HeaderAt(f, f.frames[k].at) = f.frames[k].header
<1> DEFINE fr == f.frames
           c == CHOOSE i \in DOMAIN fr : fr[i].at = fr[k].at
<1>1. FrameChain(fr) /\ k \in 1 .. Len(fr)
  OBVIOUS
<1>2. HeaderAt(f, fr[k].at) = IF \E i \in DOMAIN fr : fr[i].at = fr[k].at
                              THEN fr[c].header ELSE [magic |-> "other"]
  BY DEF HeaderAt
<1> HIDE DEF fr
<1>3. DOMAIN fr = 1 .. Len(fr) /\ Len(fr) \in Nat
  BY <1>1 DEF FrameChain
<1>4. c \in 1 .. Len(fr) /\ fr[c].at = fr[k].at
  BY <1>1, <1>3
<1> HIDE DEF c
<1>5. ~ (c < k) /\ ~ (k < c)
  BY <1>1, <1>4, OffsetsGrow, FrameHeaders
<1>6. c = k
  BY <1>1, <1>3, <1>4, <1>5
<1>7. HeaderAt(f, fr[k].at) = fr[k].header
  BY <1>1, <1>2, <1>3, <1>6
<1> QED
  BY <1>7 DEF fr

\* The header of a regular frame fits into the HeaderMax bytes the probe
\* asks for (frame_probe.h:190-250).
LEMMA HeaderLenBound ==
  ASSUME NEW h \in Headers, h.magic = "zstd"
  PROVE  /\ HeaderLen(h) \in 6 .. 17
         /\ Window(h) \in Int
         /\ h.reserved \in BOOLEAN
<1>1. h \in [magic : {"zstd"}, reserved : BOOLEAN, single : BOOLEAN,
             fcsFlag : 0 .. 3, did : 0 .. 3, exp : 0 .. 31, mant : 0 .. 7,
             fcs : Nat]
  BY DEF Headers
<1>2. FcsSize(h) \in {1, 2, 4, 8}
  <2>1. h.fcsFlag \in {0, 1, 2, 3}
    BY <1>1
  <2>2. CASE h.fcsFlag = 0
    BY <2>2 DEF FcsSize
  <2>3. CASE h.fcsFlag = 1
    BY <2>3 DEF FcsSize
  <2>4. CASE h.fcsFlag = 2
    BY <2>4 DEF FcsSize
  <2>5. CASE h.fcsFlag = 3
    BY <2>5 DEF FcsSize
  <2> QED
    BY <2>1, <2>2, <2>3, <2>4, <2>5
<1>3. DidLen[h.did + 1] \in {0, 1, 2, 4}
  <2>1. h.did \in {0, 1, 2, 3}
    BY <1>1
  <2> QED
    BY <2>1 DEF DidLen
<1>4. HeaderLen(h) \in 6 .. 17
  BY <1>2, <1>3 DEF HeaderLen
<1>5. Window(h) \in Int
  <2>1. h.exp \in Nat /\ h.mant \in Nat /\ h.fcs \in Nat
    BY <1>1
  <2>2. 2 ^ (10 + h.exp) \in Int /\ 2 ^ (7 + h.exp) \in Int
    BY <2>1
  <2> QED
    BY <2>1, <2>2 DEF Window
<1> QED
  BY <1>1, <1>4, <1>5

-----------------------------------------------------------------------------
(* The inductive invariant *)

TypeOK ==
  /\ pc \in {"idle", "frame", "read", "got", "parse", "done"}
  /\ align \in Nat /\ pos \in Nat /\ frames \in Nat
  /\ have \in [base : Nat, n : Nat \cup {-1}, at : Nat]
  /\ blockSet \in BOOLEAN
  /\ frameOff \in Nat /\ base \in Nat
  /\ done \in Nat /\ prev \in Nat /\ got \in Nat
  /\ stalled \in BOOLEAN
  /\ scratch \in [cap : Nat, align : Nat, busy : BOOLEAN]
  /\ own \in BOOLEAN
  /\ result \in [rc : {"none", "ok", "declined", "error"},
                 malformed : BOOLEAN]
  /\ pc # "idle" => file \in Files

\* The alignments a location can ask for, which are also those the scratch
\* buffer can have (static_module.c:1175-1204).
DioAligns == {ProbeAlign(c) : c \in Alignments \ {0}}

AlignInv ==
  /\ align \in DioAligns \cup {0}
  /\ scratch.align \in DioAligns \cup {0}
  /\ scratch.busy <=> own
  /\ pc \in {"idle", "done"} => ~ own
  /\ own => /\ align # 0
            /\ scratch.cap >= 2 * align
            /\ scratch.align >= align

\* The walk is at one of the file's frames, no more than MaxSkips frames in.
WalkInv ==
  pc \in {"frame", "read", "got", "parse"} =>
    /\ frames <= MaxSkips
    /\ frames + 1 \in 1 .. Len(file.frames)
    /\ pos = file.frames[frames + 1].at

\* The block held came from where have.base says, and from inside the file.
BlockInv ==
  pc # "done" /\ have.n > 0 =>
    /\ have.at = have.base
    /\ have.at + have.n <= file.len
    /\ have.n <= Want

\* A read in progress: at a block boundary, short of the buffer's end, and
\* with nothing gathered from behind the end of the file.
ReadInv ==
  pc \in {"read", "got"} =>
    /\ prev = done /\ done < Want
    /\ base + frameOff = pos
    /\ align = 0 => frameOff = 0
    /\ align # 0 => base % align = 0 /\ done % align = 0 /\ frameOff < align
    /\ done > 0 => base + done <= file.len
    /\ pc = "got" => /\ got > 0
                     /\ done + got <= Want
                     /\ base + done + got <= file.len

\* Why a read stopped: a whole header is there, or the file ends here, or as
\* much is there as the file had when it was opened, or the device stalled.
ParseInv ==
  pc = "parse" /\ have.n >= 0 =>
    /\ have.at + frameOff = pos
    /\ \/ stalled
       \/ have.n - frameOff >= HeaderMax
       \/ have.at + have.n >= file.len
       \/ /\ have.n - frameOff >= 4
          /\ have.n - frameOff >= file.size - pos

ResultInv ==
  IF pc = "done" THEN VerdictProven ELSE result = NoResult

ProbeInv ==
  TypeOK /\ AlignInv /\ WalkInv /\ BlockInv /\ ReadInv /\ ParseInv /\ ResultInv

-----------------------------------------------------------------------------
(* Facts the steps share *)

LEMMA AlignRange ==
  ASSUME NEW a \in DioAligns
  PROVE  a \in Nat /\ a >= HeaderMax /\ a > 0
<1>1. PICK c \in Alignments \ {0} : a = ProbeAlign(c)
  BY DEF DioAligns
<1> QED
  BY <1>1, ProbeBounds DEF ProbeAlign, Minimum, Maximum, HeaderMax

\* The buffer holds a header wherever in its first block the header starts.
LEMMA WantRange ==
  ASSUME AlignInv
  PROVE  /\ Want \in Nat
         /\ align = 0 => Want >= HeaderMax
         /\ align # 0 => /\ align \in Nat /\ align > 0
                         /\ Want = 2 * align /\ Want - align >= HeaderMax
BY AlignRange, ProbeBounds DEF AlignInv, Want, HeaderMax

\* Neither growing nor shrinking adds to what a verdict is held to.
LEMMA SteadyRange ==
  ASSUME NEW f \in Files
  PROVE  Steady(f) \in Nat /\ Steady(f) <= f.len /\ Steady(f) <= f.size
BY FilesAreFrames DEF Steady, Minimum

\* A file decoded from its first n bytes has every byte of its leading frames
\* and of the header behind them among those.
LEMMA DecodableLength ==
  ASSUME NEW f \in Files, NEW n \in Nat, Decodable(f, n),
         NEW k \in 1 .. Len(f.frames)
  PROVE  /\ k - 1 <= MaxSkips
         /\ f.frames[k].at + 6 <= n
         /\ k < Len(f.frames) =>
              f.frames[k].at + 8 + f.frames[k].header.skip + 6 <= n
         /\ k = Len(f.frames) =>
              /\ f.frames[k].header.magic = "zstd"
              /\ ~ f.frames[k].header.reserved
              /\ Window(f.frames[k].header) <= MaxWindow
              /\ f.frames[k].at + HeaderLen(f.frames[k].header) <= n
<1> DEFINE fr == f.frames
           final == fr[Len(fr)]
<1>1. FrameChain(fr) /\ k \in 1 .. Len(fr)
  BY FilesAreFrames
<1>2. /\ Len(fr) - 1 <= MaxSkips
      /\ final.header.magic = "zstd"
      /\ ~ final.header.reserved
      /\ Window(final.header) <= MaxWindow
      /\ final.at + HeaderLen(final.header) <= n
  BY DEF Decodable
<1> HIDE DEF fr
<1>3. Len(fr) \in Nat /\ Len(fr) \in 1 .. Len(fr)
  BY <1>1, FrameHeaders
<1>4. final.at \in Nat /\ HeaderLen(final.header) \in 6 .. 17
  BY <1>1, <1>2, <1>3, FrameHeaders, HeaderLenBound
<1>5. final.at + 6 <= n
  BY SMTT(30), <1>1, <1>2, <1>4
<1>6. k - 1 <= MaxSkips
  BY <1>1, <1>2, <1>3, ProbeBounds
<1>7. CASE k = Len(fr)
  BY <1>2, <1>5, <1>6, <1>7, <1>3 DEF fr
<1>8. CASE k < Len(fr)
  <2>1. k + 1 \in 1 .. Len(fr) /\ k \in 1 .. Len(fr) - 1
    BY <1>1, <1>3, <1>8
  <2>2. fr[k + 1].at = fr[k].at + 8 + fr[k].header.skip
    BY <1>1, <2>1 DEF FrameChain
  <2>3. /\ fr[k].at \in Nat /\ fr[k + 1].at \in Nat
        /\ fr[k].header.skip \in Nat
    BY <1>1, <1>8, <2>1, FrameHeaders
  <2>4. fr[k + 1].at <= final.at
    <3>1. CASE k + 1 = Len(fr)
      BY <3>1, <1>4
    <3>2. CASE k + 1 < Len(fr)
      <4>1. fr[k + 1].at + 8 <= final.at
        BY <1>1, <1>3, <2>1, <3>2, OffsetsGrow
      <4> QED
        BY <4>1, <2>3, <1>4
    <3> QED
      BY <1>1, <1>3, <1>8, <3>1, <3>2
  <2>5. \A a, s, b, c, m \in Nat :
          a = b + 8 + s /\ a <= c /\ c + 6 <= m
          => b + 6 <= m /\ b + 8 + s + 6 <= m
    OBVIOUS
  <2>6. fr[k].at + 6 <= n /\ fr[k].at + 8 + fr[k].header.skip + 6 <= n
    BY <1>1, <1>4, <1>5, <2>2, <2>3, <2>4, <2>5, Zenon
  <2> QED
    BY <1>6, <1>8, <2>6, <1>3 DEF fr
<1> QED
  BY <1>1, <1>3, <1>7, <1>8

-----------------------------------------------------------------------------
(* The steps *)

LEMMA ProbeInit == Init => ProbeInv
<1> SUFFICES ASSUME Init PROVE ProbeInv
  OBVIOUS
<1>1. TypeOK
  BY DEF Init, TypeOK, NoResult
<1>2. AlignInv
  BY DEF Init, AlignInv
<1>3. WalkInv /\ ReadInv /\ ParseInv /\ ResultInv
  BY DEF Init, WalkInv, ReadInv, ParseInv, ResultInv
<1>4. BlockInv
  BY DEF Init, BlockInv
<1> QED
  BY <1>1, <1>2, <1>3, <1>4 DEF ProbeInv

\* Whatever the buffer comes from, a probe starts at the file's first frame
\* with no block held.
LEMMA BeginKeeps ==
  ASSUME ProbeInv, Begin
  PROVE  ProbeInv'
<1> USE DEF ProbeInv
<1>1. PICK f \in Files :
        \/ TooSmall(f)
        \/ BeginBuffered(f)
        \/ \E conf \in Alignments :
             BeginScratch(f, conf) \/ BeginPool(f, conf) \/ NoBuffer(f, conf)
  BY DEF Begin
<1>2. pc = "idle" /\ ~ own /\ ~ scratch.busy
  BY <1>1 DEF TooSmall, BeginBuffered, BeginScratch, BeginPool, NoBuffer,
              AlignInv
<1>3. /\ FrameChain(f.frames) /\ f.frames[1].at = 0
      /\ 1 \in 1 .. Len(f.frames)
      /\ f.len \in Nat /\ f.size \in Nat
  <2>1. FrameChain(f.frames) /\ f.len \in Nat /\ f.size \in Nat
    BY FilesAreFrames
  <2>2. \A fr : FrameChain(fr) => fr[1].at = 0 /\ 1 \in 1 .. Len(fr)
    BY DEF FrameChain
  <2> QED
    BY <2>1, <2>2
<1>4. ASSUME NEW al \in Nat, al \in DioAligns \cup {0}, Fresh(f, al),
             pc' = "frame", result' = NoResult, own' \in BOOLEAN,
             scratch' \in [cap : Nat, align : Nat, busy : BOOLEAN]
      PROVE  /\ TypeOK' /\ WalkInv' /\ BlockInv' /\ ReadInv' /\ ParseInv'
             /\ ResultInv'
  <2>1. TypeOK'
    BY <1>4 DEF Fresh, TypeOK, NoResult
  <2>2. WalkInv'
    BY <1>3, <1>4, ProbeBounds DEF Fresh, WalkInv
  <2>3. BlockInv' /\ ReadInv' /\ ParseInv' /\ ResultInv'
    BY <1>4 DEF Fresh, BlockInv, ReadInv, ParseInv, ResultInv
  <2> QED
    BY <2>1, <2>2, <2>3
<1>5. ASSUME NEW al \in Nat, Fresh(f, al), pc' = "done", own' = FALSE,
             result' \in [rc : {"declined", "error"}, malformed : BOOLEAN],
             result'.malformed => ~ Decodable(f, Steady(f)),
             scratch' \in [cap : Nat, align : Nat, busy : BOOLEAN]
      PROVE  /\ TypeOK' /\ WalkInv' /\ BlockInv' /\ ReadInv' /\ ParseInv'
             /\ ResultInv'
  <2>1. TypeOK' /\ WalkInv' /\ BlockInv' /\ ReadInv' /\ ParseInv'
    BY <1>5 DEF Fresh, TypeOK, WalkInv, BlockInv, ReadInv, ParseInv
  <2>2. file' = f /\ result'.rc # "ok"
    BY <1>5 DEF Fresh
  <2> QED
    BY <1>5, <2>1, <2>2 DEF ResultInv, VerdictProven, Decodable, Steady
<1>6. \A conf \in Alignments :
        conf # 0 => ProbeAlign(conf) \in DioAligns /\ ProbeAlign(conf) \in Nat
                    /\ ProbeAlign(conf) # 0
  BY AlignRange DEF DioAligns
<1>7. CASE TooSmall(f)
  <2>1. ~ Decodable(f, Steady(f))
    BY <1>3, <1>7, SteadyRange, DecodableLength DEF TooSmall
  <2>2. TypeOK' /\ WalkInv' /\ BlockInv' /\ ReadInv' /\ ParseInv' /\ ResultInv'
    BY <1>5, <1>7, <2>1 DEF TooSmall, Finish, TypeOK
  <2>3. AlignInv'
    BY <1>2, <1>7 DEF TooSmall, Finish, Fresh, AlignInv, TypeOK
  <2> QED
    BY <2>2, <2>3
<1>8. CASE BeginBuffered(f)
  <2>1. TypeOK' /\ WalkInv' /\ BlockInv' /\ ReadInv' /\ ParseInv' /\ ResultInv'
    BY <1>4, <1>8 DEF BeginBuffered, TypeOK
  <2>2. AlignInv'
    BY <1>2, <1>8 DEF BeginBuffered, Fresh, AlignInv, TypeOK
  <2> QED
    BY <2>1, <2>2
<1>9. ASSUME NEW conf \in Alignments, BeginScratch(f, conf)
      PROVE  ProbeInv'
  <2> DEFINE al == ProbeAlign(conf)
  <2>1. al \in DioAligns /\ al \in Nat /\ al # 0
    BY <1>6, <1>9 DEF BeginScratch
  <2>2. /\ Fresh(f, al) /\ pc' = "frame" /\ own' = TRUE /\ result' = NoResult
        /\ scratch' = IF ScratchTooSmall(2 * al, al)
                      THEN [cap |-> 2 * al, align |-> al, busy |-> TRUE]
                      ELSE [scratch EXCEPT !.busy = TRUE]
    BY <1>9 DEF BeginScratch
  <2> HIDE DEF al
  <2>3. /\ scratch' \in [cap : Nat, align : Nat, busy : BOOLEAN]
        /\ scratch'.busy /\ scratch'.cap >= 2 * al /\ scratch'.align >= al
        /\ scratch'.align \in DioAligns \cup {0}
    <3>1. /\ scratch \in [cap : Nat, align : Nat, busy : BOOLEAN]
          /\ scratch.align \in DioAligns \cup {0}
      BY DEF TypeOK, AlignInv
    <3>2. CASE ScratchTooSmall(2 * al, al)
      BY <2>1, <2>2, <3>2
    <3>3. CASE ~ ScratchTooSmall(2 * al, al)
      <4>1. /\ scratch' \in [cap : Nat, align : Nat, busy : BOOLEAN]
            /\ scratch'.cap = scratch.cap /\ scratch'.align = scratch.align
            /\ scratch'.busy = TRUE
        BY <2>2, <3>1, <3>3
      <4>2. scratch.cap >= 2 * al /\ scratch.align >= al
        BY <2>1, <3>1, <3>3 DEF ScratchTooSmall
      <4> QED
        BY <3>1, <4>1, <4>2
    <3> QED
      BY <3>2, <3>3
  <2>4. TypeOK' /\ WalkInv' /\ BlockInv' /\ ReadInv' /\ ParseInv' /\ ResultInv'
    BY <1>4, <2>1, <2>2, <2>3
  <2>5. AlignInv'
    BY <2>1, <2>2, <2>3 DEF AlignInv, Fresh
  <2> QED
    BY <2>4, <2>5
<1>10. ASSUME NEW conf \in Alignments, BeginPool(f, conf)
       PROVE  ProbeInv'
  <2>1. ProbeAlign(conf) \in DioAligns /\ ProbeAlign(conf) \in Nat
    BY <1>6, <1>10 DEF BeginPool
  <2>2. TypeOK' /\ WalkInv' /\ BlockInv' /\ ReadInv' /\ ParseInv' /\ ResultInv'
    BY <1>4, <1>10, <2>1 DEF BeginPool, TypeOK
  <2>3. AlignInv'
    BY <1>2, <1>10, <2>1 DEF BeginPool, Fresh, AlignInv
  <2> QED
    BY <2>2, <2>3
<1>11. ASSUME NEW conf \in Alignments, NoBuffer(f, conf)
       PROVE  ProbeInv'
  <2>1. ProbeAlign(conf) \in DioAligns /\ ProbeAlign(conf) \in Nat
    BY <1>6, <1>11 DEF NoBuffer
  <2>2. TypeOK' /\ WalkInv' /\ BlockInv' /\ ReadInv' /\ ParseInv' /\ ResultInv'
    BY <1>5, <1>11, <2>1 DEF NoBuffer, Finish, TypeOK
  <2>3. AlignInv'
    BY <1>2, <1>11, <2>1 DEF NoBuffer, Finish, Fresh, AlignInv, TypeOK
  <2> QED
    BY <2>2, <2>3
<1> QED
  BY <1>1, <1>7, <1>8, <1>9, <1>10, <1>11

\* probe_reuse() hands out a block that covers the header, or as much of it
\* as the file had (static_module.c:1263-1280).
LEMMA ReuseKeeps ==
  ASSUME ProbeInv, ReuseBlock
  PROVE  ProbeInv'
<1> USE DEF ProbeInv
<1>1. /\ pc = "frame" /\ pc' = "parse" /\ Reusable
      /\ frameOff' = pos - have.base /\ base' = have.base
      /\ UNCHANGED <<file, align, pos, frames, have, blockSet, done, prev, got,
                     stalled, scratch, own, result>>
  BY DEF ReuseBlock, walkVars, readVars
<1>2. /\ file \in Files /\ file.size \in Nat /\ file.len \in Nat
      /\ pos \in Nat /\ have.base \in Nat /\ have.n \in Nat
      /\ pos >= have.base /\ have.n > 0
      /\ have.n - (pos - have.base) >= Need
  BY <1>1, FilesAreFrames DEF TypeOK, Reusable
<1>3. TypeOK'
  BY <1>1, <1>2 DEF TypeOK
<1>4. Want' = Want
  BY <1>1 DEF Want
<1>5. AlignInv' /\ WalkInv' /\ BlockInv' /\ ReadInv' /\ ResultInv'
  BY <1>1, <1>4 DEF AlignInv, WalkInv, BlockInv, ReadInv, ResultInv
<1>6. ParseInv'
  <2>1. have.at = have.base
    BY <1>1, <1>2 DEF BlockInv
  <2>2. \/ have.n - (pos - have.base) >= HeaderMax
        \/ /\ have.n - (pos - have.base) >= 4
           /\ have.n - (pos - have.base) >= file.size - pos
    BY <1>2 DEF Need, Minimum, Maximum, HeaderMax
  <2>3. have.at + (pos - have.base) = pos
    BY <1>2, <2>1
  <2> QED
    BY <1>1, <2>2, <2>3 DEF ParseInv
<1> QED
  BY <1>3, <1>5, <1>6

\* A read starts at the header, under directio at the block the header
\* starts in (static_module.c:1282-1299).
LEMMA BeginReadKeeps ==
  ASSUME ProbeInv, BeginRead
  PROVE  ProbeInv'
<1> USE DEF ProbeInv
<1>1. /\ pc = "frame" /\ pc' = "read"
      /\ frameOff' = IF align # 0 THEN pos % align ELSE 0
      /\ base' = IF align # 0 THEN pos - (pos % align) ELSE pos
      /\ done' = 0 /\ prev' = 0 /\ got' = 0 /\ stalled' = FALSE
      /\ UNCHANGED <<file, align, pos, frames, have, blockSet, scratch, own,
                     result>>
  BY DEF BeginRead, walkVars, Directio
<1>2. pos \in Nat /\ align \in Nat
  BY DEF TypeOK
<1>3. /\ frameOff' \in Nat /\ base' \in Nat /\ base' + frameOff' = pos
      /\ align = 0 => frameOff' = 0
      /\ align # 0 => base' % align = 0 /\ frameOff' < align
  <2>1. CASE align = 0
    BY <1>1, <1>2, <2>1
  <2>2. CASE align # 0
    <3>1. /\ pos % align \in Nat /\ pos % align < align
          /\ pos - (pos % align) \in Nat /\ (pos - (pos % align)) % align = 0
      <4>1. align > 0
        BY <1>2, <2>2
      <4> QED
        BY <1>2, <4>1, RoundDown, Zenon
    <3> QED
      BY <1>1, <1>2, <2>2, <3>1
  <2> QED
    BY <2>1, <2>2
<1>4. TypeOK'
  BY <1>1, <1>3 DEF TypeOK
<1>5. Want' = Want
  BY <1>1 DEF Want
<1>6. AlignInv' /\ WalkInv' /\ BlockInv' /\ ParseInv' /\ ResultInv'
  BY <1>1, <1>5 DEF AlignInv, WalkInv, BlockInv, ParseInv, ResultInv
<1>7. ReadInv'
  <2>1. Want > 0 /\ Want \in Nat
    BY WantRange DEF HeaderMax
  <2>2. align # 0 => 0 % align = 0
    BY <1>2
  <2> QED
    BY <1>1, <1>3, <1>5, <2>1, <2>2 DEF ReadInv
<1> QED
  BY <1>4, <1>6, <1>7

\* A system call returns some of what is left of the file and the buffer.
LEMMA TransferKeeps ==
  ASSUME ProbeInv, NEW k \in Nat, k > 0, Transfer(k)
  PROVE  ProbeInv'
<1> USE DEF ProbeInv
<1>1. /\ pc = "read" /\ pc' = "got" /\ k <= Available /\ got' = k
      /\ UNCHANGED <<file, align, pos, frames, have, blockSet, frameOff, base,
                     done, prev, stalled, scratch, own, result>>
  BY DEF Transfer, walkVars
<1>2. /\ Want \in Nat /\ file.len \in Nat /\ base \in Nat /\ done \in Nat
  BY <1>1, WantRange, FilesAreFrames DEF TypeOK
<1>3. done + k <= Want /\ base + done + k <= file.len
  BY <1>1, <1>2 DEF Available, Maximum, Minimum
<1>4. TypeOK'
  BY <1>1 DEF TypeOK
<1>5. Want' = Want
  BY <1>1 DEF Want
<1>6. AlignInv' /\ WalkInv' /\ BlockInv' /\ ParseInv' /\ ResultInv'
  BY <1>1, <1>5 DEF AlignInv, WalkInv, BlockInv, ParseInv, ResultInv
<1>7. ReadInv'
  BY <1>1, <1>3, <1>5 DEF ReadInv
<1> QED
  BY <1>4, <1>6, <1>7

\* What pread() hands to the caller when it returns n: a block from inside
\* the file, and a reason to have stopped.
LEMMA ReturnKeeps ==
  ASSUME ProbeInv, pc \in {"read", "got"},
         NEW n \in Nat \cup {-1}, PreadReturns(n),
         UNCHANGED <<file, align, pos, frames, frameOff, base, scratch, own,
                     result>>,
         done' \in Nat, prev' \in Nat, got' \in Nat, stalled' \in BOOLEAN,
         n > 0 => base + n <= file.len /\ n <= Want,
         n >= 0 => stalled' \/ n - frameOff >= HeaderMax \/ base + n >= file.len
  PROVE  ProbeInv'
<1> USE DEF ProbeInv
<1>1. /\ have' = [base |-> IF n > 0 THEN base ELSE have.base, n |-> n,
                  at |-> base]
      /\ blockSet' = (blockSet \/ n > 0) /\ pc' = "parse"
  BY DEF PreadReturns
<1>2. TypeOK'
  BY <1>1 DEF TypeOK
<1>3. Want' = Want
  BY DEF Want
<1>4. AlignInv' /\ WalkInv' /\ ReadInv' /\ ResultInv'
  BY <1>1 DEF AlignInv, WalkInv, ReadInv, ResultInv
<1>5. BlockInv'
  BY <1>1, <1>3 DEF BlockInv
<1>6. ParseInv'
  <2>1. base + frameOff = pos
    BY DEF ReadInv
  <2> QED
    BY <1>1, <2>1 DEF ParseInv
<1> QED
  BY <1>2, <1>4, <1>5, <1>6

LEMMA EndOfFileKeeps ==
  ASSUME ProbeInv, EndOfFile
  PROVE  ProbeInv'
<1> USE DEF ProbeInv
<1>1. /\ pc = "read" /\ Available = 0 /\ PreadReturns(done)
      /\ UNCHANGED <<file, align, pos, frames, frameOff, base, done, prev, got,
                     stalled, scratch, own, result>>
  BY DEF EndOfFile, readVars
<1>2. /\ Want \in Nat /\ file.len \in Nat /\ base \in Nat /\ done \in Nat
      /\ prev \in Nat /\ got \in Nat /\ stalled \in BOOLEAN
  BY <1>1, WantRange, FilesAreFrames DEF TypeOK
<1>3. done < Want /\ (done > 0 => base + done <= file.len)
  BY <1>1 DEF ReadInv
<1>4. base + done >= file.len
  BY <1>1, <1>2, <1>3 DEF Available, Maximum, Minimum
<1> QED
  BY <1>1, <1>2, <1>3, <1>4, ReturnKeeps

LEMMA ReadErrorKeeps ==
  ASSUME ProbeInv, ReadError
  PROVE  ProbeInv'
<1> USE DEF ProbeInv
<1>1. /\ pc = "read" /\ PreadReturns(-1)
      /\ UNCHANGED <<file, align, pos, frames, frameOff, base, done, prev, got,
                     stalled, scratch, own, result>>
  BY DEF ReadError, readVars
<1>2. done \in Nat /\ prev \in Nat /\ got \in Nat /\ stalled \in BOOLEAN
  BY DEF TypeOK
<1> QED
  BY <1>1, <1>2, ReturnKeeps

\* The resume point is a block boundary, never behind what was gathered
\* before and never past what is there (static_module.c:600-644).
LEMMA ResumeRange ==
  ASSUME ProbeInv, pc = "got"
  PROVE  /\ Resume \in Nat /\ done <= Resume /\ Resume <= done + got
         /\ align # 0 => Resume % align = 0
         /\ align = 0 => Resume = done + got
<1>1. done \in Nat /\ got \in Nat /\ align \in Nat
      /\ (align # 0 => done % align = 0)
  BY DEF ProbeInv, TypeOK, ReadInv
<1>2. CASE align = 0
  BY <1>1, <1>2 DEF Resume, Directio
<1>3. CASE align # 0
  <2> DEFINE y == done + got
  <2>1. Resume = y - (y % align)
    BY <1>1, <1>3 DEF Resume, Directio
  <2>2. y \in Nat /\ done <= y /\ align > 0
    BY <1>1, <1>3
  <2> HIDE DEF y
  <2>3. /\ y % align \in Nat /\ y % align <= y
        /\ y - (y % align) \in Nat /\ (y - (y % align)) % align = 0
    BY <1>1, <2>1, <2>2, RoundDown
  <2>4. done <= y - (y % align)
    BY <1>1, <1>3, <2>1, <2>2, RoundDownPast
  <2>5. y - (y % align) <= y
    BY <2>2, <2>3
  <2>6. Resume <= done + got
    BY <2>1, <2>5 DEF y
  <2> QED
    BY <1>3, <2>1, <2>3, <2>4, <2>6
<1> QED
  BY <1>2, <1>3

LEMMA AccountKeeps ==
  ASSUME ProbeInv, Account
  PROVE  ProbeInv'
<1> USE DEF ProbeInv
<1>1. /\ pc = "got"
      /\ UNCHANGED <<file, align, pos, frames, frameOff, base, got, scratch, own,
                     result>>
  BY DEF Account
<1>2. /\ Want \in Nat /\ file.len \in Nat /\ base \in Nat /\ done \in Nat
      /\ prev \in Nat /\ got \in Nat /\ stalled \in BOOLEAN /\ align \in Nat
      /\ frameOff \in Nat
  BY <1>1, WantRange, FilesAreFrames DEF TypeOK
<1>3. /\ prev = done /\ done < Want /\ base + frameOff = pos
      /\ align = 0 => frameOff = 0
      /\ align # 0 => base % align = 0 /\ done % align = 0 /\ frameOff < align
      /\ got > 0 /\ done + got <= Want /\ base + done + got <= file.len
  BY <1>1 DEF ReadInv
<1>4. /\ Resume \in Nat /\ done <= Resume /\ Resume <= done + got
      /\ align # 0 => Resume % align = 0
      /\ align = 0 => Resume = done + got
  BY <1>1, ResumeRange
<1>5. CASE align # 0 /\ Resume = prev
  <2>1. /\ PreadReturns(prev + got)
        /\ stalled' = (base + prev + got < file.len)
        /\ done' = done /\ prev' = prev
    BY <1>5 DEF Account, Directio
  <2>2. /\ prev + got \in Nat /\ prev + got <= Want
        /\ base + (prev + got) <= file.len
        /\ base + prev + got < file.len \/ base + (prev + got) >= file.len
    BY <1>2, <1>3
  <2>3. /\ stalled' \/ base + (prev + got) >= file.len
        /\ stalled' \in BOOLEAN
    <3>1. CASE base + prev + got < file.len
      BY <2>1, <3>1
    <3>2. CASE ~ (base + prev + got < file.len)
      BY <2>1, <2>2, <3>2
    <3> QED
      BY <3>1, <3>2
  <2> QED
    BY <1>1, <1>2, <2>1, <2>2, <2>3, ReturnKeeps
<1>6. CASE ~ (align # 0 /\ Resume = prev)
  <2>1. Gathered
    BY <1>6 DEF Account, Directio
  <2>2. /\ done' = Resume /\ prev' = Resume /\ stalled' = stalled
    BY <2>1 DEF Gathered
  <2>3. base + Resume <= file.len /\ Resume <= Want
    BY <1>2, <1>3, <1>4
  <2>4. CASE Resume < Want
    <3>1. pc' = "read" /\ UNCHANGED <<have, blockSet>>
      BY <2>1, <2>4 DEF Gathered
    <3>2. Want' = Want
      BY <1>1 DEF Want
    <3>3. TypeOK'
      BY <1>1, <1>2, <1>4, <2>2, <3>1 DEF TypeOK
    <3>4. AlignInv' /\ WalkInv' /\ BlockInv' /\ ParseInv' /\ ResultInv'
      BY <1>1, <3>1, <3>2 DEF AlignInv, WalkInv, BlockInv, ParseInv, ResultInv
    <3>5. ReadInv'
      BY <1>1, <1>3, <1>4, <2>2, <2>3, <2>4, <3>1, <3>2 DEF ReadInv
    <3> QED
      BY <3>3, <3>4, <3>5
  <2>5. CASE ~ (Resume < Want)
    <3>1. PreadReturns(Resume)
      BY <2>1, <2>5 DEF Gathered
    <3>2. Resume - frameOff >= HeaderMax
      <4>1. CASE align = 0
        BY <1>2, <1>3, <1>4, <2>5, <4>1, WantRange DEF HeaderMax
      <4>2. CASE align # 0
        BY <1>2, <1>3, <1>4, <2>5, <4>2, WantRange DEF HeaderMax
      <4> QED
        BY <4>1, <4>2
    <3> QED
      BY <1>1, <1>2, <1>4, <2>2, <2>3, <3>1, <3>2, ReturnKeeps
  <2> QED
    BY <2>4, <2>5
<1> QED
  BY <1>5, <1>6

LEMMA PreadKeeps ==
  ASSUME ProbeInv, Pread
  PROVE  ProbeInv'
<1>1. ASSUME NEW k \in ShortCounts, Transfer(k)
      PROVE  ProbeInv'
  BY <1>1, TransferKeeps, ProbeBounds
<1>2. CASE pc = "read" /\ Available > 0 /\ Transfer(Available)
  <2>1. Available \in Nat
    <3>1. file.len \in Nat /\ base \in Nat /\ done \in Nat /\ Want \in Nat
      BY <1>2, FilesAreFrames, WantRange DEF ProbeInv, TypeOK
    <3> QED
      BY <3>1 DEF Available, Maximum, Minimum
  <2> QED
    BY <1>2, <2>1, TransferKeeps
<1> QED
  BY <1>1, <1>2, EndOfFileKeeps, ReadErrorKeeps, AccountKeeps DEF Pread

\* What is judged: the header of the frame the walk is at, by bytes that are
\* in the file; and when they do not make up a header, why.
LEMMA JudgedHeader ==
  ASSUME ProbeInv, pc = "parse", have.n >= 0
  PROVE  /\ file \in Files /\ FrameChain(file.frames)
         /\ file.len \in Nat /\ file.size \in Nat
         /\ frames \in Nat /\ frames <= MaxSkips
         /\ frames + 1 \in 1 .. Len(file.frames)
         /\ pos \in Nat /\ pos = file.frames[frames + 1].at
         /\ Header = file.frames[frames + 1].header
         /\ Avail \in Nat
         /\ Avail > 0 => pos + Avail <= file.len
         /\ \/ stalled
            \/ Avail >= HeaderMax
            \/ Avail >= file.len - pos
            \/ Avail >= 4 /\ Avail >= file.size - pos
<1>1. /\ file \in Files /\ FrameChain(file.frames)
      /\ file.len \in Nat /\ file.size \in Nat
  BY FilesAreFrames DEF ProbeInv, TypeOK
<1>2. /\ frames \in Nat /\ frames <= MaxSkips
      /\ frames + 1 \in 1 .. Len(file.frames)
      /\ pos \in Nat /\ pos = file.frames[frames + 1].at
  BY DEF ProbeInv, TypeOK, WalkInv
<1>3. have.n \in Nat /\ have.at \in Nat /\ frameOff \in Nat
  BY DEF ProbeInv, TypeOK
<1>4. have.at + frameOff = pos
  BY DEF ProbeInv, ParseInv
<1>5. Header = file.frames[frames + 1].header
  BY <1>1, <1>2, <1>4, HeaderAtFrame DEF Header
<1>6. Avail = IF have.n - frameOff > 0 THEN have.n - frameOff ELSE 0
  BY <1>3 DEF Avail, Maximum
<1>7. Avail > 0 => pos + Avail <= file.len
  <2>1. have.n > 0 => have.at + have.n <= file.len
    BY DEF ProbeInv, BlockInv
  <2> QED
    BY SMTT(30), <1>1, <1>2, <1>3, <1>4, <1>6, <2>1
<1>8. \/ stalled
      \/ have.n - frameOff >= HeaderMax
      \/ have.at + have.n >= file.len
      \/ have.n - frameOff >= 4 /\ have.n - frameOff >= file.size - pos
  BY DEF ProbeInv, ParseInv
<1>9. \/ stalled
      \/ Avail >= HeaderMax
      \/ Avail >= file.len - pos
      \/ Avail >= 4 /\ Avail >= file.size - pos
  <2>1. file.len \in Nat /\ file.size \in Nat /\ pos \in Nat
    BY <1>1, <1>2
  <2>2. /\ Avail >= have.n - frameOff /\ Avail \in Nat
        /\ have.at + have.n = pos + (have.n - frameOff)
    BY <1>3, <1>4, <1>6
  <2> QED
    BY <1>3, <1>8, <2>1, <2>2 DEF HeaderMax
<1>10. Avail \in Nat
  BY <1>3, <1>6
<1> QED
  BY <1>1, <1>2, <1>5, <1>7, <1>9, <1>10

\* A regular header that is judged has at least six bytes.
LEMMA JudgedLength ==
  ASSUME NEW f \in Files, NEW k \in 1 .. Len(f.frames),
         f.frames[k].header.magic = "zstd"
  PROVE  HeaderLen(f.frames[k].header) \in 6 .. 17
<1> DEFINE fr == f.frames
<1>1. FrameChain(fr) /\ k \in 1 .. Len(fr)
  BY FilesAreFrames
<1>2. fr[k].header \in Headers
  <2> HIDE DEF fr
  <2> QED
    BY <1>1, FrameHeaders
<1> QED
  BY <1>2, HeaderLenBound

\* Every way out of the walk hands the scratch buffer back
\* (static_module.c:1452-1454).
LEMMA FinishKeeps ==
  ASSUME ProbeInv, pc = "parse",
         NEW rc \in {"ok", "declined"}, NEW bad \in BOOLEAN, Finish(rc, bad),
         UNCHANGED <<file, align, frames, have, blockSet, frameOff, base, done,
                     prev, got, stalled>>,
         pos' \in Nat,
         rc = "ok" => Decodable(file, file.len),
         bad => ~ Decodable(file, Steady(file)) \/ HeaderCut
  PROVE  ProbeInv'
<1> USE DEF ProbeInv
<1>1. /\ pc' = "done" /\ own' = FALSE
      /\ result' = [rc |-> rc, malformed |-> bad]
      /\ scratch' = [scratch EXCEPT !.busy = @ /\ ~ own]
  BY DEF Finish
<1>2. scratch \in [cap : Nat, align : Nat, busy : BOOLEAN]
      /\ (scratch.busy <=> own)
  BY DEF TypeOK, AlignInv
<1>3. /\ scratch' \in [cap : Nat, align : Nat, busy : BOOLEAN]
      /\ scratch'.align = scratch.align /\ scratch'.busy = FALSE
  BY <1>1, <1>2
<1>4. TypeOK'
  BY <1>1, <1>3 DEF TypeOK
<1>5. AlignInv'
  BY <1>1, <1>3 DEF AlignInv
<1>6. WalkInv' /\ BlockInv' /\ ReadInv' /\ ParseInv'
  BY <1>1 DEF WalkInv, BlockInv, ReadInv, ParseInv
<1>7. Avail' = Avail /\ Header' = Header
  BY DEF Avail, Header, HeaderAt
<1>8. HeaderCut' <=> HeaderCut
  BY <1>7 DEF HeaderCut
<1>9. ResultInv'
  BY <1>1, <1>8 DEF ResultInv, VerdictProven, Decodable, Steady
<1> QED
  BY <1>4, <1>5, <1>6, <1>9

LEMMA NoHeaderKeeps ==
  ASSUME ProbeInv, NoHeader
  PROVE  ProbeInv'
<1>1. /\ pc = "parse" /\ (have.n < 0 \/ Avail < 4)
      /\ Finish("declined", have.n >= 0)
      /\ UNCHANGED <<file, align, pos, frames, have, blockSet, frameOff, base,
                     done, prev, got, stalled>>
  BY DEF NoHeader, walkVars, readVars
<1>2. pos \in Nat /\ (have.n >= 0) \in BOOLEAN /\ have.n \in Int
  BY DEF ProbeInv, TypeOK
<1>3. ASSUME have.n >= 0, Decodable(file, Steady(file))
      PROVE  HeaderCut
  <2>1. Avail < 4
    BY <1>1, <1>2, <1>3
  <2>2. /\ file \in Files /\ file.len \in Nat /\ file.size \in Nat
        /\ frames + 1 \in 1 .. Len(file.frames)
        /\ pos = file.frames[frames + 1].at
        /\ Header = file.frames[frames + 1].header
        /\ Avail \in Nat
        /\ \/ stalled
           \/ Avail >= HeaderMax
           \/ Avail >= file.len - pos
           \/ Avail >= 4 /\ Avail >= file.size - pos
    BY <1>1, <1>3, JudgedHeader
  <2>3. pos + 6 <= file.len
    BY <1>2, <1>3, <2>2, SteadyRange, DecodableLength
  <2>4. stalled
    BY <1>2, <2>1, <2>2, <2>3 DEF HeaderMax
  <2>5. Header.magic = "zstd" => HeaderLen(Header) \in 6 .. 17
    BY <2>2, JudgedLength
  <2>6. Header.magic = "zstd" => Avail < HeaderLen(Header)
    BY <2>1, <2>2, <2>5
  <2>7. Avail < 8
    BY <2>1, <2>2
  <2> QED
    BY <2>4, <2>6, <2>7 DEF HeaderCut
<1> QED
  BY <1>1, <1>2, <1>3, FinishKeeps

\* The walk goes on to the next frame of the file, which there is.
LEMMA SkipFrameKeeps ==
  ASSUME ProbeInv, SkipFrame
  PROVE  ProbeInv'
<1> USE DEF ProbeInv
<1>1. /\ pc = "parse" /\ have.n >= 0 /\ Avail >= 4
      /\ ProbeFrame(Header, Avail) = "skip"
      /\ frames < MaxSkips /\ pos' = pos + 8 + Header.skip
      /\ frames' = frames + 1 /\ pc' = "frame"
      /\ UNCHANGED <<file, align, have, blockSet, frameOff, base, done, prev,
                     got, stalled, scratch, own, result>>
  BY DEF SkipFrame, Parsing, Verdict, readVars
<1> DEFINE fr == file.frames
           k == frames + 1
<1>2. /\ file \in Files /\ FrameChain(fr) /\ k \in 1 .. Len(fr)
      /\ pos = fr[k].at /\ Header = fr[k].header
      /\ frames \in Nat
  BY <1>1, JudgedHeader
<1>3. fr' = fr
  BY <1>1
<1> HIDE DEF fr
<1>4. fr[k].header.magic = "skip"
  BY <1>1, <1>2 DEF ProbeFrame
<1>5. /\ k < Len(fr) /\ fr[k].at \in Nat /\ fr[k].header.skip \in Nat
      /\ Len(fr) \in Nat
  BY <1>2, <1>4, FrameHeaders
<1>6. fr[k + 1].at = fr[k].at + 8 + fr[k].header.skip
  BY <1>2, <1>5 DEF FrameChain
<1>7. pos' = fr[k + 1].at /\ pos' \in Nat
  BY SMTT(30), <1>1, <1>2, <1>5, <1>6
<1>8. WalkInv'
  <2>1. frames' <= MaxSkips /\ frames' + 1 \in 1 .. Len(fr)
        /\ frames' + 1 = k + 1
    BY <1>1, <1>2, <1>5, ProbeBounds
  <2> QED
    BY <1>1, <1>3, <1>7, <2>1 DEF WalkInv, fr
<1>9. TypeOK'
  BY <1>1, <1>2, <1>7 DEF TypeOK
<1>10. Want' = Want
  BY <1>1 DEF Want
<1>11. AlignInv' /\ BlockInv' /\ ReadInv' /\ ParseInv' /\ ResultInv'
  BY <1>1, <1>10 DEF AlignInv, BlockInv, ReadInv, ParseInv, ResultInv
<1> QED
  BY <1>8, <1>9, <1>11

\* A chain refused is too long, or longer than the file was.
LEMMA SkipRefusedKeeps ==
  ASSUME ProbeInv, SkipRefused
  PROVE  ProbeInv'
<1>1. /\ pc = "parse" /\ have.n >= 0 /\ Avail >= 4
      /\ ProbeFrame(Header, Avail) = "skip"
      /\ ~ SkipFits \/ frames >= MaxSkips
      /\ pos' = IF SkipFits THEN pos + 8 + Header.skip ELSE pos
      /\ Finish("declined", TRUE)
      /\ UNCHANGED <<file, align, frames, have, blockSet, frameOff, base, done,
                     prev, got, stalled>>
  BY DEF SkipRefused, Parsing, Verdict, readVars
<1> DEFINE fr == file.frames
           k == frames + 1
<1>2. /\ file \in Files /\ FrameChain(fr) /\ k \in 1 .. Len(fr)
      /\ pos = fr[k].at /\ Header = fr[k].header
      /\ frames \in Nat /\ file.len \in Nat /\ file.size \in Nat
  BY <1>1, JudgedHeader
<1>3. fr[k].header.magic = "skip"
  BY <1>1, <1>2 DEF ProbeFrame
<1>4. /\ k < Len(fr) /\ fr[k].at \in Nat /\ fr[k].header.skip \in Nat
      /\ k + 1 \in 1 .. Len(fr)
  <2> HIDE DEF fr
  <2> QED
    BY <1>2, <1>3, FrameHeaders
<1>5. /\ pos \in Nat /\ Header.skip \in Nat /\ pos' \in Nat
      /\ file.len \in Nat /\ file.size \in Nat
  <2>1. /\ pos \in Nat /\ Header.skip \in Nat
        /\ file.len \in Nat /\ file.size \in Nat
    BY <1>2, <1>4
  <2> QED
    BY <1>1, <2>1
<1>6. ~ Decodable(file, Steady(file))
  <2> SUFFICES ASSUME Decodable(file, Steady(file)) PROVE FALSE
    OBVIOUS
  <2>1. (k + 1) - 1 <= MaxSkips
    BY <1>2, <1>4, SteadyRange, DecodableLength
  <2>2. ~ SkipFits
    BY <1>1, <1>2, <2>1, ProbeBounds
  <2>3. fr[k].at + 8 + fr[k].header.skip + 6 <= Steady(file)
    BY <1>2, <1>4, SteadyRange, DecodableLength
  <2>4. pos + 8 + Header.skip + 6 <= Steady(file)
    BY <1>2, <2>3
  <2>5. /\ Steady(file) \in Nat
        /\ Steady(file) <= file.len /\ Steady(file) <= file.size
    BY <1>2, SteadyRange
  <2>6. pos + 8 + Header.skip + 6 <= file.size
    BY <1>5, <2>4, <2>5
  <2> QED
    BY <1>5, <2>2, <2>6 DEF SkipFits
<1> QED
  BY <1>1, <1>5, <1>6, FinishKeeps

\* The verdict on a regular header of which n bytes are there.
LEMMA RegularVerdict ==
  ASSUME NEW h, h.magic = "zstd", NEW n \in Nat, n >= 4,
         HeaderLen(h) \in 6 .. 17, Window(h) \in Int
  PROVE  ProbeFrame(h, n) = "ok" <=> /\ ~ h.reserved
                                     /\ n >= HeaderLen(h)
                                     /\ Window(h) <= MaxWindow
<1>1. CASE n < 5
  BY <1>1 DEF ProbeFrame
<1>2. CASE ~ (n < 5) /\ h.reserved
  BY <1>2 DEF ProbeFrame
<1>3. CASE ~ (n < 5) /\ ~ h.reserved /\ n < HeaderLen(h)
  BY <1>3 DEF ProbeFrame
<1>4. CASE ~ (n < 5) /\ ~ h.reserved /\ ~ (n < HeaderLen(h))
  <2>1. ProbeFrame(h, n)
          = IF Window(h) > MaxWindow THEN "window_big" ELSE "ok"
    BY <1>4 DEF ProbeFrame
  <2> QED
    BY <1>4, <2>1, ProbeBounds
<1> QED
  BY <1>1, <1>2, <1>3, <1>4

\* The verdicts on a regular header, and what each of them says of the file.
LEMMA MalformedKeeps ==
  ASSUME ProbeInv, Malformed
  PROVE  ProbeInv'
<1>1. /\ pc = "parse" /\ have.n >= 0 /\ Avail >= 4
      /\ ProbeFrame(Header, Avail) \notin {"skip", "ok"}
      /\ Finish("declined", TRUE)
      /\ UNCHANGED <<file, align, pos, frames, have, blockSet, frameOff, base,
                     done, prev, got, stalled>>
  BY DEF Malformed, Parsing, Verdict, walkVars, readVars
<1> DEFINE fr == file.frames
           k == frames + 1
<1>2. /\ file \in Files /\ FrameChain(fr) /\ k \in 1 .. Len(fr)
      /\ pos = fr[k].at /\ Header = fr[k].header /\ pos \in Nat
      /\ frames \in Nat /\ file.len \in Nat /\ file.size \in Nat
      /\ Avail \in Nat
      /\ \/ stalled
         \/ Avail >= HeaderMax
         \/ Avail >= file.len - pos
         \/ Avail >= 4 /\ Avail >= file.size - pos
  BY <1>1, JudgedHeader
<1>3. /\ Header \in Headers
      /\ Header.magic = "skip" <=> k < Len(fr)
      /\ Header.magic = "skip" => Header.skip \in Nat
      /\ Len(fr) \in Nat
  <2> HIDE DEF fr
  <2> QED
    BY <1>2, FrameHeaders
<1>4. ASSUME Decodable(file, Steady(file)) PROVE HeaderCut
  <2>1. /\ pos \in Nat /\ Avail \in Nat
        /\ file.len \in Nat /\ file.size \in Nat
        /\ \/ stalled
           \/ Avail >= HeaderMax
           \/ Avail >= file.len - pos
           \/ Avail >= 4 /\ Avail >= file.size - pos
    BY <1>2
  <2>2. /\ Steady(file) \in Nat
        /\ Steady(file) <= file.len /\ Steady(file) <= file.size
    BY <1>2, SteadyRange
  <2>3. CASE k < Len(fr)
    <3>1. Header.magic = "skip" /\ Header.skip \in Nat
      BY <1>3, <2>3
    <3>2. Avail < 8
      BY <1>1, <2>1, <3>1 DEF ProbeFrame
    <3>3. pos + 8 + Header.skip + 6 <= Steady(file)
      BY <1>2, <1>4, <2>3, SteadyRange, DecodableLength
    <3>4. stalled
      <4>1. pos + 8 <= file.len /\ pos + 8 <= file.size
        BY <2>1, <2>2, <3>1, <3>3
      <4> QED
        BY <2>1, <3>2, <4>1 DEF HeaderMax
    <3> QED
      BY <2>1, <3>1, <3>2, <3>4 DEF HeaderCut
  <2>4. CASE k = Len(fr)
    <3>1. /\ Header.magic = "zstd" /\ ~ Header.reserved
          /\ Window(Header) <= MaxWindow
          /\ pos + HeaderLen(Header) <= Steady(file)
      BY <1>2, <1>4, <2>4, SteadyRange, DecodableLength
    <3>2. HeaderLen(Header) \in 6 .. 17 /\ Window(Header) \in Int
      BY <1>3, <3>1, HeaderLenBound
    <3>3. Avail < HeaderLen(Header)
      BY <1>1, <2>1, <3>1, <3>2, RegularVerdict
    <3>4. stalled
      <4>1. /\ pos + HeaderLen(Header) <= file.len
            /\ pos + HeaderLen(Header) <= file.size
        BY <2>1, <2>2, <3>1, <3>2
      <4> QED
        BY <2>1, <3>2, <3>3, <4>1 DEF HeaderMax
    <3> QED
      BY <3>1, <3>3, <3>4 DEF HeaderCut
  <2> QED
    BY <1>2, <1>3, <2>3, <2>4
<1> QED
  BY <1>1, <1>2, <1>4, FinishKeeps

LEMMA AcceptedKeeps ==
  ASSUME ProbeInv, Accepted
  PROVE  ProbeInv'
<1>1. /\ pc = "parse" /\ have.n >= 0 /\ Avail >= 4
      /\ ProbeFrame(Header, Avail) = "ok"
      /\ Finish("ok", FALSE)
      /\ UNCHANGED <<file, align, pos, frames, have, blockSet, frameOff, base,
                     done, prev, got, stalled>>
  BY DEF Accepted, Parsing, Verdict, walkVars, readVars
<1> DEFINE fr == file.frames
           k == frames + 1
<1>2. /\ file \in Files /\ FrameChain(fr) /\ k \in 1 .. Len(fr)
      /\ pos = fr[k].at /\ Header = fr[k].header /\ pos \in Nat
      /\ frames \in Nat /\ frames <= MaxSkips
      /\ file.len \in Nat /\ Avail \in Nat
      /\ Avail > 0 => pos + Avail <= file.len
  BY <1>1, JudgedHeader
<1>3. /\ Header \in Headers
      /\ Header.magic = "skip" <=> k < Len(fr)
      /\ Len(fr) \in Nat
  <2> HIDE DEF fr
  <2> QED
    BY <1>2, FrameHeaders
<1>4. Header.magic \notin {"skip", "other"}
  BY <1>1 DEF ProbeFrame
<1>5. k = Len(fr) /\ Header.magic = "zstd"
  BY <1>2, <1>3, <1>4 DEF Headers
<1>6. HeaderLen(Header) \in 6 .. 17 /\ Window(Header) \in Int
  BY <1>3, <1>5, HeaderLenBound
<1>7. /\ ~ Header.reserved /\ Avail >= HeaderLen(Header)
      /\ Window(Header) <= MaxWindow
  BY <1>1, <1>2, <1>5, <1>6, RegularVerdict
<1>8. pos + HeaderLen(Header) <= file.len /\ Len(fr) - 1 <= MaxSkips
  <2>1. /\ pos \in Nat /\ Avail \in Nat /\ file.len \in Nat
        /\ pos + Avail <= file.len
        /\ frames \in Nat /\ frames <= MaxSkips
    BY <1>1, <1>2
  <2>2. pos + HeaderLen(Header) <= file.len
    BY <1>6, <1>7, <2>1
  <2>3. Len(fr) - 1 <= MaxSkips
    BY <1>5, <2>1
  <2> QED
    BY <2>2, <2>3
<1>9. Decodable(file, file.len)
  BY <1>2, <1>5, <1>7, <1>8 DEF Decodable
<1> QED
  BY <1>1, <1>2, <1>9, FinishKeeps

LEMMA ReturnsKeeps ==
  ASSUME ProbeInv, Return
  PROVE  ProbeInv'
<1> USE DEF ProbeInv
<1>1. TypeOK'
  BY DEF Return, Fresh, TypeOK, NoResult
<1>2. AlignInv'
  BY DEF Return, Fresh, AlignInv
<1>3. WalkInv' /\ BlockInv' /\ ReadInv' /\ ParseInv' /\ ResultInv'
  BY DEF Return, Fresh, WalkInv, BlockInv, ReadInv, ParseInv, ResultInv
<1> QED
  BY <1>1, <1>2, <1>3

LEMMA ProbeStep == ProbeInv /\ [Next]_vars => ProbeInv'
<1> SUFFICES ASSUME ProbeInv, [Next]_vars PROVE ProbeInv'
  OBVIOUS
<1>1. CASE Judge
  BY <1>1, NoHeaderKeeps, SkipFrameKeeps, SkipRefusedKeeps, MalformedKeeps,
     AcceptedKeeps DEF Judge
<1>2. CASE UNCHANGED vars
  BY <1>2 DEF vars, ProbeInv, TypeOK, AlignInv, WalkInv, BlockInv, ReadInv,
         ParseInv, ResultInv, VerdictProven, Decodable, Steady, HeaderCut, Avail,
         Header, HeaderAt, Want
<1> QED
  BY <1>1, <1>2, BeginKeeps, ReuseKeeps, BeginReadKeeps, PreadKeeps,
     ReturnsKeeps DEF Next

\* The invariant holds in every reachable state, whatever the files, the
\* alignments and the answers of the kernel.
THEOREM ProbeInvariant == Spec => []ProbeInv
BY ProbeInit, ProbeStep, PTL DEF Spec

-----------------------------------------------------------------------------
(* The properties *)

\* Whatever the reads returned, the verdict is right: the probe accepts only
\* files a browser decodes, and a file it calls malformed is not one that is
\* decoded from the bytes it had at the open and still has, unless a directio
\* read gave up inside a block before the whole header had landed
\* (static_module.c:616-636, :1035-1113, :1361, :1385).
THEOREM VerdictIsProven == Spec => []VerdictProven
<1>1. ProbeInv => VerdictProven
  BY DEF ProbeInv, ResultInv, VerdictProven, NoResult
<1> QED
  BY <1>1, ProbeInvariant, PTL

\* The header judged is the one looked for, and it is judged by bytes that
\* were read into the buffer (static_module.c:1263-1316).
THEOREM HeaderIsInBlock == Spec => []HeaderInBlock
<1>1. ProbeInv => HeaderInBlock
  <2> SUFFICES ASSUME ProbeInv, pc = "parse", have.n > 0
               PROVE  /\ have.at + frameOff = pos
                      /\ have.at + have.n <= file.len
                      /\ have.n <= Want
    BY DEF HeaderInBlock
  <2>1. have.n >= 0
    BY DEF ProbeInv, TypeOK
  <2> QED
    BY <2>1 DEF ProbeInv, BlockInv, ParseInv
<1> QED
  BY <1>1, ProbeInvariant, PTL

\* Every directio read, the resumed ones included, is aligned in its offset,
\* its length and its buffer, and the scratch buffer is busy exactly while a
\* probe holds it (static_module.c:534-552, :1452-1454).
THEOREM DirectioIsLegal == Spec => []DirectioLegal
<1>1. ProbeInv => DirectioLegal
  <2> SUFFICES ASSUME ProbeInv PROVE DirectioLegal
    OBVIOUS
  <2> USE DEF ProbeInv
  <2>1. ASSUME pc = "read", align # 0
        PROVE  /\ (base + done) % align = 0
               /\ (Want - done) % align = 0
               /\ done < Want
               /\ own => scratch.cap >= Want /\ scratch.align % align = 0
    <3>1. /\ align \in Nat /\ align > 0 /\ Want = 2 * align
          /\ base \in Nat /\ done \in Nat
      BY <2>1, WantRange DEF TypeOK
    <3>2. base % align = 0 /\ done % align = 0 /\ done < Want
      BY <2>1 DEF ReadInv
    <3>3. (base + done) % align = 0
      BY <3>1, <3>2, MultiplesAdd
    <3>4. (2 * align - done) % align = 0
      BY <3>1, <3>2, TwoBlocksLeft
    <3>5. own => scratch.cap >= Want /\ scratch.align % align = 0
      <4> SUFFICES ASSUME own PROVE scratch.cap >= Want /\ scratch.align % align = 0
        OBVIOUS
      <4>1. /\ scratch.cap >= 2 * align /\ scratch.align >= align
            /\ align \in DioAligns /\ scratch.align \in DioAligns \cup {0}
            /\ scratch.align \in Nat
        BY <2>1 DEF AlignInv, TypeOK
      <4>2. scratch.align \in DioAligns
        BY <3>1, <4>1
      <4>3. PICK c \in Alignments \ {0} : align = ProbeAlign(c)
        BY <4>1 DEF DioAligns
      <4>4. PICK d \in Alignments \ {0} : scratch.align = ProbeAlign(d)
        BY <4>2 DEF DioAligns
      <4>5. ProbeAlign(c) <= ProbeAlign(d)
        BY <3>1, <4>1, <4>3, <4>4
      <4>6. scratch.align % align = 0
        BY <4>3, <4>4, <4>5, AlignmentsNest, Zenon
      <4> QED
        BY <3>1, <4>1, <4>6
    <3> QED
      BY <3>1, <3>2, <3>3, <3>4, <3>5, Zenon
  <2>2. scratch.busy <=> own
    BY DEF AlignInv
  <2> QED
    BY <2>1, <2>2 DEF DirectioLegal, Directio
<1> QED
  BY <1>1, ProbeInvariant, PTL

-----------------------------------------------------------------------------
(* The verdict table *)

USE VerdictBounds, VerdictNull

\* Slots are numbered from 0 and there is at least one.
LEMMA SlotFacts ==
  /\ Slots \subseteq Int
  /\ 0 \in Slots
  /\ \A s \in Slots : 0 <= s /\ s < NumSlots
  /\ \A s \in Slots : s + 1 # NumSlots => s + 1 \in Slots
BY DEF Slots

\* A scan changes nothing but the validity of expired good verdicts.
LEMMA ScannedFacts ==
  ASSUME TableTyped, NEW p, NEW of, NEW valid
  PROVE  LET tab == Scanned(p, of, valid) IN
         /\ tab \in [Slots -> Entry \cup {ZeroSlot}]
         /\ \A s \in Slots :
              \/ tab[s] = slots[s]
              \/ /\ tab[s].valid = "none"
                 /\ tab[s].path = slots[s].path
                 /\ tab[s].ino = slots[s].ino
                 /\ tab[s].stamp = slots[s].stamp
<1> DEFINE tab == Scanned(p, of, valid)
<1>1. ASSUME NEW s \in Slots
      PROVE  \/ tab[s] = slots[s]
             \/ /\ slots[s].valid = "good"
                /\ tab[s] = [slots[s] EXCEPT !.valid = "none"]
  BY DEF Scanned, Expired
<1>2. ASSUME NEW s \in Slots, slots[s].valid = "good",
             tab[s] = [slots[s] EXCEPT !.valid = "none"]
      PROVE  /\ tab[s] \in Entry
             /\ tab[s].valid = "none"
             /\ tab[s].path = slots[s].path
             /\ tab[s].ino = slots[s].ino
             /\ tab[s].stamp = slots[s].stamp
  <2>1. slots[s] \in Entry
    BY <1>2 DEF TableTyped, ZeroSlot
  <2> QED BY <1>2, <2>1 DEF Entry
<1>3. tab = [s \in Slots |-> tab[s]]
  BY DEF Scanned
<1> HIDE DEF tab
<1>4. ASSUME NEW s \in Slots PROVE tab[s] \in Entry \cup {ZeroSlot}
  <2>1. slots[s] \in Entry \cup {ZeroSlot}
    BY DEF TableTyped
  <2> QED BY <1>1, <1>2, <2>1
<1>5. tab \in [Slots -> Entry \cup {ZeroSlot}]
  BY <1>3, <1>4
<1> QED BY <1>1, <1>2, <1>5 DEF tab

\* A scan keeps the parts of the invariant that speak of the table.
LEMMA ScannedKeeps ==
  ASSUME TableInv, NEW p, NEW of, NEW valid
  PROVE  LET tab == Scanned(p, of, valid) IN
         /\ \A s, t \in Slots :
              /\ tab[s].valid # "none"
              /\ Same(tab[t], tab[s].path, tab[s])
              => s = t
         /\ \A s \in Slots : s >= count => tab[s].valid = "none"
         /\ \A s \in Slots : tab[s].valid = "good" =>
              tab[s].checked <= goodAt[tab[s].ino]
<1> DEFINE tab == Scanned(p, of, valid)
<1>1. \A s \in Slots : tab[s] = slots[s] \/ tab[s].valid = "none"
  BY ScannedFacts DEF TableInv
<1> HIDE DEF tab
<1>2. /\ \A s, t \in Slots :
           /\ tab[s].valid # "none"
           /\ Same(tab[t], tab[s].path, tab[s])
           => s = t
      /\ \A s \in Slots : s >= count => tab[s].valid = "none"
      /\ \A s \in Slots : tab[s].valid = "good" =>
           tab[s].checked <= goodAt[tab[s].ino]
  BY <1>1 DEF TableInv, OneVerdictPerFile, AllVerdictsScanned, Truthful, Same
<1> QED BY <1>2 DEF tab

\* A scan without a hit leaves no verdict about the file: what there was had
\* expired and is gone.
LEMMA MissLeavesNone ==
  ASSUME TableInv, NEW p, NEW of, NEW valid, Hits(p, of, valid) = {}
  PROVE  \A s \in Slots : ~ Same(Scanned(p, of, valid)[s], p, of)
<1> SUFFICES ASSUME NEW s \in Slots, Same(Scanned(p, of, valid)[s], p, of)
             PROVE  FALSE
  OBVIOUS
<1>1. Scanned(p, of, valid)[s] = slots[s]
  BY ScannedFacts DEF TableInv, Same
<1>2. Same(slots[s], p, of)
  BY <1>1
<1>3. s < count
  BY <1>2, SlotFacts DEF TableInv, AllVerdictsScanned, TableTyped, Same
<1>4. Expired(slots[s], valid)
  <2> SUFFICES ASSUME ~ Expired(slots[s], valid) PROVE FALSE
    OBVIOUS
  <2>1. \A t \in Slots : t < s => ~ Same(slots[t], p, of)
    BY <1>2, SlotFacts DEF TableInv, OneVerdictPerFile, Same
  <2>2. s \in Hits(p, of, valid)
    BY <1>2, <1>3, <2>1 DEF Hits
  <2> QED BY <2>2
<1>5. Scanned(p, of, valid)[s] = [slots[s] EXCEPT !.valid = "none"]
  BY <1>2, <1>3, <1>4 DEF Scanned
<1>6. slots[s] \in Entry
  BY <1>4 DEF TableInv, TableTyped, Expired, ZeroSlot
<1> QED BY <1>1, <1>5, <1>6, <1>2 DEF Same, Entry

\* Remembering a verdict about a file of which the table holds none keeps
\* the table's invariant; the prefix that is scanned covers the new verdict.
LEMMA RememberKeeps ==
  ASSUME TableInv, NEW p \in Paths, NEW of \in File, of.ino \in Inodes,
         NEW tab \in [Slots -> Entry \cup {ZeroSlot}],
         \A s, t \in Slots :
           /\ tab[s].valid # "none"
           /\ Same(tab[t], tab[s].path, tab[s])
           => s = t,
         \A s \in Slots : s >= count => tab[s].valid = "none",
         \A s \in Slots : tab[s].valid = "good" =>
           tab[s].checked <= goodAt[tab[s].ino],
         \A s \in Slots : ~ Same(tab[s], p, of),
         NEW verdict \in {"good", "bad"},
         verdict = "good" => good[of.ino],
         Remember(tab, p, of, verdict),
         UNCHANGED <<now, good, goodAt>>
  PROVE  /\ slots' \in [Slots -> Entry \cup {ZeroSlot}]
         /\ next' \in Slots
         /\ count' \in 0 .. NumSlots
         /\ OneVerdictPerFile'
         /\ AllVerdictsScanned'
         /\ Truthful'
<1> DEFINE new == [path |-> p, ino |-> of.ino, stamp |-> of.stamp,
                   checked |-> now, valid |-> verdict]
<1>1. new \in Entry /\ new.valid # "none"
  BY DEF File, Entry, TableInv, TableTyped
<1>2. next \in Slots /\ count \in 0 .. NumSlots /\ next <= count
  BY DEF TableInv, TableTyped, AllVerdictsScanned
<1>3. slots' = [tab EXCEPT ![next] = new]
  BY DEF Remember
<1>4. /\ new.path = p /\ new.ino = of.ino /\ new.stamp = of.stamp
      /\ new.checked = now /\ new.valid = verdict
  OBVIOUS
<1> HIDE DEF new
<1>5. /\ slots' \in [Slots -> Entry \cup {ZeroSlot}]
      /\ slots'[next] = new
      /\ \A s \in Slots : s # next => slots'[s] = tab[s]
  BY <1>1, <1>2, <1>3
<1>6. /\ next' = IF next + 1 = NumSlots THEN 0 ELSE next + 1
      /\ count' = IF tab[next].valid = "none" /\ count < NumSlots
                  THEN count + 1 ELSE count
  BY DEF Remember
<1>7. next' \in Slots
  BY <1>2, <1>6, SlotFacts
<1>8. count' \in 0 .. NumSlots /\ count <= count'
  BY <1>2, <1>6
<1>9. next < count'
  <2>1. CASE next < count
    BY <1>2, <1>8, <2>1, SlotFacts
  <2>2. CASE next = count
    BY <1>2, <1>6, <2>2, SlotFacts
  <2> QED BY <1>2, <2>1, <2>2, SlotFacts
<1>10. OneVerdictPerFile'
  <2> SUFFICES ASSUME NEW s \in Slots, NEW t \in Slots,
                      slots'[s].valid # "none",
                      Same(slots'[t], slots'[s].path, slots'[s])
               PROVE  s = t
    BY DEF OneVerdictPerFile, Same
  <2>1. CASE s = next /\ t # next
    <3>1. Same(tab[t], p, of)
      BY <1>4, <1>5, <2>1 DEF Same
    <3> QED BY <3>1
  <2>2. CASE s # next /\ t = next
    <3>1. Same(tab[s], p, of)
      BY <1>4, <1>5, <2>2 DEF Same
    <3> QED BY <3>1
  <2>3. CASE s # next /\ t # next
    BY <1>5, <2>3
  <2> QED BY <2>1, <2>2, <2>3
<1>11. AllVerdictsScanned'
  <2>1. ASSUME NEW s \in Slots, s >= count' PROVE slots'[s].valid = "none"
    <3>1. s # next /\ s >= count
      BY <1>2, <1>8, <1>9, <2>1, SlotFacts
    <3> QED BY <1>5, <3>1
  <2>2. next' <= count'
    BY <1>2, <1>6, <1>8, <1>9, SlotFacts
  <2> QED BY <2>1, <2>2 DEF AllVerdictsScanned
<1>12. Truthful'
  <2>1. ASSUME NEW s \in Slots, slots'[s].valid = "good"
        PROVE  slots'[s].checked <= goodAt'[slots'[s].ino]
    <3>1. CASE s = next
      <4>1. goodAt[of.ino] = now
        BY <1>4, <1>5, <2>1, <3>1 DEF TableInv, Truthful
      <4> QED BY <1>4, <1>5, <3>1, <4>1 DEF TableInv, TableTyped
    <3>2. CASE s # next
      BY <1>5, <2>1, <3>2
    <3> QED BY <3>1, <3>2
  <2>2. \A i \in Inodes : goodAt'[i] <= now' /\ (good'[i] => goodAt'[i] = now')
    BY DEF TableInv, Truthful
  <2> QED BY <2>1, <2>2 DEF Truthful
<1> QED BY <1>5, <1>7, <1>8, <1>10, <1>11, <1>12

\* What ngx_open_cached_file() returns and keeps is well-typed.
LEMMA OpenedFacts ==
  ASSUME TableTyped, NEW p \in Paths, NEW valid \in Lifetimes
  PROVE  /\ Opened(p, valid) \in File
         /\ OfcAfter(p, valid) \in [Paths -> Open \cup {NotOpened}]
<1>1. disk[p] \in File /\ now \in Nat
  BY DEF TableTyped
<1>2. Opened(p, valid) \in File
  <2>1. CASE valid # 0 /\ ofc[p].ino # NULL /\ now - ofc[p].at < valid
    <3>1. ofc[p] \in Open
      BY <2>1 DEF TableTyped, NotOpened
    <3> QED BY <2>1, <3>1 DEF Opened, Open, File
  <2> QED BY <1>1, <2>1 DEF Opened
<1>3. [ino |-> disk[p].ino, stamp |-> disk[p].stamp, at |-> now] \in Open
  BY <1>1 DEF Open, File
<1> QED BY <1>2, <1>3 DEF OfcAfter, TableTyped

\* Every step of the handler keeps the invariant.
LEMMA HandlerKeeps ==
  ASSUME TableInv, NEW p \in Paths, NEW valid \in Lifetimes, Handler(p, valid)
  PROVE  TableInv'
<1> DEFINE of  == Opened(p, valid)
           tab == Scanned(p, of, valid)
<1>1. /\ of \in File
      /\ OfcAfter(p, valid) \in [Paths -> Open \cup {NotOpened}]
      /\ valid \in Nat
  BY OpenedFacts DEF TableInv
<1>2. /\ tab \in [Slots -> Entry \cup {ZeroSlot}]
      /\ \A s, t \in Slots :
           /\ tab[s].valid # "none"
           /\ Same(tab[t], tab[s].path, tab[s])
           => s = t
      /\ \A s \in Slots : s >= count => tab[s].valid = "none"
      /\ \A s \in Slots : tab[s].valid = "good" =>
           tab[s].checked <= goodAt[tab[s].ino]
  BY ScannedFacts, ScannedKeeps DEF TableInv
<1>3. ASSUME of.ino # NULL, Hits(p, of, valid) = {}
      PROVE  of.ino \in Inodes /\ \A s \in Slots : ~ Same(tab[s], p, of)
  BY <1>1, <1>3, MissLeavesNone DEF File
\* The table part of the invariant when the scanned table is kept as it is.
<1>4. ASSUME slots' = tab, UNCHANGED <<now, good, goodAt, next, count>>
      PROVE  OneVerdictPerFile' /\ AllVerdictsScanned' /\ Truthful'
  <2> HIDE DEF tab, of
  <2>1. OneVerdictPerFile'
    BY <1>2, <1>4 DEF OneVerdictPerFile, Same
  <2>2. AllVerdictsScanned'
    BY <1>2, <1>4 DEF AllVerdictsScanned, TableInv
  <2>3. Truthful'
    BY <1>2, <1>4 DEF Truthful, TableInv
  <2> QED BY <2>1, <2>2, <2>3
<1>5. CASE Missing(p, valid)
  <2>1. TableTyped'
    BY <1>1, <1>5 DEF Missing, Decline, TableInv, TableTyped, fileVars, tableVars
  <2>2. OneVerdictPerFile' /\ AllVerdictsScanned' /\ Truthful'
    BY <1>5 DEF Missing, TableInv, OneVerdictPerFile, AllVerdictsScanned,
                Truthful, Same, fileVars, tableVars
  <2>3. StalenessBounded'
    BY <1>5 DEF Missing, Decline, StalenessBounded
  <2> QED BY <2>1, <2>2, <2>3 DEF TableInv
<1>6. CASE CachedVerdict(p, valid)
  <2>1. PICK s \in Hits(p, of, valid) :
          IF slots[s].valid = "good" THEN Serve(of, valid)
                                     ELSE Decline(valid)
    BY <1>6 DEF CachedVerdict
  <2>2. /\ slots' = tab /\ ofc' = OfcAfter(p, valid) /\ of.ino \in Inodes
        /\ UNCHANGED <<now, disk, good, goodAt, next, count>>
    BY <1>1, <1>6 DEF CachedVerdict, fileVars, File
  <2>3. /\ s \in Slots /\ Same(slots[s], p, of)
        /\ ~ Expired(slots[s], valid)
    BY DEF Hits
  <2> HIDE DEF of, tab
  <2>4. /\ last' \in [ino : Inodes \cup {NULL}, valid : Nat]
        /\ last'.ino # NULL => /\ last' = [ino |-> of.ino, valid |-> valid]
                              /\ slots[s].valid = "good"
    BY <1>1, <2>1, <2>2 DEF Serve, Decline
  <2>5. TableTyped'
    BY <1>1, <1>2, <2>2, <2>4 DEF TableInv, TableTyped
  <2>6. StalenessBounded'
    <3> SUFFICES ASSUME last'.ino # NULL
                 PROVE  now' - goodAt'[last'.ino] < last'.valid
      BY DEF StalenessBounded
    <3>1. slots[s].checked \in Nat /\ slots[s].ino = of.ino
      BY <2>3 DEF TableInv, TableTyped, Entry, ZeroSlot, Same
    <3>2. now - slots[s].checked < valid
      BY <1>1, <2>3, <2>4, <3>1 DEF Expired, TableInv, TableTyped
    <3>3. slots[s].checked <= goodAt[of.ino]
      BY <2>3, <2>4, <3>1 DEF TableInv, Truthful
    <3>4. goodAt[of.ino] \in Int /\ now \in Int
      BY <2>2 DEF TableInv, TableTyped
    <3> QED BY <1>1, <2>2, <2>4, <3>1, <3>2, <3>3, <3>4
  <2> QED BY <1>4, <2>2, <2>5, <2>6 DEF TableInv
<1>7. CASE ProbeGood(p, valid)
  <2>1. /\ of.ino \in Inodes /\ good[of.ino]
        /\ \A s \in Slots : ~ Same(tab[s], p, of)
        /\ last' = [ino |-> of.ino, valid |-> valid]
        /\ ofc' = OfcAfter(p, valid)
        /\ UNCHANGED <<now, disk, good, goodAt>>
    BY <1>3, <1>7 DEF ProbeGood, Serve, fileVars
  <2>2. \/ slots' = tab /\ UNCHANGED <<next, count>>
        \/ Remember(tab, p, of, "good")
    BY <1>7 DEF ProbeGood
  <2> HIDE DEF of, tab
  <2>3. /\ slots' \in [Slots -> Entry \cup {ZeroSlot}]
        /\ next' \in Slots /\ count' \in 0 .. NumSlots
        /\ OneVerdictPerFile' /\ AllVerdictsScanned' /\ Truthful'
    <3>1. CASE slots' = tab /\ UNCHANGED <<next, count>>
      BY <1>2, <1>4, <2>1, <3>1 DEF TableInv, TableTyped
    <3>2. CASE Remember(tab, p, of, "good")
      BY <1>1, <1>2, <2>1, <3>2, RememberKeeps
    <3> QED BY <2>2, <3>1, <3>2
  <2>4. TableTyped'
    BY <1>1, <2>1, <2>3 DEF TableInv, TableTyped
  <2>5. StalenessBounded'
    BY <2>1 DEF StalenessBounded
  <2> QED BY <2>3, <2>4, <2>5 DEF TableInv
<1>8. CASE ProbeBad(p, valid)
  <2>1. /\ of.ino \in Inodes
        /\ \A s \in Slots : ~ Same(tab[s], p, of)
        /\ last' = [ino |-> NULL, valid |-> valid]
        /\ ofc' = OfcAfter(p, valid)
        /\ UNCHANGED <<now, disk, good, goodAt>>
        /\ Remember(tab, p, of, "bad")
    BY <1>3, <1>8 DEF ProbeBad, Decline, fileVars
  <2> HIDE DEF of, tab
  <2>2. /\ slots' \in [Slots -> Entry \cup {ZeroSlot}]
        /\ next' \in Slots /\ count' \in 0 .. NumSlots
        /\ OneVerdictPerFile' /\ AllVerdictsScanned' /\ Truthful'
    BY <1>1, <1>2, <2>1, RememberKeeps
  <2>3. TableTyped'
    BY <1>1, <2>1, <2>2 DEF TableInv, TableTyped
  <2>4. StalenessBounded'
    BY <2>1 DEF StalenessBounded
  <2> QED BY <2>2, <2>3, <2>4 DEF TableInv
<1>9. CASE ProbeFails(p, valid)
  <2>1. /\ last' = [ino |-> NULL, valid |-> valid]
        /\ ofc' = OfcAfter(p, valid)
        /\ slots' = tab
        /\ UNCHANGED <<now, disk, good, goodAt, next, count>>
    BY <1>9 DEF ProbeFails, Decline, fileVars
  <2> HIDE DEF of, tab
  <2>2. TableTyped'
    BY <1>1, <1>2, <2>1 DEF TableInv, TableTyped
  <2>3. StalenessBounded'
    BY <2>1 DEF StalenessBounded
  <2> QED BY <1>4, <2>1, <2>2, <2>3 DEF TableInv
<1> QED BY <1>5, <1>6, <1>7, <1>8, <1>9 DEF Handler

\* The clock and the deployments keep the invariant: no table field moves,
\* and an inode that stops being good was good until now.
LEMMA WorldKeeps ==
  ASSUME TableInv,
         \/ Tick
         \/ \E p \in Paths, stamp \in Stamps : Rewrite(p, stamp)
         \/ \E p \in Paths, ino \in Inodes \cup {NULL} : Replace(p, ino)
  PROVE  TableInv'
<1>1. /\ UNCHANGED <<slots, next, count, ofc>>
      /\ last' = [ino |-> NULL, valid |-> 0]
  BY DEF Tick, Rewrite, Replace, tableVars
<1>2. OneVerdictPerFile' /\ AllVerdictsScanned'
  BY <1>1 DEF TableInv, OneVerdictPerFile, AllVerdictsScanned, Same
<1>3. StalenessBounded'
  BY <1>1 DEF StalenessBounded
<1> DEFINE FilesOK ==
        /\ now' \in 0 .. MaxTime
        /\ disk' \in [Paths -> File]
        /\ good' \in [Inodes -> BOOLEAN]
        /\ goodAt' \in [Inodes -> Int]
        /\ \A i \in Inodes : /\ goodAt[i] <= goodAt'[i]
                             /\ goodAt'[i] <= now'
                             /\ good'[i] => goodAt'[i] = now'
<1>4. FilesOK
  <2>1. CASE Tick
    BY <2>1 DEF Tick, TableInv, TableTyped, Truthful
  <2>2. ASSUME NEW p \in Paths, NEW stamp \in Stamps, Rewrite(p, stamp)
        PROVE  FilesOK
    <3>1. disk[p].ino \in Inodes /\ disk[p] \in File
      BY <2>2 DEF Rewrite, TableInv, TableTyped, File
    <3>2. disk' \in [Paths -> File]
      BY <2>2, <3>1 DEF Rewrite, TableInv, TableTyped, File
    <3> QED BY <2>2, <3>1, <3>2 DEF Rewrite, TableInv, TableTyped, Truthful
  <2>3. ASSUME NEW p \in Paths, NEW ino \in Inodes \cup {NULL}, Replace(p, ino)
        PROVE  FilesOK
    BY <2>3 DEF Replace, TableInv, TableTyped, Truthful, File
  <2> QED BY <2>1, <2>2, <2>3
<1>5. TableTyped'
  BY <1>1, <1>4 DEF TableInv, TableTyped
<1>6. Truthful'
  <2>1. ASSUME NEW s \in Slots, slots[s].valid = "good"
        PROVE  slots[s].checked <= goodAt'[slots[s].ino]
    <3>1. slots[s].checked \in Nat /\ slots[s].ino \in Inodes
      BY <2>1 DEF TableInv, TableTyped, Entry, ZeroSlot
    <3>2. slots[s].checked <= goodAt[slots[s].ino]
      BY <2>1 DEF TableInv, Truthful
    <3> QED BY <1>4, <3>1, <3>2 DEF TableInv, TableTyped
  <2> QED BY <1>1, <1>4, <2>1 DEF Truthful
<1> QED BY <1>2, <1>3, <1>5, <1>6 DEF TableInv

\* The inductive invariant: types, one verdict per file, all of them in the
\* scanned prefix, good verdicts no younger than the file was good, and
\* bounded staleness.
THEOREM TableInvariant == CacheSpec => []TableInv
<1>1. CacheInit => TableInv
  <2> SUFFICES ASSUME CacheInit PROVE TableInv
    OBVIOUS
  <2>1. TableTyped
    BY SlotFacts DEF CacheInit, TableTyped, File
  <2>2. OneVerdictPerFile /\ AllVerdictsScanned
    BY DEF CacheInit, OneVerdictPerFile, AllVerdictsScanned, ZeroSlot
  <2>3. Truthful /\ StalenessBounded
    BY DEF CacheInit, Truthful, StalenessBounded, ZeroSlot
  <2> QED BY <2>1, <2>2, <2>3 DEF TableInv
<1>2. TableInv /\ [CacheNext]_cacheVars => TableInv'
  <2> SUFFICES ASSUME TableInv, [CacheNext]_cacheVars PROVE TableInv'
    OBVIOUS
  <2>1. CASE UNCHANGED cacheVars
    BY <2>1 DEF cacheVars, TableInv, TableTyped, OneVerdictPerFile, AllVerdictsScanned,
                Truthful, StalenessBounded, Same
  <2> QED BY <2>1, HandlerKeeps, WorldKeeps DEF CacheNext
<1> QED BY <1>1, <1>2, PTL DEF CacheSpec

\* Cursor, high-water mark and slots stay within the table, wrap-around
\* included (static_module.c:925-960).
THEOREM TableStaysTyped == CacheSpec => []TableTyped
<1>1. TableInv => TableTyped
  BY DEF TableInv
<1> QED BY <1>1, TableInvariant, PTL

\* At most one verdict about a file, whatever lifetimes the locations have
\* (static_module.c:872-960).
THEOREM VerdictsAreUnique == CacheSpec => []OneVerdictPerFile
<1>1. TableInv => OneVerdictPerFile
  BY DEF TableInv
<1> QED BY <1>1, TableInvariant, PTL

\* cached_verdict() never overlooks a verdict above its high-water mark.
THEOREM NoVerdictHidden == CacheSpec => []AllVerdictsScanned
<1>1. TableInv => AllVerdictsScanned
  BY DEF TableInv
<1> QED BY <1>1, TableInvariant, PTL

\* A sidecar that went bad in place is served for less than the serving
\* location's open_file_cache_valid.
THEOREM StalenessIsBounded == CacheSpec => []StalenessBounded
<1>1. TableInv => StalenessBounded
  BY DEF TableInv
<1> QED BY <1>1, TableInvariant, PTL
=============================================================================
