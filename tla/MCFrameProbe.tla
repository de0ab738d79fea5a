---------------------------- MODULE MCFrameProbe ----------------------------
(* Sidecars with up to three leading skippable frames, of which two are    *)
(* allowed, around blocks of 32 and 64 bytes.                              *)
EXTENDS FrameProbe, SequencesExt

Descriptor(e, m) ==
  [magic |-> "zstd", reserved |-> FALSE, single |-> FALSE, fcsFlag |-> 0,
   did |-> 0, exp |-> e, mant |-> m, fcs |-> 0]
Single(flag, id, size) ==
  [magic |-> "zstd", reserved |-> FALSE, single |-> TRUE, fcsFlag |-> flag,
   did |-> id, exp |-> 0, mant |-> 0, fcs |-> size]

\* Headers at the edges of the window and of their own length.
MCHeaders ==
  { Descriptor(13, 0), Descriptor(13, 1),
    Single(0, 0, 255), Single(1, 1, 65535), Single(2, 2, 8388609),
    Single(3, 3, 8388608),
    [Descriptor(0, 0) EXCEPT !.reserved = TRUE],
    [magic |-> "other"] }

MCSkips == UNION {[1 .. k -> {0, 10, 32, 70}] : k \in 0 .. 2}
           \cup {<<0, 0, 0>>, <<10, 70, 32>>}

MCFrames(skips, h) ==
  LET at(k) == FoldLeft(LAMBDA sum, x : sum + 8 + x, 0,
                        SubSeq(skips, 1, k - 1))
  IN [k \in 1 .. Len(skips) + 1 |->
        [at |-> at(k),
         header |-> IF k > Len(skips) THEN h
                    ELSE [magic |-> "skip", skip |-> skips[k]]]]

\* The length at which the whole regular header is there.
FullLen(fr) ==
  LET last == fr[Len(fr)] IN
  last.at + IF last.header.magic = "zstd" THEN HeaderLen(last.header) ELSE 6

\* Complete, with a body, cut before or inside the last header; or grown or
\* shrunk since it was opened.
Cuts == {<<0, 0>>, <<40, 40>>, <<-1, -1>>, <<-3, -3>>, <<-8, -8>>, <<40, -2>>,
         <<-1, 40>>}

FilesOf(skips, h, cuts) ==
  LET fr == MCFrames(skips, h) IN
  {f \in {[frames |-> fr, len |-> FullLen(fr) + c[1],
            size |-> FullLen(fr) + c[2]] : c \in cuts} :
     f.len >= 0 /\ f.size >= 0}

\* Every arrangement of frames before the longest header, and every header
\* with and without a frame before it.
MCFiles ==
  UNION {FilesOf(skips, Single(3, 3, 8388608), Cuts) : skips \in MCSkips}
  \cup UNION {FilesOf(skips, h, {<<0, 0>>, <<-3, -3>>}) :
               skips \in {<<>>, <<10>>}, h \in MCHeaders}
=============================================================================
