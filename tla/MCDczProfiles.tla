---------------------------- MODULE MCDczProfiles ----------------------------
(* Two locations out of ten, two dictionaries, bodies at the edges of the   *)
(* window sizes and of a 25-bit size_t.                                     *)
EXTENDS DczProfiles, TLC

CONSTANTS small, large

MCDictLen == (small :> 1000) @@ (large :> 2 ^ 22)

MCDefaultLog(level) == IF level > 10 THEN 23 ELSE 19
\* In KiB.
MCWorkspace(level, long, w) ==
  2 ^ (w - 10) + (IF long THEN 2 ^ (w - 10) \div 16 ELSE 0)
               + (IF level > 10 THEN 4096 ELSE 64)
\* The measured size may exceed the estimate.
MCCDictEstimate(d, level, w) == IF level > 10 THEN 30 ELSE 4
MCCDictSize(d, level, w) == IF level > 10 THEN 33 ELSE IF d = large THEN 6 ELSE 4

Plain == [enable |-> TRUE, level |-> 3, long |-> FALSE, cblock |-> 0,
          windowLog |-> 0, budget |-> UNSET, cap |-> 0,
          dicts |-> <<small, large>>]

MCConfs ==
  { Plain,
    [Plain EXCEPT !.enable = FALSE],
    [Plain EXCEPT !.level = 19],
    [Plain EXCEPT !.level = -5, !.windowLog = 21],
    [Plain EXCEPT !.windowLog = 10],
    [Plain EXCEPT !.budget = 2048],
    [Plain EXCEPT !.level = 4, !.budget = 32],
    [Plain EXCEPT !.budget = 0, !.windowLog = 31],
    [Plain EXCEPT !.long = TRUE, !.windowLog = 20, !.budget = 4096],
    [Plain EXCEPT !.cblock = 1340, !.dicts = <<large>>] }

MCPledges == {-1, 0, 24, 25, 2 ^ 22, 2 ^ 22 + 1, 2 ^ 25 - 1, 2 ^ 25 + 3}
==============================================================================
