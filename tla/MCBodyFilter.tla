---------------------------- MODULE MCBodyFilter ----------------------------
(* Model-checking instances of BodyFilter.  The values of the bounds and the *)
(* units are in the .cfg files.                                              *)
EXTENDS BodyFilter

\* zstd_max_length unset, and a limit below the longest body.
MCLimits == {-1, 1}

=============================================================================
