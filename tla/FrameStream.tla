----------------------------- MODULE FrameStream -----------------------------
(***************************************************************************)
(* What the body filter promises to the client, without buffers, chains or *)
(* an encoder: the bytes on the wire are always a prefix of the one zstd   *)
(* frame of the body handed over so far (after the dictionary header of a  *)
(* `dcz' response), and the response is marked complete only when the      *)
(* whole frame, epilogue included, has been sent.                          *)
(***************************************************************************)
EXTENDS Naturals, Sequences, SequencesExt

CONSTANTS
  PREFIX,    \* the dcz frame header, one unit
  EPILOGUE   \* the end of the zstd frame, one unit

VARIABLES
  dcz,      \* the response is dictionary compressed
  fed,      \* body tokens handed to the filter so far
  eof,      \* the last buffer of the body was handed over
  sent,     \* units sent to the client
  closed,   \* the client saw the end of the response
  aborted   \* the filter gave up

streamVars == <<dcz, fed, eof, sent, closed, aborted>>

\* The stream a client that waits long enough receives for the body so far.
Ideal(d, n, e) ==
  (IF d THEN <<PREFIX>> ELSE <<>>)
    \o [i \in 1 .. n |-> i]
    \o (IF e THEN <<EPILOGUE>> ELSE <<>>)

Init ==
  /\ dcz \in BOOLEAN
  /\ fed = 0 /\ eof = FALSE
  /\ sent = <<>>
  /\ closed = FALSE /\ aborted = FALSE

\* The upstream hands over more of the body, never after its last buffer.
HandOver ==
  /\ ~eof /\ ~aborted
  /\ fed' \in Nat /\ fed' >= fed
  /\ eof' \in BOOLEAN
  /\ UNCHANGED <<dcz, sent, closed, aborted>>

\* More of the frame reaches the client; completion only with all of it.
Transmit ==
  /\ ~closed /\ ~aborted
  /\ IsPrefix(sent, sent')
  /\ IsPrefix(sent', Ideal(dcz, fed, eof))
  /\ closed' \in BOOLEAN
  /\ closed' => eof /\ sent' = Ideal(dcz, fed, eof)
  /\ UNCHANGED <<dcz, fed, eof, aborted>>

\* An error: nothing is sent any more and the response is never completed.
Abort ==
  /\ ~closed /\ ~aborted
  /\ aborted' = TRUE
  /\ UNCHANGED <<dcz, fed, eof, sent, closed>>

Next == HandOver \/ Transmit \/ Abort

Spec == Init /\ [][Next]_streamVars
=============================================================================
