--------------------------- MODULE AcceptEncoding ---------------------------
(***************************************************************************)
(* Reading the Accept-Encoding request field                               *)
(* (ngx_http_zstd_accept_encoding.h).  The field is a sequence of field    *)
(* lines, a line a sequence of elements, an element a coding name with its *)
(* parameters:                                                             *)
(*                                                                         *)
(*   [name |-> "zstd", params |-> << [name |-> "q", value |-> 500] >>]     *)
(*                                                                         *)
(* Weights are in thousandths, as in the code.  Cutting the octets into    *)
(* elements and parameters (white space, quoted strings, upper and lower   *)
(* case) is not modelled; an element whose name is followed by junk is one *)
(* whose name is neither a coding's nor "*".                               *)
(***************************************************************************)
EXTENDS Integers, Sequences, SequencesExt

Malformed == -1

\* What a qvalue can say, in thousandths, and what no qvalue says.
Qvalues == 0 .. 1000
FullWeight == 1000

NoValue == -2      \* a parameter without "="
BadValue == -3     \* a value that is not a qvalue

-----------------------------------------------------------------------------
(* eval_qvalue() *)

\* One turn of the parameter loop.  An empty name, a second "q", a "q"
\* without a value and a "q" whose value is no qvalue are malformed; the
\* loop ends there.  Every other parameter is skipped.
QvalueStep(acc, p) ==
  IF acc.q = Malformed THEN acc
  ELSE IF \/ p.name = ""
          \/ p.name = "q" /\ (acc.seen \/ p.value \in {NoValue, BadValue})
       THEN [acc EXCEPT !.q = Malformed]
  ELSE IF p.name = "q" THEN [q |-> p.value, seen |-> TRUE]
  ELSE acc

EvalQvalue(params) ==
  FoldLeft(QvalueStep, [q |-> FullWeight, seen |-> FALSE], params).q

-----------------------------------------------------------------------------
(* coding_weight_ex() and its two callers *)

NoWeights == [coding |-> -1, star |-> -1]

\* One element of a field line: a malformed one is skipped.
ElemStep(acc, elem, coding) ==
  LET q == EvalQvalue(elem.params) IN
  IF q < 0 THEN acc
  ELSE IF elem.name = coding THEN [acc EXCEPT !.coding = q]
  ELSE IF elem.name = "*" THEN [acc EXCEPT !.star = q]
  ELSE acc

\* The two weights one field line gives to a coding: the latest valid
\* element that names it, and the latest valid "*".
CodingWeightEx(line, coding) ==
  FoldLeft(LAMBDA acc, elem : ElemStep(acc, elem, coding), NoWeights, line)

\* An explicit element decides; "*" only speaks for a coding nobody named.
Preference(w, allowWildcard) ==
  IF w.coding >= 0 THEN w.coding
  ELSE IF allowWildcard /\ w.star >= 0 THEN w.star
  ELSE -1

\* Mutant: each line is decided on its own, so that a line's "*" competes
\* with another line's explicit element.
ChainStepDecidesPerLine(acc, line, coding, allowWildcard) ==
  LET w == Preference(CodingWeightEx(line, coding), allowWildcard)
  IN IF w >= 0 THEN [acc EXCEPT !.coding = w] ELSE acc

\* chain_coding_weight(): all field lines, in the order received.
ChainStep(acc, line, coding, allowWildcard) ==
  LET w == CodingWeightEx(line, coding) IN
  IF w.coding >= 0 THEN [acc EXCEPT !.coding = w.coding]
  ELSE IF allowWildcard /\ w.star >= 0 THEN [acc EXCEPT !.star = w.star]
  ELSE acc

RequestCodingWeight(ae, coding, allowWildcard) ==
  Preference(FoldLeft(LAMBDA acc, line : ChainStep(acc, line, coding, allowWildcard),
                      NoWeights, ae),
             allowWildcard)

\* ngx_http_zstd_accepts(), for a main request.
AcceptsZstd(ae) == RequestCodingWeight(ae, "zstd", TRUE) > 0

\* The weight gate of dcz_negotiate(): "*" never stands for dcz.
AcceptsDcz(ae) == RequestCodingWeight(ae, "dcz", FALSE) > 0
=============================================================================
