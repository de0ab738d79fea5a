------------------------ MODULE AcceptEncodingField -------------------------
(***************************************************************************)
(* An Accept-Encoding field as it arrives, parameter by parameter, element *)
(* by element and field line by field line, in every way a client may      *)
(* write it down within the bounds.  What the code reads out of it is      *)
(* compared with a definition that folds nothing.                          *)
(***************************************************************************)
EXTENDS AcceptEncoding, FiniteSetsExt

CONSTANTS
  Codings,     \* the names that elements have
  Weights,     \* the weights they are given
  MaxLines,    \* field lines in one request
  MaxElems,    \* elements over all lines
  MaxParams    \* parameters over all elements

ASSUME FieldBounds == {MaxLines, MaxElems, MaxParams} \subseteq Nat

ASSUME WeightRange == Weights \subseteq Qvalues

VARIABLE ae    \* the field lines received so far

Params == [name : {"q"}, value : Weights \cup {NoValue, BadValue}]
            \cup [name : {"ext", ""}, value : {NoValue}]

\* Where the elements are, by line and place, and one of them.
Places  == UNION {{i} \X DOMAIN ae[i] : i \in DOMAIN ae}
Elem(p) == ae[p[1]][p[2]]

NumParams == MapThenSumSet(LAMBDA p : Len(Elem(p).params), Places)

InitField == ae = <<>>

\* nginx chains a repeated Accept-Encoding line on ->next.
NewLine ==
  /\ Len(ae) < MaxLines
  /\ ae' = Append(ae, <<>>)

NewElem(name) ==
  /\ ae # <<>>
  /\ Cardinality(Places) < MaxElems
  /\ ae' = [ae EXCEPT ![Len(ae)] =
                        Append(@, [name |-> name, params |-> <<>>])]

NewParam(p) ==
  /\ ae # <<>> /\ Last(ae) # <<>>
  /\ NumParams < MaxParams
  /\ ae' = [ae EXCEPT ![Len(ae)][Len(ae[Len(ae)])].params = Append(@, p)]

NextField ==
  \/ NewLine
  \/ \E name \in Codings : NewElem(name)
  \/ \E p \in Params : NewParam(p)

SpecField == InitField /\ [][NextField]_ae

-----------------------------------------------------------------------------
(* Reference: the field is the comma-joined list of its lines *)

\* An element comes after those of earlier lines and those before it on its
\* own.
Before(p, q) == p[1] < q[1] \/ (p[1] = q[1] /\ p[2] < q[2])
LastOf(places) == CHOOSE p \in places : \A q \in places \ {p} : Before(q, p)

IsQ(p) == p.name = "q"

WellFormed(params) ==
  /\ \A i \in DOMAIN params : params[i].name # ""
  /\ \A i, j \in DOMAIN params : IsQ(params[i]) /\ IsQ(params[j]) => i = j
  /\ \A i \in DOMAIN params : IsQ(params[i]) => params[i].value \in Qvalues

Weight(params) ==
  IF \E i \in DOMAIN params : IsQ(params[i])
  THEN params[CHOOSE i \in DOMAIN params : IsQ(params[i])].value
  ELSE FullWeight

\* The well-formed elements with a name.
Naming(name) ==
  {p \in Places : Elem(p).name = name /\ WellFormed(Elem(p).params)}

\* What the joined list says of a coding: its last well-formed element, or
\* the last well-formed "*" when no well-formed element names it.
Effective(coding, wildcard) ==
  IF Naming(coding) # {} THEN Weight(Elem(LastOf(Naming(coding))).params)
  ELSE IF wildcard /\ Naming("*") # {} THEN Weight(Elem(LastOf(Naming("*"))).params)
  ELSE -1

\* However a client spreads its codings over field lines, and whatever
\* malformed or foreign elements it mixes in, the weight the code computes is
\* the one of the comma-joined list (accept_encoding.h:534-563): the latest
\* explicit element wins across lines too, and "*" never overrides one.
WeightIsOfJoinedField ==
  \A coding \in {"zstd", "dcz"}, wildcard \in BOOLEAN :
    RequestCodingWeight(ae, coding, wildcard) = Effective(coding, wildcard)

=============================================================================
