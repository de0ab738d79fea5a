------------------------- MODULE Negotiation_proofs -------------------------
(***************************************************************************)
(* No client is handed a coding it did not ask for, whatever the requests, *)
(* configurations and responses are, and a cache hands out what the origin *)
(* would answer: for the header filter alone (Negotiation) and behind the  *)
(* static handler (StaticNegotiation).  The last part is about what the    *)
(* client asked for: the weights of its Accept-Encoding field.             *)
(***************************************************************************)
EXTENDS StaticNegotiation, AcceptEncodingField, SequenceTheorems,
        FiniteSetTheorems, WellFoundedInduction, TLAPS

\* Every stored answer was negotiated for the request it is stored with,
\* under some configuration and some response of the resource: those of now,
\* while the entry is current.
Stored ==
  /\ resp \in Responses
  /\ \A e \in cache :
       /\ e.req \in Requests /\ e.req.main
       /\ e.current => e.answer = HeaderFilter(conf, resp, e.req)
       /\ \E c, rsp : /\ rsp \in Responses
                      /\ e.answer = HeaderFilter(c, rsp, e.req)

\* A field is nominated exactly when a live line names it.
LEMMA NominatedNames ==
  ASSUME NEW lines, NEW f
  PROVE  Names(lines, f) <=> f \in Nominated(lines)
BY DEF Names, Nominated

\* Appending a line loses no name and adds those of the line.
LEMMA NamesAppend ==
  ASSUME NEW lines \in Lines, NEW fields \in SUBSET FieldNames
  PROVE  /\ Append(lines, Vary(fields)) \in Lines
         /\ \A f : Names(lines, f) => Names(Append(lines, Vary(fields)), f)
         /\ \A f \in fields : Names(Append(lines, Vary(fields)), f)
<1> DEFINE Line == [live : BOOLEAN, fields : SUBSET FieldNames]
           more == Append(lines, Vary(fields))
<1>1. lines \in Seq(Line) /\ Vary(fields) \in Line
  BY DEF Lines, Vary
<1> HIDE DEF Line
<1>2. /\ more \in Seq(Line)
      /\ Len(more) = Len(lines) + 1
      /\ DOMAIN more = 1 .. Len(more)
      /\ DOMAIN lines = 1 .. Len(lines)
      /\ Len(lines) \in Nat
      /\ \A i \in 1 .. Len(lines) : more[i] = lines[i]
      /\ more[Len(more)] = Vary(fields)
  BY <1>1
<1>3. ASSUME NEW f, Names(lines, f) PROVE Names(more, f)
  BY <1>2, <1>3 DEF Names
<1>4. ASSUME NEW f \in fields PROVE Names(more, f)
  <2>1. Len(more) \in DOMAIN more
    BY <1>2
  <2>2. more[Len(more)].live /\ f \in more[Len(more)].fields
    BY <1>2 DEF Vary
  <2> QED BY <2>1, <2>2 DEF Names
<1>5. more \in Lines
  BY <1>2 DEF Lines, Line
<1> QED BY <1>3, <1>4, <1>5

\* The dictionary dcz_negotiate() returns is the one the client advertised,
\* and it returns one only past its weight, repetition and site gates.
LEMMA DczGates ==
  ASSUME NEW c, NEW req \in Requests, DczNegotiate(c, req) # NoDict
  PROVE  /\ c.dcz_dicts # <<>>
         /\ AcceptsDcz(req.ae)
         /\ req.avail = <<DczNegotiate(c, req)>>
         /\ Range(req.site) \subseteq {"same-origin", "none"}
<1>1. /\ c.dcz_dicts # <<>>
      /\ AcceptsDcz(req.ae)
      /\ Len(req.avail) = 1
      /\ \A s \in Range(req.site) : s \in {"same-origin", "none"}
      /\ DczNegotiate(c, req) = Lookup(c.dcz_dicts, req.avail[1])
  BY DEF DczNegotiate
<1>2. DczNegotiate(c, req) = req.avail[1]
  BY <1>1 DEF Lookup
<1>3. req.avail = <<req.avail[1]>>
  BY <1>1, RequestsAssumption
<1> QED BY <1>1, <1>2, <1>3

\* vary_accept_encoding() together with nginx's own line: Accept-Encoding is
\* named, and nothing that was named is lost.
LEMMA VaryAENames ==
  ASSUME NEW c, NEW lines \in Lines
  PROVE  /\ VaryAcceptEncoding(c, lines) \in Lines
         /\ \A f : Names(lines, f) => Names(VaryAcceptEncoding(c, lines), f)
         /\ \/ c.gzip_vary
            \/ Names(VaryAcceptEncoding(c, lines), "Accept-Encoding")
<1>1. {"Accept-Encoding"} \in SUBSET FieldNames
  BY DEF FieldNames
<1> DEFINE more == Append(lines, Vary({"Accept-Encoding"}))
<1>2. /\ more \in Lines /\ Names(more, "Accept-Encoding")
      /\ \A f : Names(lines, f) => Names(more, f)
  BY <1>1, NamesAppend
<1> HIDE DEF more
<1>3. VaryAcceptEncoding(c, lines) =
        IF c.gzip_vary \/ Names(lines, "Accept-Encoding") THEN lines ELSE more
  BY DEF VaryAcceptEncoding, more
<1> QED BY <1>2, <1>3

\* vary_dcz() names both dictionary fields and loses no name.
LEMMA VaryDczNames ==
  ASSUME NEW lines \in Lines
  PROVE  /\ VaryDcz(lines) \in Lines
         /\ \A f : Names(lines, f) => Names(VaryDcz(lines), f)
         /\ Names(VaryDcz(lines), "Available-Dictionary")
         /\ Names(VaryDcz(lines), "Sec-Fetch-Site")
<1> DEFINE missing == {f \in {"Available-Dictionary", "Sec-Fetch-Site"} :
                         ~ Names(lines, f)}
<1>1. missing \in SUBSET FieldNames
  BY DEF FieldNames
<1>2. VaryDcz(lines) = IF missing = {} THEN lines
                       ELSE Append(lines, Vary(missing))
  BY DEF VaryDcz
<1>3. CASE missing = {}
  BY <1>2, <1>3
<1>4. CASE missing # {}
  <2>1. /\ VaryDcz(lines) \in Lines
        /\ \A f : Names(lines, f) => Names(VaryDcz(lines), f)
        /\ \A f \in missing : Names(VaryDcz(lines), f)
    BY <1>1, <1>2, <1>4, NamesAppend
  <2> QED BY <2>1
<1> QED BY <1>3, <1>4

\* What the header filter answers is wanted by the request it answers, and
\* the answer's Vary names every field the decision was read from.
LEMMA AnswerIsWanted ==
  ASSUME NEW c, NEW rsp, rsp.vary \in Lines, NEW req \in Requests,
         NEW a, a = HeaderFilter(c, rsp, req)
  PROVE  /\ Wanted(req, a)
         /\ a.coding \in {"zstd", "dcz"} => Names(a.vary, "Accept-Encoding")
         /\ a.coding = "dcz" => /\ Names(a.vary, "Available-Dictionary")
                               /\ Names(a.vary, "Sec-Fetch-Site")
<1> DEFINE b == Negotiate(c, rsp, req)
           bypassed == VaryBypass(c, rsp.vary)
           lines == VaryAcceptEncoding(c, bypassed)
           all == IF c.dcz_dicts # <<>> THEN VaryDcz(lines) ELSE lines
           dict == DczNegotiate(c, req)
<1>1. bypassed \in Lines
  <2>1. {BypassField} \in SUBSET FieldNames
    BY DEF FieldNames
  <2> QED BY <2>1, NamesAppend DEF VaryBypass
<1>2. lines \in Lines /\ (c.gzip_vary \/ Names(lines, "Accept-Encoding"))
  BY <1>1, VaryAENames
<1>3. /\ all \in Lines
      /\ c.gzip_vary \/ Names(all, "Accept-Encoding")
      /\ c.dcz_dicts # <<>> => /\ Names(all, "Available-Dictionary")
                              /\ Names(all, "Sec-Fetch-Site")
  BY <1>2, VaryDczNames
<1>4. \/ b = Answer("identity", NoDict, lines)
      \/ b = Answer("identity", NoDict, all)
      \/ b = Answer("dcz", dict, all) /\ dict # NoDict
      \/ b = Answer("zstd", NoDict, all) /\ AcceptsZstd(req.ae)
  <2> HIDE DEF lines, all, dict
  <2>1. b = IF c.bypass /\ req.bypass THEN Answer("identity", NoDict, lines)
            ELSE IF dict # NoDict THEN Answer("dcz", dict, all)
            ELSE IF AcceptsZstd(req.ae) THEN Answer("zstd", NoDict, all)
            ELSE Answer("identity", NoDict, all)
    BY DEF Negotiate, lines, all, dict, bypassed
  <2> QED BY <2>1
<1> HIDE DEF lines, all, bypassed
<1>5. /\ Wanted(req, b)
      /\ b.coding \in {"zstd", "dcz"} => b.vary = all
      /\ b.coding = "dcz" => c.dcz_dicts # <<>>
  <2> HIDE DEF b
  <2>1. CASE b.coding = "identity"
    BY <2>1 DEF Wanted
  <2>2. CASE b = Answer("dcz", dict, all) /\ dict # NoDict
    <3>1. b.coding = "dcz" /\ b.dict = dict /\ b.vary = all
      BY <2>2 DEF Answer
    <3> QED BY <2>2, <3>1, DczGates DEF Wanted
  <2>3. CASE b = Answer("zstd", NoDict, all) /\ AcceptsZstd(req.ae)
    <3>1. b.coding = "zstd" /\ b.vary = all
      BY <2>3 DEF Answer
    <3> QED BY <2>3, <3>1 DEF Wanted
  <2> QED BY <1>4, <2>1, <2>2, <2>3 DEF Answer
<1>6. CASE ~ Eligible(c, rsp, req)
  BY <1>6 DEF HeaderFilter, Answer, Wanted
<1>7. CASE Eligible(c, rsp, req) /\ ~ c.gzip_vary
  <2>1. a = b
    BY <1>7 DEF HeaderFilter, CoreHeaderFilter
  <2> HIDE DEF b
  <2> QED BY <1>3, <1>5, <1>7, <2>1
<1>8. CASE Eligible(c, rsp, req) /\ c.gzip_vary
  <2>1. a = [b EXCEPT !.vary = Append(@, Vary({"Accept-Encoding"}))]
    BY <1>8 DEF HeaderFilter, CoreHeaderFilter
  <2>2. /\ a.coding = b.coding
        /\ a.dict = b.dict
        /\ a.vary = Append(b.vary, Vary({"Accept-Encoding"}))
    BY <1>4, <2>1 DEF Answer
  <2> HIDE DEF b
  <2>3. /\ \A f : Names(all, f) =>
                 Names(Append(all, Vary({"Accept-Encoding"})), f)
        /\ Names(Append(all, Vary({"Accept-Encoding"})), "Accept-Encoding")
    <3>1. {"Accept-Encoding"} \in SUBSET FieldNames
      BY DEF FieldNames
    <3> QED BY <1>3, <3>1, NamesAppend
  <2>4. Wanted(req, a)
    BY <1>5, <2>2 DEF Wanted
  <2> QED BY <1>3, <1>5, <2>2, <2>3, <2>4
<1> QED BY <1>6, <1>7, <1>8

\* What a Vary field name selects.
LEMMA FieldOf ==
  ASSUME NEW req
  PROVE  /\ Field(req, "Accept-Encoding") = req.ae
         /\ Field(req, "Available-Dictionary") = req.avail
         /\ Field(req, "Sec-Fetch-Site") = req.site
         /\ Field(req, BypassField) = req.bypass
BY DEF Field, BypassField

\* Two requests that agree on the fields a stored answer names agree on what
\* the answer was negotiated from.
LEMMA MatchIsWanted ==
  ASSUME NEW c, NEW rsp \in Responses, NEW e, NEW req,
         e.req \in Requests,
         e.answer = HeaderFilter(c, rsp, e.req),
         Matches(e, req)
  PROVE  Wanted(req, e.answer)
<1> DEFINE named == Nominated(e.answer.vary)
<1>1. /\ Wanted(e.req, e.answer)
      /\ e.answer.coding \in {"zstd", "dcz"} => "Accept-Encoding" \in named
      /\ e.answer.coding = "dcz" => /\ "Available-Dictionary" \in named
                                   /\ "Sec-Fetch-Site" \in named
  BY AnswerIsWanted, NominatedNames, ResponsesAssumption
<1>2. \A f \in named : Field(req, f) = Field(e.req, f)
  BY DEF Matches
<1> HIDE DEF named
<1>3. e.answer.coding \in {"zstd", "dcz"} => req.ae = e.req.ae
  BY <1>1, <1>2, FieldOf
<1>4. e.answer.coding = "dcz" => req.avail = e.req.avail
                                 /\ req.site = e.req.site
  BY <1>1, <1>2, FieldOf
<1> QED BY <1>1, <1>3, <1>4 DEF Wanted

\* Stored is inductive: a fill stores a fresh answer with its own request,
\* and reloads and publications keep request and answer of every entry.
LEMMA StoredInductive == Spec => []Stored
<1>1. Init => Stored
  BY DEF Init, Stored
<1>2. Stored /\ [Next]_vars => Stored'
  <2> SUFFICES ASSUME Stored, [Next]_vars PROVE Stored'
    OBVIOUS
  <2>1. ASSUME NEW req \in Requests, Fill(req) PROVE Stored'
    <3> DEFINE new == [req |-> req, answer |-> HeaderFilter(conf, resp, req),
                       current |-> TRUE]
    <3>1. /\ cache' = cache \cup {new} /\ resp' = resp /\ conf' = conf
          /\ req.main
      BY <2>1 DEF Fill
    <3>2. /\ new.req \in Requests /\ new.req.main
          /\ new.answer = HeaderFilter(conf, resp, new.req)
      BY <3>1
    <3> HIDE DEF new
    <3>3. \A e \in cache' :
            /\ e.req \in Requests /\ e.req.main
            /\ e.current => e.answer = HeaderFilter(conf, resp, e.req)
            /\ \E c, rsp : /\ rsp \in Responses
                           /\ e.answer = HeaderFilter(c, rsp, e.req)
      BY <3>1, <3>2 DEF Stored
    <3> QED BY <3>1, <3>3 DEF Stored
  <2>2. ASSUME NEW e \in cache, Evict(e) PROVE Stored'
    BY <2>2 DEF Evict, Stored
  <2>3. ASSUME cache' = Outdated, resp' \in Responses PROVE Stored'
    <3>1. \A e \in cache' : \E x \in cache : e.req = x.req
                                           /\ e.answer = x.answer
                                           /\ ~ e.current
      BY <2>3 DEF Outdated
    <3> QED BY <2>3, <3>1 DEF Stored
  <2>4. ASSUME NEW c \in Confs, Reload(c) PROVE Stored'
    BY <2>3, <2>4 DEF Reload, Stored
  <2>5. ASSUME NEW rsp \in Responses, Publish(rsp) PROVE Stored'
    BY <2>3, <2>5 DEF Publish
  <2>6. CASE UNCHANGED vars
    BY <2>6 DEF vars, Stored
  <2> QED BY <2>1, <2>2, <2>4, <2>5, <2>6 DEF Next
<1> QED BY <1>1, <1>2, PTL DEF Spec

\* Every answer a request can be given, from the origin or from a cache
\* somebody else filled before any number of reloads, carries a coding the
\* request asked for; a dictionary answer only reaches a client that
\* advertised this dictionary, and not across sites
\* (filter_module.c:1590-1896).
THEOREM CodingsAreWanted == Spec => []OnlyWantedCodings
<1>1. Stored => OnlyWantedCodings
  <2> SUFFICES ASSUME Stored, NEW req \in Requests, NEW a \in AnswersTo(req)
               PROVE  Wanted(req, a)
    BY DEF OnlyWantedCodings
  <2>1. CASE a = HeaderFilter(conf, resp, req)
    BY <2>1, AnswerIsWanted, ResponsesAssumption DEF Stored
  <2>2. ASSUME NEW e \in cache, Matches(e, req), a = e.answer
        PROVE  Wanted(req, a)
    <3>1. PICK c, rsp : /\ rsp \in Responses
                        /\ e.answer = HeaderFilter(c, rsp, e.req)
      BY DEF Stored
    <3> QED BY <2>2, <3>1, MatchIsWanted DEF Stored
  <2> QED BY <2>1, <2>2 DEF AnswersTo
<1> QED BY <1>1, StoredInductive, PTL

-----------------------------------------------------------------------------
(* The cache is transparent *)

\* The Vary lines of a response the filter negotiated name everything the
\* negotiation read: Accept-Encoding always, the bypass header when it is
\* declared, the dictionary fields unless the bypass came first
\* (filter_module.c:1734-1770).
LEMMA EligibleNames ==
  ASSUME NEW c, NEW rsp, rsp.vary \in Lines, NEW req, Eligible(c, rsp, req),
         NEW a, a = HeaderFilter(c, rsp, req)
  PROVE  /\ a.coding = Negotiate(c, rsp, req).coding
         /\ a.dict = Negotiate(c, rsp, req).dict
         /\ Names(a.vary, "Accept-Encoding")
         /\ c.bypass_vary => Names(a.vary, BypassField)
         /\ c.dcz_dicts # <<>> /\ ~ (c.bypass /\ req.bypass) =>
              /\ Names(a.vary, "Available-Dictionary")
              /\ Names(a.vary, "Sec-Fetch-Site")
<1> DEFINE b == Negotiate(c, rsp, req)
           bypassed == VaryBypass(c, rsp.vary)
           lines == VaryAcceptEncoding(c, bypassed)
           all == IF c.dcz_dicts # <<>> THEN VaryDcz(lines) ELSE lines
           dict == DczNegotiate(c, req)
           AE == {"Accept-Encoding"}
<1>1. /\ bypassed \in Lines
      /\ c.bypass_vary => Names(bypassed, BypassField)
  <2>1. {BypassField} \in SUBSET FieldNames
    BY DEF FieldNames
  <2> QED BY <2>1, NamesAppend DEF VaryBypass
<1> HIDE DEF bypassed
<1>2. /\ lines \in Lines
      /\ c.gzip_vary \/ Names(lines, "Accept-Encoding")
      /\ c.bypass_vary => Names(lines, BypassField)
  BY <1>1, VaryAENames
<1> HIDE DEF lines
<1>3. /\ all \in Lines
      /\ c.gzip_vary \/ Names(all, "Accept-Encoding")
      /\ c.bypass_vary => Names(all, BypassField)
      /\ c.dcz_dicts # <<>> => /\ Names(all, "Available-Dictionary")
                              /\ Names(all, "Sec-Fetch-Site")
  BY <1>2, VaryDczNames
<1>4. b = IF c.bypass /\ req.bypass THEN Answer("identity", NoDict, lines)
          ELSE IF dict # NoDict THEN Answer("dcz", dict, all)
          ELSE IF AcceptsZstd(req.ae) THEN Answer("zstd", NoDict, all)
          ELSE Answer("identity", NoDict, all)
  BY DEF Negotiate, lines, bypassed
<1> HIDE DEF all, dict
<1>5. PICK cod, d, v : /\ b = Answer(cod, d, v)
                       /\ v = lines \/ v = all
                       /\ ~ (c.bypass /\ req.bypass) => v = all
  BY <1>4
<1>6. a = CoreHeaderFilter(c, b)
  BY DEF HeaderFilter
<1> HIDE DEF b
<1>7. CASE ~ c.gzip_vary
  <2>1. a = b
    BY <1>6, <1>7 DEF CoreHeaderFilter
  <2>2. b.vary = v
    BY <1>5 DEF Answer
  <2> QED BY <1>2, <1>3, <1>5, <1>7, <2>1, <2>2 DEF b
<1>8. CASE c.gzip_vary
  <2>1. a = [b EXCEPT !.vary = Append(@, Vary(AE))]
    BY <1>6, <1>8 DEF CoreHeaderFilter
  <2>2. /\ a.coding = b.coding /\ a.dict = b.dict
        /\ a.vary = Append(v, Vary(AE))
    BY <1>5, <2>1 DEF Answer
  <2>3. AE \in SUBSET FieldNames /\ v \in Lines
    BY <1>2, <1>3, <1>5 DEF FieldNames
  <2>4. /\ \A f : Names(v, f) => Names(a.vary, f)
        /\ Names(a.vary, "Accept-Encoding")
    BY <2>2, <2>3, NamesAppend
  <2> QED BY <1>2, <1>3, <1>5, <2>2, <2>4 DEF b
<1> QED BY <1>7, <1>8

\* What the negotiation reads of a request: two requests that agree on it
\* are given the same coding and dictionary.
LEMMA NegotiationReads ==
  ASSUME NEW c, NEW rsp, NEW req, NEW other,
         req.ae = other.ae, req.main = other.main, req.secure = other.secure,
         c.bypass => req.bypass = other.bypass,
         c.dcz_dicts # <<>> /\ ~ (c.bypass /\ req.bypass) =>
           req.avail = other.avail /\ req.site = other.site
  PROVE  /\ Negotiate(c, rsp, req).coding = Negotiate(c, rsp, other).coding
         /\ Negotiate(c, rsp, req).dict = Negotiate(c, rsp, other).dict
<1> DEFINE lines == VaryAcceptEncoding(c, VaryBypass(c, rsp.vary))
           all == IF c.dcz_dicts # <<>> THEN VaryDcz(lines) ELSE lines
<1>1. \A r : Negotiate(c, rsp, r)
              = IF c.bypass /\ r.bypass THEN Answer("identity", NoDict, lines)
                ELSE IF DczNegotiate(c, r) # NoDict
                THEN Answer("dcz", DczNegotiate(c, r), all)
                ELSE IF AcceptsZstd(r.ae) THEN Answer("zstd", NoDict, all)
                ELSE Answer("identity", NoDict, all)
  BY DEF Negotiate
<1> HIDE DEF lines, all
<1>2. CASE c.bypass /\ req.bypass
  BY <1>1, <1>2 DEF Answer
<1>3. CASE ~ (c.bypass /\ req.bypass)
  <2>1. DczNegotiate(c, req) = DczNegotiate(c, other)
    <3>1. CASE c.dcz_dicts = <<>>
      BY <3>1 DEF DczNegotiate
    <3>2. CASE c.dcz_dicts # <<>>
      BY <1>3, <3>2 DEF DczNegotiate
    <3> QED BY <3>1, <3>2
  <2>2. ~ (c.bypass /\ other.bypass)
    BY <1>3
  <2> QED BY <1>1, <1>3, <2>1, <2>2 DEF Answer
<1> QED BY <1>2, <1>3

\* So a request that matches a filtered answer would have been given that
\* answer.
LEMMA FilterIsTransparent ==
  ASSUME NEW c, NEW rsp, rsp.vary \in Lines, NEW req, NEW other,
         c.bypass => c.bypass_vary,
         req.main, other.main, req.secure = other.secure,
         \A f \in Nominated(HeaderFilter(c, rsp, req).vary) :
           Field(other, f) = Field(req, f)
  PROVE  /\ HeaderFilter(c, rsp, other).coding
              = HeaderFilter(c, rsp, req).coding
         /\ HeaderFilter(c, rsp, other).dict = HeaderFilter(c, rsp, req).dict
<1>1. Eligible(c, rsp, req) <=> Eligible(c, rsp, other)
  BY DEF Eligible
<1>2. CASE ~ Eligible(c, rsp, req)
  BY <1>1, <1>2 DEF HeaderFilter
<1>3. CASE Eligible(c, rsp, req)
  <2> DEFINE a == HeaderFilter(c, rsp, req)
             o == HeaderFilter(c, rsp, other)
  <2>1. \A f : Names(a.vary, f) => Field(other, f) = Field(req, f)
    BY NominatedNames
  <2>2. /\ a.coding = Negotiate(c, rsp, req).coding
        /\ a.dict = Negotiate(c, rsp, req).dict
        /\ Names(a.vary, "Accept-Encoding")
        /\ c.bypass_vary => Names(a.vary, BypassField)
        /\ c.dcz_dicts # <<>> /\ ~ (c.bypass /\ req.bypass) =>
             /\ Names(a.vary, "Available-Dictionary")
             /\ Names(a.vary, "Sec-Fetch-Site")
    BY <1>3, EligibleNames
  <2>3. /\ o.coding = Negotiate(c, rsp, other).coding
        /\ o.dict = Negotiate(c, rsp, other).dict
    BY <1>1, <1>3, EligibleNames
  <2> HIDE DEF a, o
  <2>4. /\ other.ae = req.ae
        /\ c.bypass => other.bypass = req.bypass
        /\ c.dcz_dicts # <<>> /\ ~ (c.bypass /\ req.bypass) =>
             other.avail = req.avail /\ other.site = req.site
    BY <2>1, <2>2, FieldOf
  <2>5. req.main = other.main
    BY <1>1, <1>3 DEF Eligible
  <2>6. /\ Negotiate(c, rsp, req).coding = Negotiate(c, rsp, other).coding
        /\ Negotiate(c, rsp, req).dict = Negotiate(c, rsp, other).dict
    BY <2>4, <2>5, NegotiationReads
  <2>7. o.coding = a.coding /\ o.dict = a.dict
    BY <2>2, <2>3, <2>6
  <2> QED BY <2>7 DEF a, o
<1> QED BY <1>2, <1>3

\* While neither the configuration nor the resource changes, a stored
\* response is what the origin would answer the client it is handed to: the
\* order in which the cache was filled costs nobody the compression or the
\* bypass (filter_module.c:1734-1770, 1790-1824).
THEOREM CacheIsTransparent == Spec => []CacheTransparent
<1>1. Stored => CacheTransparent
  <2> SUFFICES ASSUME Stored, conf.bypass => conf.bypass_vary,
                      NEW e \in cache, NEW req \in Requests,
                      e.current, Matches(e, req)
               PROVE  /\ HeaderFilter(conf, resp, req).coding = e.answer.coding
                      /\ HeaderFilter(conf, resp, req).dict = e.answer.dict
    BY DEF CacheTransparent
  <2>1. /\ resp.vary \in Lines /\ e.req.main
        /\ e.answer = HeaderFilter(conf, resp, e.req)
    BY ResponsesAssumption DEF Stored
  <2>2. /\ req.main /\ req.secure = e.req.secure
        /\ \A f \in Nominated(HeaderFilter(conf, resp, e.req).vary) :
             Field(req, f) = Field(e.req, f)
    BY <2>1 DEF Matches
  <2> QED BY <2>1, <2>2, FilterIsTransparent
<1> QED BY <1>1, StoredInductive, PTL

-----------------------------------------------------------------------------
(* The static handler in front of the filter *)

\* What an entry of the cache was answered from.
StaticEntry(e, c, rsp) ==
  /\ rsp \in Responses
  /\ c.static \in {"off", "on", "always"}
  /\ e.answer = Respond(c, rsp, e.req)
  /\ e.always <=> c.static = "always"

StaticStored ==
  /\ resp \in Responses
  /\ conf.static \in {"off", "on", "always"}
  /\ \A e \in cache :
       /\ DOMAIN e = {"req", "answer", "current", "always"}
       /\ e.req \in Requests /\ e.req.main /\ e.req.get
       /\ e.current => e.answer = Respond(conf, resp, e.req)
       /\ \E c, rsp : StaticEntry(e, c, rsp)

\* The handler's decline leaves the lines it pushed, and nothing else, to the
\* filter.
LEMMA DeclineLeaves ==
  ASSUME NEW rsp \in Responses, NEW lines
  PROVE  [rsp EXCEPT !.vary = lines].vary = lines
BY StaticResponses

\* nginx's own line changes neither coding nor dictionary and loses no name.
LEMMA CoreNames ==
  ASSUME NEW c, NEW coding, NEW dict, NEW lines \in Lines,
         c.gzip_vary \/ Names(lines, "Accept-Encoding"),
         NEW a, a = CoreHeaderFilter(c, Answer(coding, dict, lines))
  PROVE  /\ a.coding = coding /\ a.dict = dict
         /\ Names(a.vary, "Accept-Encoding")
         /\ \A f : Names(lines, f) => Names(a.vary, f)
<1>1. CASE ~ c.gzip_vary
  BY <1>1 DEF CoreHeaderFilter, Answer
<1>2. CASE c.gzip_vary
  <2> DEFINE AE == {"Accept-Encoding"}
  <2>1. /\ a.coding = coding /\ a.dict = dict
        /\ a.vary = Append(lines, Vary(AE))
    BY <1>2 DEF CoreHeaderFilter, Answer
  <2>2. AE \in SUBSET FieldNames
    BY DEF FieldNames
  <2>3. /\ \A f : Names(lines, f) => Names(a.vary, f)
        /\ Names(a.vary, "Accept-Encoding")
    BY <2>1, <2>2, NamesAppend
  <2> QED BY <2>1, <2>3
<1> QED BY <1>1, <1>2

\* Every decline names Accept-Encoding, and what the filter answers behind it
\* is wanted.
LEMMA DeclineIsWanted ==
  ASSUME NEW c, NEW rsp \in Responses, NEW req \in Requests,
         NEW lines \in Lines,
         c.gzip_vary \/ Names(lines, "Accept-Encoding"),
         NEW a, a = Declined(c, rsp, req, lines)
  PROVE  /\ Wanted(req, a)
         /\ Names(a.vary, "Accept-Encoding")
         /\ a.coding = "dcz" => /\ Names(a.vary, "Available-Dictionary")
                               /\ Names(a.vary, "Sec-Fetch-Site")
<1> DEFINE left == [rsp EXCEPT !.vary = lines]
<1>1. left.vary \in Lines
  BY DeclineLeaves
<1>2. a = IF Eligible(c, left, req) THEN HeaderFilter(c, left, req)
          ELSE CoreHeaderFilter(c, Answer("identity", NoDict, lines))
  BY DEF Declined
<1> HIDE DEF left
<1>3. CASE Eligible(c, left, req)
  <2>1. a = HeaderFilter(c, left, req)
    BY <1>2, <1>3
  <2>2. Names(a.vary, "Accept-Encoding")
    BY <1>1, <1>3, <2>1, EligibleNames
  <2> QED BY <1>1, <2>1, <2>2, AnswerIsWanted
<1>4. CASE ~ Eligible(c, left, req)
  <2>1. a = CoreHeaderFilter(c, Answer("identity", NoDict, lines))
    BY <1>2, <1>4
  <2>2. a.coding = "identity" /\ Names(a.vary, "Accept-Encoding")
    BY <2>1, CoreNames
  <2> QED BY <2>2 DEF Wanted
<1> QED BY <1>3, <1>4

\* Without "always" the handler and the filter behind it answer what the
\* client asked for, and the answer names the fields it depends on
\* (static_module.c:1877-1914).
LEMMA RespondIsWanted ==
  ASSUME NEW c, c.static \in {"off", "on"}, NEW rsp \in Responses,
         NEW req \in Requests, NEW a, a = Respond(c, rsp, req)
  PROVE  /\ Wanted(req, a)
         /\ a.coding \in {"zstd", "dcz"} => Names(a.vary, "Accept-Encoding")
         /\ a.coding = "dcz" => /\ Names(a.vary, "Available-Dictionary")
                               /\ Names(a.vary, "Sec-Fetch-Site")
<1>1. rsp.vary \in Lines
  BY ResponsesAssumption
<1> DEFINE lines == VaryAcceptEncoding(c, rsp.vary)
<1>2. lines \in Lines /\ (c.gzip_vary \/ Names(lines, "Accept-Encoding"))
  BY <1>1, VaryAENames
<1>3. /\ VaryAeDcz(c, rsp.vary) \in Lines
      /\ c.gzip_vary \/ Names(VaryAeDcz(c, rsp.vary), "Accept-Encoding")
  BY <1>2, VaryDczNames DEF VaryAeDcz
<1>4. CASE a = HeaderFilter(c, rsp, req)
  BY <1>1, <1>4, AnswerIsWanted
<1>5. CASE a = Declined(c, rsp, req, VaryAeDcz(c, rsp.vary))
  BY <1>3, <1>5, DeclineIsWanted
<1>6. CASE a = StaticOn(c, rsp, req)
  <2>1. a = IF req.main /\ AcceptsZstd(req.ae)
            THEN CoreHeaderFilter(c, Answer("zstd", NoDict, lines))
            ELSE Declined(c, rsp, req, lines)
    BY <1>6 DEF StaticOn
  <2> HIDE DEF lines
  <2>2. CASE req.main /\ AcceptsZstd(req.ae)
    <3>1. a = CoreHeaderFilter(c, Answer("zstd", NoDict, lines))
      BY <2>1, <2>2
    <3>2. a.coding = "zstd" /\ Names(a.vary, "Accept-Encoding")
      BY <1>2, <3>1, CoreNames
    <3> QED BY <2>2, <3>2 DEF Wanted
  <2>3. CASE ~ (req.main /\ AcceptsZstd(req.ae))
    BY <1>2, <2>1, <2>3, DeclineIsWanted
  <2> QED BY <2>2, <2>3
<1> QED BY <1>4, <1>5, <1>6 DEF Respond

LEMMA StaticMatchIsWanted ==
  ASSUME NEW c, c.static \in {"off", "on"}, NEW rsp \in Responses,
         NEW e, NEW req, e.req \in Requests,
         e.answer = Respond(c, rsp, e.req), Matches(e, req)
  PROVE  Wanted(req, e.answer)
<1> DEFINE named == Nominated(e.answer.vary)
<1>1. /\ Wanted(e.req, e.answer)
      /\ e.answer.coding \in {"zstd", "dcz"} => "Accept-Encoding" \in named
      /\ e.answer.coding = "dcz" => /\ "Available-Dictionary" \in named
                                   /\ "Sec-Fetch-Site" \in named
  BY RespondIsWanted, NominatedNames
<1>2. \A f \in named : Field(req, f) = Field(e.req, f)
  BY DEF Matches
<1> HIDE DEF named
<1>3. e.answer.coding \in {"zstd", "dcz"} => req.ae = e.req.ae
  BY <1>1, <1>2, FieldOf
<1>4. e.answer.coding = "dcz" => req.avail = e.req.avail
                                 /\ req.site = e.req.site
  BY <1>1, <1>2, FieldOf
<1> QED BY <1>1, <1>3, <1>4 DEF Wanted

\* Merging sorts the dictionaries and leaves the handler's directives alone.
LEMMA MergeKeepsStatic ==
  ASSUME NEW c \in Confs
  PROVE  MergeConf(c).static \in {"off", "on", "always"}
BY StaticConfs DEF MergeConf

LEMMA StaticStoredInductive == StaticSpec => []StaticStored
<1>1. Init => StaticStored
  BY MergeKeepsStatic DEF Init, StaticStored
<1>2. StaticStored /\ [StaticNext]_vars => StaticStored'
  <2> SUFFICES ASSUME StaticStored, [StaticNext]_vars PROVE StaticStored'
    OBVIOUS
  <2>1. ASSUME NEW req \in Requests, StaticFill(req) PROVE StaticStored'
    <3> DEFINE new == [req |-> req, answer |-> Respond(conf, resp, req),
                       current |-> TRUE, always |-> conf.static = "always"]
    <3>1. /\ cache' = cache \cup {new} /\ resp' = resp /\ conf' = conf
          /\ req.main /\ req.get
      BY <2>1 DEF StaticFill
    <3>2. /\ DOMAIN new = {"req", "answer", "current", "always"}
          /\ new.req \in Requests /\ new.req.main /\ new.req.get
          /\ new.answer = Respond(conf, resp, new.req)
          /\ new.always <=> conf.static = "always"
      BY <3>1
    <3> HIDE DEF new
    <3>3. StaticEntry(new, conf, resp)
      BY <3>2 DEF StaticStored, StaticEntry
    <3>4. \A e \in cache' :
            /\ DOMAIN e = {"req", "answer", "current", "always"}
            /\ e.req \in Requests /\ e.req.main /\ e.req.get
            /\ e.current => e.answer = Respond(conf, resp, e.req)
            /\ \E c, rsp : StaticEntry(e, c, rsp)
      BY <3>1, <3>2, <3>3 DEF StaticStored
    <3> QED BY <3>1, <3>4 DEF StaticStored
  <2>2. ASSUME NEW e \in cache, Evict(e) PROVE StaticStored'
    BY <2>2 DEF Evict, StaticStored
  <2>3. ASSUME cache' = StaticOutdated, resp' \in Responses,
               conf'.static \in {"off", "on", "always"}
        PROVE  StaticStored'
    <3>1. ASSUME NEW e \in cache'
          PROVE  /\ DOMAIN e = {"req", "answer", "current", "always"}
                 /\ e.req \in Requests /\ e.req.main /\ e.req.get
                 /\ ~ e.current
                 /\ \E c, rsp : StaticEntry(e, c, rsp)
      <4>1. PICK x \in cache : e = [x EXCEPT !.current = FALSE]
        BY <2>3 DEF StaticOutdated
      <4>2. /\ DOMAIN x = {"req", "answer", "current", "always"}
            /\ x.req \in Requests /\ x.req.main /\ x.req.get
            /\ \E c, rsp : StaticEntry(x, c, rsp)
        BY DEF StaticStored
      <4>3. /\ DOMAIN e = {"req", "answer", "current", "always"}
            /\ e.req = x.req /\ e.answer = x.answer /\ e.always = x.always
            /\ e.current = FALSE
        BY <4>1, <4>2
      <4>4. \A c, rsp : StaticEntry(x, c, rsp) => StaticEntry(e, c, rsp)
        BY <4>3 DEF StaticEntry
      <4> QED BY <4>2, <4>3, <4>4
    <3> QED BY <2>3, <3>1 DEF StaticStored
  <2>4. ASSUME NEW c \in Confs, StaticReload(c) PROVE StaticStored'
    BY <2>3, <2>4, MergeKeepsStatic DEF StaticReload, StaticStored
  <2>5. ASSUME NEW rsp \in Responses, StaticPublish(rsp) PROVE StaticStored'
    BY <2>3, <2>5 DEF StaticPublish, StaticStored
  <2>6. CASE UNCHANGED vars
    BY <2>6 DEF vars, StaticStored
  <2> QED BY <2>1, <2>2, <2>4, <2>5, <2>6 DEF StaticNext
<1> QED BY <1>1, <1>2, PTL DEF StaticSpec

\* Only a location that says "always", and a cache filled by it, hands out a
\* coding the client did not ask for, whoever filled the cache and however
\* often the configuration was reloaded since (static_module.c:1877-1914).
THEOREM AlwaysAloneForces == StaticSpec => []OnlyAlwaysForces
<1>1. StaticStored => OnlyAlwaysForces
  <2> SUFFICES ASSUME StaticStored, NEW req \in Requests
               PROVE  /\ (req.main /\ conf.static # "always")
                           => Wanted(req, Respond(conf, resp, req))
                      /\ \A e \in cache : Matches(e, req) /\ ~ e.always
                           => Wanted(req, e.answer)
    BY DEF OnlyAlwaysForces
  <2>1. conf.static # "always" => Wanted(req, Respond(conf, resp, req))
    BY RespondIsWanted DEF StaticStored
  <2>2. ASSUME NEW e \in cache, Matches(e, req), ~ e.always
        PROVE  Wanted(req, e.answer)
    <3>1. PICK c, rsp : StaticEntry(e, c, rsp)
      BY DEF StaticStored
    <3>2. c.static \in {"off", "on"} /\ rsp \in Responses
          /\ e.answer = Respond(c, rsp, e.req) /\ e.req \in Requests
      BY <2>2, <3>1 DEF StaticEntry, StaticStored
    <3> QED BY <2>2, <3>2, StaticMatchIsWanted
  <2> QED BY <2>1, <2>2
<1> QED BY <1>1, StaticStoredInductive, PTL

\* Two requests that agree on what the answer names are answered alike by the
\* handler and the filter behind it.
LEMMA RespondIsTransparent ==
  ASSUME NEW c, c.static \in {"off", "on", "always"}, ~ c.dict_bypass,
         c.bypass => c.bypass_vary, NEW rsp \in Responses,
         NEW req \in Requests, NEW other \in Requests,
         req.main, other.main, req.get, other.get, req.secure = other.secure,
         \A f \in Nominated(Respond(c, rsp, req).vary) :
           Field(other, f) = Field(req, f)
  PROVE  /\ Respond(c, rsp, other).coding = Respond(c, rsp, req).coding
         /\ Respond(c, rsp, other).dict = Respond(c, rsp, req).dict
<1>1. rsp.vary \in Lines
  BY ResponsesAssumption
<1>2. CASE rsp.slash \/ c.static = "off" \/ ~ rsp.sidecar
  <2>1. /\ Respond(c, rsp, req) = HeaderFilter(c, rsp, req)
        /\ Respond(c, rsp, other) = HeaderFilter(c, rsp, other)
    BY <1>2 DEF Respond
  <2> QED BY <1>1, <2>1, FilterIsTransparent
<1>3. CASE ~ rsp.slash /\ rsp.sidecar /\ c.static = "always"
  BY <1>3 DEF Respond
<1>4. CASE ~ rsp.slash /\ rsp.sidecar /\ c.static = "on"
  <2> DEFINE lines == VaryAcceptEncoding(c, rsp.vary)
             left == [rsp EXCEPT !.vary = lines]
             a == Respond(c, rsp, req)
             o == Respond(c, rsp, other)
             served == CoreHeaderFilter(c, Answer("zstd", NoDict, lines))
             plain == CoreHeaderFilter(c, Answer("identity", NoDict, lines))
  <2>1. lines \in Lines /\ (c.gzip_vary \/ Names(lines, "Accept-Encoding"))
    BY <1>1, VaryAENames
  <2>2. left.vary \in Lines
    BY <2>1, DeclineLeaves
  <2>3. /\ a = StaticOn(c, rsp, req)
        /\ o = StaticOn(c, rsp, other)
    BY <1>4 DEF Respond
  <2>4. \A r : StaticOn(c, rsp, r)
                = IF r.main /\ AcceptsZstd(r.ae) THEN served
                  ELSE IF Eligible(c, left, r) THEN HeaderFilter(c, left, r)
                  ELSE plain
    BY DEF StaticOn, Declined
  <2>5. \A f : Names(a.vary, f) => Field(other, f) = Field(req, f)
    BY NominatedNames
  <2>6. \A f \in Nominated(a.vary) : Field(other, f) = Field(req, f)
    OBVIOUS
  <2>7. Names(served.vary, "Accept-Encoding") /\ Names(plain.vary, "Accept-Encoding")
    BY <2>1, CoreNames
  <2> HIDE DEF lines, left, a, o, served, plain
  <2>8. Names(a.vary, "Accept-Encoding")
    BY <2>2, <2>3, <2>4, <2>7, EligibleNames
  <2>9. other.ae = req.ae
    BY <2>5, <2>8, FieldOf
  <2>10. Eligible(c, left, req) <=> Eligible(c, left, other)
    BY DEF Eligible
  <2>11. CASE AcceptsZstd(req.ae)
    BY <2>3, <2>4, <2>9, <2>11 DEF a, o
  <2>12. CASE ~ AcceptsZstd(req.ae) /\ ~ Eligible(c, left, req)
    BY <2>3, <2>4, <2>9, <2>10, <2>12 DEF a, o
  <2>13. CASE ~ AcceptsZstd(req.ae) /\ Eligible(c, left, req)
    <3>1. a = HeaderFilter(c, left, req) /\ o = HeaderFilter(c, left, other)
      BY <2>3, <2>4, <2>9, <2>10, <2>13
    <3>2. o.coding = a.coding /\ o.dict = a.dict
      BY <2>2, <2>6, <3>1, FilterIsTransparent
    <3> QED BY <3>2 DEF a, o
  <2> QED BY <2>11, <2>12, <2>13
<1> QED BY <1>2, <1>3, <1>4

\* Without dict_bypass a stored answer is what the origin would answer,
\* through sidecar, decline and filter alike (static_module.c:1885-1914).
THEOREM SidecarIsTransparent == StaticSpec => []SidecarTransparent
<1>1. StaticStored => SidecarTransparent
  <2> SUFFICES ASSUME StaticStored, ~ conf.dict_bypass,
                      conf.bypass => conf.bypass_vary,
                      NEW e \in cache, NEW req \in Requests,
                      e.current, req.get, Matches(e, req)
               PROVE  /\ Respond(conf, resp, req).coding = e.answer.coding
                      /\ Respond(conf, resp, req).dict = e.answer.dict
    BY DEF SidecarTransparent
  <2>1. /\ resp \in Responses /\ conf.static \in {"off", "on", "always"}
        /\ e.req \in Requests /\ e.req.main /\ e.req.get
        /\ e.answer = Respond(conf, resp, e.req)
    BY DEF StaticStored
  <2>2. /\ req.main /\ req.secure = e.req.secure
        /\ \A f \in Nominated(Respond(conf, resp, e.req).vary) :
             Field(req, f) = Field(e.req, f)
    BY <2>1 DEF Matches
  <2> QED BY <2>1, <2>2, RespondIsTransparent
<1> QED BY <1>1, StaticStoredInductive, PTL

-----------------------------------------------------------------------------
(* Loops over sequences: the three of accept_encoding.h are folds *)

\* A set of naturals has a least one.
LEMMA LeastNat ==
  ASSUME NEW S, S \subseteq Nat, S # {}
  PROVE  \E m \in S : \A n \in S : m <= n
<1> DEFINE R == {ss \in Nat \X Nat : ss[1] < ss[2]}
<1>1. IsWellFoundedOn(R, Nat)
  BY NatLessThanWellFounded DEF OpToRel
<1>2. PICK m \in S : \A y \in S : ~ (<<y, m>> \in R)
  <2> HIDE DEF R
  <2> QED  BY <1>1, WFMin
<1>3. \A n \in S : ~ (n < m)
  BY <1>2
<1> QED  BY <1>3

\* What holds at the start and is kept by every turn holds to the end.
LEMMA Turns ==
  ASSUME NEW n \in Nat, NEW G, 0 \in G, \A k \in 1 .. n : k - 1 \in G => k \in G
  PROVE  0 .. n \subseteq G
<1> DEFINE Bad == (0 .. n) \ G
<1> SUFFICES ASSUME Bad # {} PROVE FALSE
  OBVIOUS
<1>1. PICK m \in Bad : \A k \in Bad : m <= k
  <2>1. Bad \subseteq Nat
    OBVIOUS
  <2> HIDE DEF Bad
  <2> QED  BY <2>1, LeastNat
<1>2. m \in 1 .. n /\ m \notin G
  <2>1. m \in 0 .. n /\ m \notin G
    BY <1>1
  <2>2. m # 0
    BY <2>1
  <2> QED  BY <2>1, <2>2
<1>3. m - 1 \in G
  <2>1. m - 1 \in 0 .. n /\ ~ (m <= m - 1)
    BY <1>2
  <2> QED  BY <1>1, <2>1
<1> QED  BY <1>2, <1>3

\* One turn of any of the three loops.
Turn(c, acc, x) ==
  IF c.loop = "params" THEN QvalueStep(acc, x)
  ELSE IF c.loop = "elems" THEN ElemStep(acc, x, c.coding)
  ELSE ChainStep(acc, x, c.coding, c.wildcard)

\* The equation of a fold from the left, over the sets of places it has done.
FoldStep(c, base, list, f, s) ==
  IF s = {} THEN base ELSE Turn(c, f[s \ {Max(s)}], list[Max(s)])

IsFold(c, base, list, f) ==
  f = [s \in SUBSET DOMAIN list |-> FoldStep(c, base, list, f, s)]

\* A set of places has a last one.
LEMMA MaxIsLast ==
  ASSUME NEW n \in Nat, NEW s \in SUBSET (1 .. n), s # {}
  PROVE  Max(s) \in s /\ \A k \in s : k <= Max(s)
<1> DEFINE gap == {n - k : k \in s}
<1>1. gap \subseteq Nat /\ gap # {}
  <2>1. \A k \in s : n - k \in Nat
    OBVIOUS
  <2> QED  BY <2>1
<1>2. PICK g \in gap : \A h \in gap : g <= h
  <2> HIDE DEF gap
  <2> QED  BY <1>1, LeastNat
<1>3. PICK m \in s : g = n - m
  BY <1>2
<1>4. ASSUME NEW k \in s PROVE k <= m
  <2>1. n - m <= n - k
    BY <1>2, <1>3
  <2>2. n \in Int /\ m \in Int /\ k \in Int
    OBVIOUS
  <2> QED  BY <2>1, <2>2
<1>5. \E x \in s : \A y \in s : x >= y
  <2>1. \A y \in s : m >= y
    BY <1>4
  <2> QED  BY <2>1
<1>6. Max(s) \in s /\ \A y \in s : Max(s) >= y
  BY <1>5, Zenon DEF Max
<1>7. s \subseteq Int
  OBVIOUS
<1> QED  BY <1>6, <1>7

\* The equation has a solution, by induction on the number of places.
LEMMA FoldEnds ==
  ASSUME NEW c, NEW base, NEW list, NEW n \in Nat, DOMAIN list = 1 .. n
  PROVE  \E f : IsFold(c, base, list, f)
<1> DEFINE S == 1 .. n
           Step(f, s) == FoldStep(c, base, list, f, s)
           Solves(f, m) == \A s \in SUBSET S : Cardinality(s) < m => f[s] = Step(f, s)
           Solved == {m \in Nat : \E f : Solves(f, m)}
<1>1. IsFiniteSet(S) /\ \A s \in SUBSET S : IsFiniteSet(s) /\ Cardinality(s) \in Nat
  <2>1. IsFiniteSet(S)
    BY FS_Interval
  <2> HIDE DEF S
  <2>2. \A s \in SUBSET S : IsFiniteSet(s)
    BY <2>1, FS_Subset
  <2> QED  BY <2>1, <2>2, FS_CardinalityType
<1>2. 0 \in Solved
  <2>1. Solves(0, 0)
    BY <1>1
  <2> QED  BY <2>1
<1>3. ASSUME NEW m \in Solved PROVE m + 1 \in Solved
  <2>1. PICK f : Solves(f, m)
    OBVIOUS
  <2> DEFINE g == [s \in SUBSET S |-> Step(f, s)]
  <2>2. ASSUME NEW s \in SUBSET S, Cardinality(s) < m + 1
        PROVE  g[s] = Step(g, s)
    <3>1. CASE s = {}
      BY <3>1 DEF FoldStep
    <3>2. CASE s # {}
      <4>1. PICK t \in SUBSET S : t = s \ {Max(s)}
        OBVIOUS
      <4>2. Cardinality(t) = Cardinality(s) - 1
        BY <1>1, <3>2, <4>1, MaxIsLast, FS_RemoveElement
      <4>3. Cardinality(t) < m
        BY <1>1, <2>2, <4>2
      <4>4. g[t] = f[t]
        BY <2>1, <4>3
      <4>5. g[s] = Step(f, s)
        OBVIOUS
      <4> HIDE DEF g
      <4> QED  BY <4>1, <4>4, <4>5 DEF FoldStep
    <3> QED  BY <3>1, <3>2
  <2>3. Solves(g, m + 1)
    BY <2>2
  <2>4. m + 1 \in Nat
    OBVIOUS
  <2> HIDE DEF g, Solves
  <2> QED  BY <2>3, <2>4
<1>4. Cardinality(S) + 1 \in Solved
  <2>1. PICK N \in Nat : N = Cardinality(S) + 1
    BY <1>1
  <2>2. \A k \in 1 .. N : k - 1 \in Solved => k \in Solved
    <3> TAKE k \in 1 .. N
    <3> HAVE k - 1 \in Solved
    <3> HIDE DEF Solved
    <3>1. (k - 1) + 1 \in Solved
      BY <1>3
    <3> QED  BY <3>1
  <2> HIDE DEF Solved
  <2>3. 0 .. N \subseteq Solved
    BY <1>2, <2>2, Turns
  <2> QED  BY <2>1, <2>3
<1>5. PICK f : Solves(f, Cardinality(S) + 1)
  BY <1>4
<1>6. \A s \in SUBSET S : f[s] = Step(f, s)
  <2> TAKE s \in SUBSET S
  <2>1. Cardinality(s) < Cardinality(S) + 1
    <3> HIDE DEF S
    <3>1. Cardinality(s) <= Cardinality(S)
      BY <1>1, FS_Subset
    <3> QED  BY <1>1, <3>1
  <2> QED  BY <1>5, <2>1
<1> DEFINE g == [s \in SUBSET S |-> f[s]]
<1>7. \A s \in SUBSET S : Step(g, s) = Step(f, s)
  <2> TAKE s \in SUBSET S
  <2>1. g[s \ {Max(s)}] = f[s \ {Max(s)}]
    OBVIOUS
  <2> HIDE DEF g
  <2> QED  BY <2>1 DEF FoldStep
<1>8. IsFold(c, base, list, g)
  BY <1>6, <1>7 DEF IsFold
<1> HIDE DEF g
<1> QED  BY <1>8

\* What a loop has after each turn.
Runs(c, base, list, n, g) ==
  g[0] = base /\ \A k \in 1 .. n : g[k] = Turn(c, g[k - 1], list[k])

\* The solution takes one turn per place, in order.
LEMMA FoldRuns ==
  ASSUME NEW c, NEW base, NEW list, NEW n \in Nat, DOMAIN list = 1 .. n,
         NEW f, IsFold(c, base, list, f)
  PROVE  \E g : Runs(c, base, list, n, g) /\ f[DOMAIN list] = g[n]
<1> DEFINE g == [k \in 0 .. n |-> f[1 .. k]]
<1>1. \A s \in SUBSET (1 .. n) : f[s] = FoldStep(c, base, list, f, s)
  BY Zenon DEF IsFold
<1>2. g[0] = base
  <2>1. 1 .. 0 = {} /\ {} \in SUBSET (1 .. n)
    OBVIOUS
  <2>2. f[{}] = base
    BY <1>1, <2>1, Zenon DEF FoldStep
  <2> QED  BY <2>1, <2>2
<1>3. ASSUME NEW k \in 1 .. n PROVE g[k] = Turn(c, g[k - 1], list[k])
  <2>1. 1 .. k \in SUBSET (1 .. n) /\ 1 .. k # {}
    OBVIOUS
  <2>2. Max(1 .. k) = k
    <3>1. PICK m : m = Max(1 .. k)
      OBVIOUS
    <3>2. m \in 1 .. k /\ \A j \in 1 .. k : j <= m
      BY <2>1, <3>1, MaxIsLast
    <3>3. k \in 1 .. k
      OBVIOUS
    <3> QED  BY <3>1, <3>2, <3>3
  <2>3. (1 .. k) \ {k} = 1 .. k - 1
    OBVIOUS
  <2>4. f[1 .. k] = Turn(c, f[1 .. k - 1], list[k])
    BY <1>1, <2>1, <2>2, <2>3 DEF FoldStep
  <2>5. g[k] = f[1 .. k] /\ g[k - 1] = f[1 .. k - 1]
    OBVIOUS
  <2> QED  BY <2>4, <2>5
<1>4. f[DOMAIN list] = g[n]
  OBVIOUS
<1> HIDE DEF g
<1> QED  BY <1>2, <1>3, <1>4 DEF Runs

\* eval_qvalue()'s loop.
LEMMA QvalueRuns ==
  ASSUME NEW params, NEW n \in Nat, DOMAIN params = 1 .. n
  PROVE  \E g : /\ g[0] = [q |-> FullWeight, seen |-> FALSE]
                /\ \A k \in 1 .. n : g[k] = QvalueStep(g[k - 1], params[k])
                /\ EvalQvalue(params) = g[n].q
<1> DEFINE c == [loop |-> "params"]
           base == [q |-> FullWeight, seen |-> FALSE]
           F == CHOOSE f : f = [s \in SUBSET DOMAIN params |->
                  IF s = {} THEN base
                  ELSE QvalueStep(f[s \ {Max(s)}], params[Max(s)])]
           P(f) == f = [s \in SUBSET DOMAIN params |->
                  IF s = {} THEN base
                  ELSE QvalueStep(f[s \ {Max(s)}], params[Max(s)])]
<1>1. EvalQvalue(params) = F[DOMAIN params].q
  BY DEF EvalQvalue, FoldLeft, MapThenFoldSet
<1>2. ASSUME NEW f PROVE IsFold(c, base, params, f) <=> P(f)
  BY DEF IsFold, FoldStep, Turn
<1>3. P(F)
  <2>1. \E f : P(f)
    <3> HIDE DEF P, base, c
    <3> QED  BY <1>2, FoldEnds
  <2>2. F = CHOOSE f : P(f)
    OBVIOUS
  <2> HIDE DEF P, F
  <2> QED  BY <2>1, <2>2
<1>4. PICK g : Runs(c, base, params, n, g) /\ F[DOMAIN params] = g[n]
  <2> HIDE DEF P, F, base, c
  <2> QED  BY <1>2, <1>3, FoldRuns
<1> HIDE DEF F
<1> QED  BY <1>1, <1>4 DEF Runs, Turn

\* coding_weight_ex()'s loop over the elements of a line.
LineRun(line, n, coding, g) ==
  /\ g[0] = NoWeights
  /\ \A k \in 1 .. n : g[k] = ElemStep(g[k - 1], line[k], coding)
  /\ CodingWeightEx(line, coding) = g[n]

\* The fold of CodingWeightEx is such a loop.
LEMMA LineRuns ==
  ASSUME NEW line, NEW n \in Nat, DOMAIN line = 1 .. n, NEW coding
  PROVE  \E g : LineRun(line, n, coding, g)
<1> DEFINE c == [loop |-> "elems", coding |-> coding]
           P(f) == f = [s \in SUBSET DOMAIN line |->
                  IF s = {} THEN NoWeights
                  ELSE ElemStep(f[s \ {Max(s)}], line[Max(s)], coding)]
           F == CHOOSE f : f = [s \in SUBSET DOMAIN line |->
                  IF s = {} THEN NoWeights
                  ELSE ElemStep(f[s \ {Max(s)}], line[Max(s)], coding)]
<1>1. CodingWeightEx(line, coding) = F[DOMAIN line]
  BY DEF CodingWeightEx, FoldLeft, MapThenFoldSet
<1>2. ASSUME NEW f PROVE IsFold(c, NoWeights, line, f) <=> P(f)
  BY DEF IsFold, FoldStep, Turn
<1>3. P(F)
  <2>1. \E f : P(f)
    <3> HIDE DEF P, c
    <3> QED  BY <1>2, FoldEnds
  <2>2. F = CHOOSE f : P(f)
    OBVIOUS
  <2> HIDE DEF P, F
  <2> QED  BY <2>1, <2>2
<1>4. PICK g : Runs(c, NoWeights, line, n, g) /\ F[DOMAIN line] = g[n]
  <2> HIDE DEF P, F, c
  <2> QED  BY <1>2, <1>3, FoldRuns
<1>5. LineRun(line, n, coding, g)
  <2> HIDE DEF F
  <2> QED  BY <1>1, <1>4 DEF Runs, Turn, LineRun
<1> QED  BY <1>5

\* chain_coding_weight()'s loop over the lines.
ChainRun(lines, n, coding, wildcard, g) ==
  /\ g[0] = NoWeights
  /\ \A k \in 1 .. n : g[k] = ChainStep(g[k - 1], lines[k], coding, wildcard)
  /\ RequestCodingWeight(lines, coding, wildcard) = Preference(g[n], wildcard)

\* The fold of RequestCodingWeight is such a loop.
LEMMA ChainRuns ==
  ASSUME NEW lines, NEW n \in Nat, DOMAIN lines = 1 .. n, NEW coding, NEW wildcard
  PROVE  \E g : ChainRun(lines, n, coding, wildcard, g)
<1> DEFINE c == [loop |-> "lines", coding |-> coding, wildcard |-> wildcard]
           P(f) == f = [s \in SUBSET DOMAIN lines |->
                  IF s = {} THEN NoWeights
                  ELSE ChainStep(f[s \ {Max(s)}], lines[Max(s)], coding, wildcard)]
           F == CHOOSE f : f = [s \in SUBSET DOMAIN lines |->
                  IF s = {} THEN NoWeights
                  ELSE ChainStep(f[s \ {Max(s)}], lines[Max(s)], coding, wildcard)]
<1>1. RequestCodingWeight(lines, coding, wildcard) =
        Preference(F[DOMAIN lines], wildcard)
  BY DEF RequestCodingWeight, FoldLeft, MapThenFoldSet
<1>2. ASSUME NEW f PROVE IsFold(c, NoWeights, lines, f) <=> P(f)
  BY DEF IsFold, FoldStep, Turn
<1>3. P(F)
  <2>1. \E f : P(f)
    <3> HIDE DEF P, c
    <3> QED  BY <1>2, FoldEnds
  <2>2. F = CHOOSE f : P(f)
    OBVIOUS
  <2> HIDE DEF P, F
  <2> QED  BY <2>1, <2>2
<1>4. PICK g : Runs(c, NoWeights, lines, n, g) /\ F[DOMAIN lines] = g[n]
  <2> HIDE DEF P, F, c
  <2> QED  BY <1>2, <1>3, FoldRuns
<1>5. \A k \in 1 .. n : g[k] = ChainStep(g[k - 1], lines[k], coding, wildcard)
  <2> HIDE DEF F
  <2> QED  BY <1>4 DEF Runs, Turn
<1> HIDE DEF F, c
<1>6. ChainRun(lines, n, coding, wildcard, g)
  BY <1>1, <1>4, <1>5 DEF Runs, ChainRun
<1> QED  BY <1>6

-----------------------------------------------------------------------------
(* One element *)

\* The first k parameters of an element are well formed.
WellFormedTo(params, k) ==
  /\ \A i \in 1 .. k : params[i].name # ""
  /\ \A i, j \in 1 .. k : IsQ(params[i]) /\ IsQ(params[j]) => i = j
  /\ \A i \in 1 .. k : IsQ(params[i]) => params[i].value \in Qvalues

\* What eval_qvalue() has after them.
QvalueAfter(params, k, acc) ==
  /\ acc \in [q : Int, seen : BOOLEAN]
  /\ ~ WellFormedTo(params, k) => acc.q = Malformed
  /\ WellFormedTo(params, k) =>
       /\ acc.q \in Qvalues
       /\ acc.seen => \E i \in 1 .. k : IsQ(params[i])
       /\ \A i \in 1 .. k : IsQ(params[i]) => acc.seen /\ acc.q = params[i].value
       /\ ~ acc.seen => acc.q = FullWeight

\* One turn more.
LEMMA QvalueTurn ==
  ASSUME NEW params, NEW k \in Nat, k > 0,
         IsQ(params[k]) => params[k].value \in {NoValue, BadValue} \cup Qvalues,
         NEW acc, QvalueAfter(params, k - 1, acc),
         NEW next, next = QvalueStep(acc, params[k])
  PROVE  QvalueAfter(params, k, next)
<1>1. /\ \A i \in 1 .. k - 1 : i \in 1 .. k /\ i # k
      /\ \A i \in 1 .. k : i \in 1 .. k - 1 \/ i = k
      /\ k \in 1 .. k
  OBVIOUS
<1>2. acc \in [q : Int, seen : BOOLEAN]
  BY DEF QvalueAfter
<1>3. CASE ~ WellFormedTo(params, k - 1)
  <2>1. acc.q = Malformed
    BY <1>3 DEF QvalueAfter
  <2>2. next = acc
    BY <2>1 DEF QvalueStep
  <2>3. ~ WellFormedTo(params, k)
    BY <1>1, <1>3, Zenon DEF WellFormedTo
  <2> QED  BY <1>2, <2>1, <2>2, <2>3 DEF QvalueAfter
<1>4. CASE WellFormedTo(params, k - 1)
  <2>1. /\ acc.q \in Qvalues /\ acc.q # Malformed
        /\ acc.seen => \E i \in 1 .. k - 1 : IsQ(params[i])
        /\ \A i \in 1 .. k - 1 : IsQ(params[i]) => acc.seen /\ acc.q = params[i].value
        /\ ~ acc.seen => acc.q = FullWeight
    <3>1. \A q \in Qvalues : q # Malformed
      BY DEF Qvalues, Malformed
    <3> QED  BY <1>4, <3>1, Zenon DEF QvalueAfter
  <2>2. CASE \/ params[k].name = ""
             \/ IsQ(params[k]) /\ (acc.seen \/ params[k].value \in {NoValue, BadValue})
    <3>1. next = [acc EXCEPT !.q = Malformed]
      BY <2>1, <2>2 DEF QvalueStep, IsQ
    <3>2. next \in [q : Int, seen : BOOLEAN] /\ next.q = Malformed
      BY <1>2, <3>1 DEF Malformed
    <3>3. ~ WellFormedTo(params, k)
      <4>1. CASE params[k].name = ""
        BY <1>1, <4>1, Zenon DEF WellFormedTo
      <4>2. CASE IsQ(params[k]) /\ acc.seen
        <5>1. PICK i \in 1 .. k - 1 : IsQ(params[i])
          BY <2>1, <4>2
        <5>2. i \in 1 .. k /\ k \in 1 .. k /\ i # k
          BY <5>1
        <5> QED  BY <4>2, <5>1, <5>2 DEF WellFormedTo
      <4>3. CASE IsQ(params[k]) /\ params[k].value \in {NoValue, BadValue}
        <5>1. NoValue \notin Qvalues /\ BadValue \notin Qvalues
          BY DEF NoValue, BadValue, Qvalues
        <5>2. params[k].value \notin Qvalues
          BY <4>3, <5>1, Zenon
        <5> QED  BY <1>1, <4>3, <5>2, Zenon DEF WellFormedTo
      <4> QED  BY <2>2, <4>1, <4>2, <4>3
    <3> QED  BY <3>2, <3>3 DEF QvalueAfter
  <2>3. CASE /\ params[k].name # "" /\ IsQ(params[k])
             /\ ~ acc.seen /\ params[k].value \notin {NoValue, BadValue}
    <3>1. PICK v \in Qvalues : v = params[k].value
      BY <2>3, Zenon
    <3>2. next = [q |-> v, seen |-> TRUE]
      BY <2>1, <2>3, <3>1 DEF QvalueStep, IsQ
    <3>3. next \in [q : Int, seen : BOOLEAN] /\ next.q = v /\ next.seen = TRUE
      BY <3>2 DEF Qvalues
    <3>4. \A i \in 1 .. k - 1 : ~ IsQ(params[i])
      BY <2>1, <2>3, Zenon
    <3>5. WellFormedTo(params, k)
      BY <1>1, <1>4, <2>3, <3>1, <3>4, Zenon DEF WellFormedTo
    <3> QED  BY <1>1, <2>3, <3>1, <3>3, <3>4, <3>5, Zenon DEF QvalueAfter
  <2>4. CASE params[k].name # "" /\ ~ IsQ(params[k])
    <3>1. next = acc
      BY <2>1, <2>4 DEF QvalueStep, IsQ
    <3>2. WellFormedTo(params, k)
      BY <1>1, <1>4, <2>4, Zenon DEF WellFormedTo
    <3> QED  BY <1>1, <1>2, <2>1, <2>4, <3>1, <3>2, Zenon DEF QvalueAfter
  <2> QED  BY <2>2, <2>3, <2>4
<1> QED  BY <1>3, <1>4

\* eval_qvalue() recognises the well-formed elements and returns their weight.
LEMMA QvalueIsWeight ==
  ASSUME NEW params \in Seq(Params)
  PROVE  /\ WellFormed(params) => /\ Weight(params) \in Qvalues
                                  /\ EvalQvalue(params) = Weight(params)
         /\ ~ WellFormed(params) => EvalQvalue(params) = Malformed
<1>1. PICK n \in Nat : n = Len(params) /\ DOMAIN params = 1 .. n
  OBVIOUS
<1>2. \A k \in 1 .. n :
        IsQ(params[k]) => params[k].value \in {NoValue, BadValue} \cup Qvalues
  <2> TAKE k \in 1 .. n
  <2>1. params[k] \in Params
    BY <1>1
  <2>2. CASE params[k] \in [name : {"q"}, value : Weights \cup {NoValue, BadValue}]
    <3>1. params[k].value \in Weights \cup {NoValue, BadValue}
      BY <2>2
    <3> QED  BY <3>1, WeightRange, Zenon
  <2>3. CASE params[k] \in [name : {"ext", ""}, value : {NoValue}]
    <3>1. params[k].name \in {"ext", ""}
      BY <2>3
    <3> QED  BY <3>1 DEF IsQ
  <2> QED  BY <2>1, <2>2, <2>3, Zenon DEF Params
<1>3. PICK g : /\ g[0] = [q |-> FullWeight, seen |-> FALSE]
               /\ \A k \in 1 .. n : g[k] = QvalueStep(g[k - 1], params[k])
               /\ EvalQvalue(params) = g[n].q
  BY <1>1, QvalueRuns
<1> DEFINE G == {k \in 0 .. n : QvalueAfter(params, k, g[k])}
<1>4. 0 \in G
  <2>1. PICK acc : acc = g[0]
    OBVIOUS
  <2>2. acc \in [q : Int, seen : BOOLEAN] /\ acc.q = FullWeight /\ acc.seen = FALSE
    BY <1>3, <2>1 DEF FullWeight
  <2>3. FullWeight \in Qvalues /\ 0 \in 0 .. n /\ \A i \in 1 .. 0 : FALSE
    BY DEF FullWeight, Qvalues
  <2>4. WellFormedTo(params, 0)
    BY <2>3, Zenon DEF WellFormedTo
  <2>5. QvalueAfter(params, 0, acc)
    BY <2>2, <2>3, <2>4, Zenon DEF QvalueAfter
  <2> QED  BY <2>1, <2>3, <2>5
<1>5. ASSUME NEW k \in 1 .. n, k - 1 \in G PROVE k \in G
  <2>1. QvalueAfter(params, k - 1, g[k - 1])
    BY <1>5
  <2>2. g[k] = QvalueStep(g[k - 1], params[k])
    BY <1>3
  <2>3. QvalueAfter(params, k, g[k])
    BY <1>2, <2>1, <2>2, QvalueTurn
  <2> QED  BY <2>3
<1>6. QvalueAfter(params, n, g[n])
  <2>1. 0 .. n \subseteq G
    <3> HIDE DEF G
    <3> QED  BY <1>4, <1>5, Turns
  <2> QED  BY <2>1
<1>7. WellFormedTo(params, n) <=> WellFormed(params)
  BY <1>1 DEF WellFormedTo, WellFormed
<1>8. ASSUME WellFormed(params)
      PROVE  Weight(params) \in Qvalues /\ EvalQvalue(params) = Weight(params)
  <2>1. /\ g[n].q \in Qvalues
        /\ g[n].seen => \E i \in 1 .. n : IsQ(params[i])
        /\ \A i \in 1 .. n : IsQ(params[i]) => g[n].seen /\ g[n].q = params[i].value
        /\ ~ g[n].seen => g[n].q = FullWeight
    BY <1>6, <1>7, <1>8 DEF QvalueAfter
  <2>2. Weight(params) = g[n].q
    <3>1. CASE \E i \in DOMAIN params : IsQ(params[i])
      <4>1. PICK i \in 1 .. n : i = (CHOOSE j \in DOMAIN params : IsQ(params[j]))
                                /\ IsQ(params[i])
        BY <1>1, <3>1
      <4> QED  BY <2>1, <3>1, <4>1 DEF Weight
    <3>2. CASE ~ \E i \in DOMAIN params : IsQ(params[i])
      BY <1>1, <2>1, <3>2 DEF Weight
    <3> QED  BY <3>1, <3>2
  <2> QED  BY <1>3, <2>1, <2>2
<1>9. ASSUME ~ WellFormed(params) PROVE EvalQvalue(params) = Malformed
  BY <1>3, <1>6, <1>7, <1>9 DEF QvalueAfter
<1> QED  BY <1>8, <1>9

-----------------------------------------------------------------------------
(* The last of several *)

None == -1

\* Of the places 1 .. k, those in S have a weight W: w is the weight of the
\* last of them.
LastIs(S, W, k, w) ==
  \/ w = None /\ \A j \in 1 .. k : j \notin S
  \/ /\ w \in Qvalues
     /\ \E i \in 1 .. k :
          /\ i \in S /\ W[i] = w
          /\ \A j \in 1 .. k : j \in S => j <= i

\* A weight is not the -1 that says there is none.
LEMMA QvalueIsInt ==
  \A q \in Qvalues : q >= 0 /\ q \in Int /\ q # None
BY DEF Qvalues, None

\* The last one stays last when the next place is not one of them,
LEMMA LastKept ==
  ASSUME NEW S, NEW W, NEW k \in Nat, k > 0, NEW w, LastIs(S, W, k - 1, w), k \notin S
  PROVE  LastIs(S, W, k, w)
<1>1. /\ \A i \in 1 .. k - 1 : i \in 1 .. k
      /\ \A i \in 1 .. k : i \in 1 .. k - 1 \/ i = k
  OBVIOUS
<1> QED  BY <1>1, Zenon DEF LastIs

\* the next place is the last one when it is,
LEMMA LastMoves ==
  ASSUME NEW S, NEW W, NEW k \in Nat, k > 0, k \in S, W[k] \in Qvalues
  PROVE  LastIs(S, W, k, W[k])
<1>1. k \in 1 .. k /\ \A j \in 1 .. k : j <= k
  OBVIOUS
<1> QED  BY <1>1, Zenon DEF LastIs

\* and there is none to begin with.
LEMMA LastStart ==
  ASSUME NEW S, NEW W
  PROVE  LastIs(S, W, 0, None)
<1>1. \A j \in 1 .. 0 : FALSE
  OBVIOUS
<1> QED  BY <1>1, Zenon DEF LastIs

-----------------------------------------------------------------------------
(* One line *)

Elems == [name : Codings, params : Seq(Params)]

\* The places of a line with a well-formed element of a name, and the weights.
Named(line, name) ==
  {i \in DOMAIN line : line[i].name = name /\ WellFormed(line[i].params)}

Weighs(line) == [i \in DOMAIN line |-> Weight(line[i].params)]

TwoWeights == [coding : Int, star : Int]

\* What coding_weight_ex() has after k elements.
LineAfter(line, coding, k, acc) ==
  /\ acc \in TwoWeights
  /\ LastIs(Named(line, coding), Weighs(line), k, acc.coding)
  /\ LastIs(Named(line, "*"), Weighs(line), k, acc.star)

\* One element more.
LEMMA LineTurn ==
  ASSUME NEW line \in Seq(Elems), NEW coding, coding # "*", NEW k \in DOMAIN line,
         NEW acc, LineAfter(line, coding, k - 1, acc),
         NEW next, next = ElemStep(acc, line[k], coding)
  PROVE  LineAfter(line, coding, k, next)
<1>1. k \in Nat /\ k > 0
  OBVIOUS
<1>2. PICK ps \in Seq(Params) : ps = line[k].params
  <2>1. PICK elem \in Elems : elem = line[k]
    OBVIOUS
  <2>2. elem.params \in Seq(Params)
    BY DEF Elems
  <2> QED  BY <2>1, <2>2
<1>3. PICK q : q = EvalQvalue(ps)
  OBVIOUS
<1>4. /\ WellFormed(ps) => q \in Qvalues /\ q = Weight(ps)
      /\ ~ WellFormed(ps) => q = Malformed
  BY <1>3, QvalueIsWeight, Zenon
<1>5. acc \in TwoWeights
  BY Zenon DEF LineAfter
<1>6. WellFormed(ps) => q >= 0 /\ q \in Int
  BY <1>4, QvalueIsInt, Zenon
<1>7. \A name : k \in Named(line, name) <=> line[k].name = name /\ WellFormed(ps)
  BY <1>2, Zenon DEF Named
<1>8. Weighs(line)[k] = Weight(ps)
  BY <1>2 DEF Weighs
<1>9. ASSUME NEW name, k \notin Named(line, name),
             NEW w, LastIs(Named(line, name), Weighs(line), k - 1, w)
      PROVE  LastIs(Named(line, name), Weighs(line), k, w)
  BY <1>1, <1>9, LastKept, Zenon
<1>10. ASSUME NEW name, k \in Named(line, name)
       PROVE  LastIs(Named(line, name), Weighs(line), k, q)
  <2>1. Weighs(line)[k] = q /\ q \in Qvalues
    BY <1>4, <1>7, <1>8, <1>10, Zenon
  <2> QED  BY <1>1, <1>10, <2>1, LastMoves
<1>11. /\ LastIs(Named(line, coding), Weighs(line), k - 1, acc.coding)
       /\ LastIs(Named(line, "*"), Weighs(line), k - 1, acc.star)
  BY Zenon DEF LineAfter
<1>12. CASE ~ WellFormed(ps)
  <2>1. q < 0
    BY <1>4, <1>12 DEF Malformed
  <2>2. next = acc
    BY <1>2, <1>3, <2>1, Zenon DEF ElemStep
  <2> QED  BY <1>5, <1>7, <1>9, <1>11, <1>12, <2>2, Zenon DEF LineAfter
<1>13. CASE WellFormed(ps) /\ line[k].name = coding
  <2>1. ~ (q < 0)
    BY <1>6, <1>13
  <2>2. next = [acc EXCEPT !.coding = q]
    BY <1>2, <1>3, <1>13, <2>1, Zenon DEF ElemStep
  <2>3. next \in TwoWeights /\ next.coding = q /\ next.star = acc.star
    BY <1>5, <1>6, <1>13, <2>2 DEF TwoWeights
  <2>4. k \in Named(line, coding) /\ k \notin Named(line, "*")
    BY <1>7, <1>13, Zenon
  <2> QED  BY <1>9, <1>10, <1>11, <2>3, <2>4, Zenon DEF LineAfter
<1>14. CASE WellFormed(ps) /\ line[k].name = "*"
  <2>1. ~ (q < 0)
    BY <1>6, <1>14
  <2>2. next = [acc EXCEPT !.star = q]
    BY <1>2, <1>3, <1>14, <2>1, Zenon DEF ElemStep
  <2>3. next \in TwoWeights /\ next.star = q /\ next.coding = acc.coding
    BY <1>5, <1>6, <1>14, <2>2 DEF TwoWeights
  <2>4. k \in Named(line, "*") /\ k \notin Named(line, coding)
    BY <1>7, <1>14, Zenon
  <2> QED  BY <1>9, <1>10, <1>11, <2>3, <2>4, Zenon DEF LineAfter
<1>15. CASE line[k].name # coding /\ line[k].name # "*"
  <2>1. next = acc
    BY <1>2, <1>3, <1>15, Zenon DEF ElemStep
  <2> QED  BY <1>5, <1>7, <1>9, <1>11, <1>15, <2>1, Zenon DEF LineAfter
<1> QED  BY <1>12, <1>13, <1>14, <1>15

\* What coding_weight_ex() returns.
LEMMA LineWeights ==
  ASSUME NEW line \in Seq(Elems), NEW coding, coding # "*"
  PROVE  LineAfter(line, coding, Len(line), CodingWeightEx(line, coding))
<1>1. PICK n \in Nat : n = Len(line) /\ DOMAIN line = 1 .. n
  OBVIOUS
<1>2. PICK g : LineRun(line, n, coding, g)
  BY <1>1, LineRuns
<1>3. /\ g[0] = NoWeights
      /\ \A k \in 1 .. n : g[k] = ElemStep(g[k - 1], line[k], coding)
      /\ CodingWeightEx(line, coding) = g[n]
  BY <1>2, Zenon DEF LineRun
<1> DEFINE G == {k \in 0 .. n : LineAfter(line, coding, k, g[k])}
<1>4. 0 \in G
  <2>1. NoWeights \in TwoWeights /\ NoWeights.coding = None /\ NoWeights.star = None
    BY DEF NoWeights, TwoWeights, None
  <2>2. LineAfter(line, coding, 0, g[0])
    BY <1>3, <2>1, LastStart, Zenon DEF LineAfter
  <2> QED  BY <2>2
<1>5. ASSUME NEW k \in 1 .. n, k - 1 \in G PROVE k \in G
  <2>1. LineAfter(line, coding, k, g[k])
    BY <1>1, <1>3, <1>5, LineTurn
  <2> QED  BY <2>1
<1>6. 0 .. n \subseteq G
  <2> HIDE DEF G
  <2> QED  BY <1>4, <1>5, Turns
<1> QED  BY <1>1, <1>3, <1>6

-----------------------------------------------------------------------------
(* All lines *)

Fields == Seq(Seq(Elems))

\* The lines with a well-formed element of a name, and what coding_weight_ex()
\* finds on each.
LinesNaming(lines, name) == {l \in DOMAIN lines : Named(lines[l], name) # {}}
ExplicitOf(lines, coding) == [l \in DOMAIN lines |-> CodingWeightEx(lines[l], coding).coding]
StarOf(lines, coding) == [l \in DOMAIN lines |-> CodingWeightEx(lines[l], coding).star]

\* What chain_coding_weight() has after m lines.  The weight of "*" is only
\* kept up while no line names the coding.
ChainAfter(lines, coding, wildcard, m, acc) ==
  /\ acc \in TwoWeights
  /\ LastIs(LinesNaming(lines, coding), ExplicitOf(lines, coding), m, acc.coding)
  /\ wildcard /\ (\A l \in 1 .. m : l \notin LinesNaming(lines, coding)) =>
       LastIs(LinesNaming(lines, "*"), StarOf(lines, coding), m, acc.star)

\* A line's two weights tell whether it names the coding, and "*".
LEMMA LineSpeaks ==
  ASSUME NEW line \in Seq(Elems), NEW coding, coding # "*"
  PROVE  LET w == CodingWeightEx(line, coding) IN
         /\ w \in TwoWeights
         /\ IF Named(line, coding) # {} THEN w.coding \in Qvalues ELSE w.coding = None
         /\ IF Named(line, "*") # {} THEN w.star \in Qvalues ELSE w.star = None
<1>1. PICK w : w = CodingWeightEx(line, coding)
  OBVIOUS
<1>2. LineAfter(line, coding, Len(line), w)
  BY <1>1, LineWeights
<1>3. DOMAIN line = 1 .. Len(line)
  OBVIOUS
<1>4. ASSUME NEW name, NEW x, LastIs(Named(line, name), Weighs(line), Len(line), x)
      PROVE  IF Named(line, name) # {} THEN x \in Qvalues ELSE x = None
  <2>1. Named(line, name) \subseteq 1 .. Len(line)
    BY <1>3 DEF Named
  <2> QED  BY <1>4, <2>1, Zenon DEF LastIs
<1> QED  BY <1>1, <1>2, <1>4, Zenon DEF LineAfter

\* One line more.
LEMMA ChainTurn ==
  ASSUME NEW lines \in Fields, NEW coding, coding # "*", NEW wildcard \in BOOLEAN,
         NEW k \in DOMAIN lines,
         NEW acc, ChainAfter(lines, coding, wildcard, k - 1, acc),
         NEW next, next = ChainStep(acc, lines[k], coding, wildcard)
  PROVE  ChainAfter(lines, coding, wildcard, k, next)
<1> DEFINE C == LinesNaming(lines, coding)
           S == LinesNaming(lines, "*")
           WC == ExplicitOf(lines, coding)
           WS == StarOf(lines, coding)
<1>1. k \in Nat /\ k > 0 /\ k \in 1 .. k /\ \A l \in 1 .. k - 1 : l \in 1 .. k
  BY DEF Fields
<1>2. PICK line \in Seq(Elems) : line = lines[k]
  BY DEF Fields
<1>3. PICK w : w = CodingWeightEx(line, coding)
  OBVIOUS
<1>4. /\ w \in TwoWeights
      /\ IF Named(line, coding) # {} THEN w.coding \in Qvalues ELSE w.coding = None
      /\ IF Named(line, "*") # {} THEN w.star \in Qvalues ELSE w.star = None
  BY <1>3, LineSpeaks
<1>5. /\ k \in C <=> Named(line, coding) # {}
      /\ k \in S <=> Named(line, "*") # {}
  BY <1>2, Zenon DEF LinesNaming
<1>6. WC[k] = w.coding /\ WS[k] = w.star
  BY <1>2, <1>3 DEF ExplicitOf, StarOf
<1>7. /\ acc \in TwoWeights
      /\ LastIs(C, WC, k - 1, acc.coding)
      /\ wildcard /\ (\A l \in 1 .. k - 1 : l \notin C) => LastIs(S, WS, k - 1, acc.star)
  BY Zenon DEF ChainAfter
<1>8. ~ (None >= 0)
  BY DEF None
<1>9. next = IF w.coding >= 0 THEN [acc EXCEPT !.coding = w.coding]
             ELSE IF wildcard /\ w.star >= 0 THEN [acc EXCEPT !.star = w.star]
             ELSE acc
  BY <1>2, <1>3, Zenon DEF ChainStep
<1> HIDE DEF C, S, WC, WS
<1>10. SUFFICES /\ next \in TwoWeights
                /\ LastIs(C, WC, k, next.coding)
                /\ wildcard /\ (\A l \in 1 .. k : l \notin C) => LastIs(S, WS, k, next.star)
  BY Zenon DEF ChainAfter, C, S, WC, WS
<1>11. CASE k \in C
  <2>1. w.coding \in Qvalues
    BY <1>4, <1>5, <1>11, Zenon
  <2>2. next = [acc EXCEPT !.coding = w.coding]
    BY <1>9, <2>1, QvalueIsInt, Zenon
  <2>3. next \in TwoWeights /\ next.coding = w.coding
    BY <1>4, <1>7, <2>2 DEF TwoWeights
  <2>4. LastIs(C, WC, k, WC[k])
    BY <1>1, <1>6, <1>11, <2>1, LastMoves
  <2> QED  BY <1>1, <1>6, <1>11, <2>3, <2>4, Zenon
<1>12. CASE k \notin C
  <2>1. ~ (w.coding >= 0)
    BY <1>4, <1>5, <1>8, <1>12, Zenon
  <2>2. LastIs(C, WC, k, acc.coding)
    BY <1>1, <1>7, <1>12, LastKept, Zenon
  <2>3. CASE wildcard /\ k \in S
    <3>1. w.star \in Qvalues
      BY <1>4, <1>5, <2>3, Zenon
    <3>2. next = [acc EXCEPT !.star = w.star]
      BY <1>9, <2>1, <2>3, <3>1, QvalueIsInt, Zenon
    <3>3. next \in TwoWeights /\ next.star = w.star /\ next.coding = acc.coding
      BY <1>4, <1>7, <3>2 DEF TwoWeights
    <3>4. LastIs(S, WS, k, WS[k])
      BY <1>1, <1>6, <2>3, <3>1, LastMoves
    <3> QED  BY <1>6, <2>2, <3>3, <3>4, Zenon
  <2>4. CASE ~ wildcard
    <3>1. next = acc
      BY <1>9, <2>1, <2>4, Zenon
    <3> QED  BY <1>7, <2>2, <2>4, <3>1, Zenon
  <2>5. CASE wildcard /\ k \notin S
    <3>1. next = acc
      BY <1>4, <1>5, <1>8, <1>9, <2>1, <2>5, Zenon
    <3>2. (\A l \in 1 .. k : l \notin C) => LastIs(S, WS, k, acc.star)
      BY <1>1, <1>7, <2>5, LastKept, Zenon
    <3> QED  BY <1>7, <2>2, <3>1, <3>2, Zenon
  <2> QED  BY <2>3, <2>4, <2>5, Zenon
<1> QED  BY <1>11, <1>12

\* What chain_coding_weight() decides from.
LEMMA ChainWeights ==
  ASSUME NEW lines \in Fields, NEW coding, coding # "*", NEW wildcard \in BOOLEAN
  PROVE  \E acc : /\ ChainAfter(lines, coding, wildcard, Len(lines), acc)
                  /\ RequestCodingWeight(lines, coding, wildcard) =
                       Preference(acc, wildcard)
<1>1. PICK n \in Nat : n = Len(lines) /\ DOMAIN lines = 1 .. n
  BY DEF Fields
<1>2. PICK g : ChainRun(lines, n, coding, wildcard, g)
  BY <1>1, ChainRuns
<1>3. /\ g[0] = NoWeights
      /\ \A k \in 1 .. n : g[k] = ChainStep(g[k - 1], lines[k], coding, wildcard)
      /\ RequestCodingWeight(lines, coding, wildcard) = Preference(g[n], wildcard)
  BY <1>2, Zenon DEF ChainRun
<1> DEFINE G == {k \in 0 .. n : ChainAfter(lines, coding, wildcard, k, g[k])}
<1>4. 0 \in G
  <2>1. NoWeights \in TwoWeights /\ NoWeights.coding = None /\ NoWeights.star = None
    BY DEF NoWeights, TwoWeights, None
  <2>2. ChainAfter(lines, coding, wildcard, 0, g[0])
    BY <1>3, <2>1, LastStart, Zenon DEF ChainAfter
  <2> QED  BY <2>2
<1>5. ASSUME NEW k \in 1 .. n, k - 1 \in G PROVE k \in G
  <2>1. ChainAfter(lines, coding, wildcard, k, g[k])
    BY <1>1, <1>5, <1>3, ChainTurn
  <2> QED  BY <2>1
<1>6. 0 .. n \subseteq G
  <2> HIDE DEF G
  <2> QED  BY <1>4, <1>5, Turns
<1>7. n \in 0 .. n
  OBVIOUS
<1> QED  BY <1>1, <1>6, <1>7, <1>3

-----------------------------------------------------------------------------
(* The field *)

\* The order of places has one last place.
LEMMA LastPlace ==
  ASSUME NEW P \in SUBSET (Nat \X Nat), NEW p \in P,
         \A q \in P \ {p} : Before(q, p)
  PROVE  LastOf(P) = p
<1>1. ASSUME NEW r \in P, \A q \in P \ {r} : Before(q, r), r # p PROVE FALSE
  <2>1. Before(p, r) /\ Before(r, p)
    BY <1>1
  <2>2. PICK a \in Nat, b \in Nat, c \in Nat, d \in Nat : p = <<a, b>> /\ r = <<c, d>>
    OBVIOUS
  <2> QED  BY <2>1, <2>2 DEF Before
<1>2. LastOf(P) \in P /\ \A q \in P \ {LastOf(P)} : Before(q, LastOf(P))
  BY Zenon DEF LastOf
<1> QED  BY <1>1, <1>2, Zenon

\* The elements of a name are the ones that the lines have.
LEMMA NamingByLine ==
  ASSUME NEW name
  PROVE  /\ \A l \in DOMAIN ae : \A i \in Named(ae[l], name) : <<l, i>> \in Naming(name)
         /\ \A p \in Naming(name) :
              \E l \in DOMAIN ae : \E i \in Named(ae[l], name) : p = <<l, i>>
<1>1. ASSUME NEW l \in DOMAIN ae, NEW i \in Named(ae[l], name)
      PROVE  <<l, i>> \in Naming(name)
  <2>1. /\ i \in DOMAIN ae[l]
        /\ ae[l][i].name = name /\ WellFormed(ae[l][i].params)
    BY DEF Named
  <2>2. <<l, i>> \in Places
    BY <2>1 DEF Places
  <2>3. Elem(<<l, i>>) = ae[l][i]
    BY DEF Elem
  <2> QED  BY <2>1, <2>2, <2>3, Zenon DEF Naming
<1>2. ASSUME NEW p \in Naming(name)
      PROVE  \E l \in DOMAIN ae : \E i \in Named(ae[l], name) : p = <<l, i>>
  <2>1. p \in Places /\ Elem(p).name = name /\ WellFormed(Elem(p).params)
    BY Zenon DEF Naming
  <2>2. PICK l \in DOMAIN ae : p \in {l} \X DOMAIN ae[l]
    BY <2>1, Zenon DEF Places
  <2>3. PICK i \in DOMAIN ae[l] : p = <<l, i>>
    BY <2>2
  <2>4. Elem(p) = ae[l][i]
    BY <2>3 DEF Elem
  <2>5. i \in Named(ae[l], name)
    BY <2>1, <2>4, Zenon DEF Named
  <2> QED  BY <2>3, <2>5
<1> QED  BY <1>1, <1>2

\* What the loop says of the lines is what the last element of the joined list
\* says.
LEMMA LastIsJoined ==
  ASSUME ae \in Fields, NEW name, NEW W, NEW w,
         LastIs(LinesNaming(ae, name), W, Len(ae), w),
         \A l \in DOMAIN ae : LastIs(Named(ae[l], name), Weighs(ae[l]), Len(ae[l]), W[l])
  PROVE  IF Naming(name) = {} THEN w = None
         ELSE w \in Qvalues /\ w = Weight(Elem(LastOf(Naming(name))).params)
<1>1. PICK n \in Nat : n = Len(ae) /\ DOMAIN ae = 1 .. n
  BY DEF Fields
<1>2. \A l \in DOMAIN ae : ae[l] \in Seq(Elems)
  BY DEF Fields
<1>3. /\ \A l \in DOMAIN ae : \A i \in Named(ae[l], name) : <<l, i>> \in Naming(name)
      /\ \A p \in Naming(name) :
           \E l \in DOMAIN ae : \E i \in Named(ae[l], name) : p = <<l, i>>
  BY NamingByLine
<1>4. CASE w = None /\ \A l \in 1 .. n : l \notin LinesNaming(ae, name)
  <2>1. \A l \in DOMAIN ae : Named(ae[l], name) = {}
    BY <1>1, <1>4, Zenon DEF LinesNaming
  <2>2. Naming(name) = {}
    BY <1>3, <2>1, Zenon
  <2> QED  BY <1>4, <2>2
<1>5. CASE /\ w \in Qvalues
           /\ \E l \in 1 .. n : /\ l \in LinesNaming(ae, name) /\ W[l] = w
                                /\ \A j \in 1 .. n : j \in LinesNaming(ae, name) => j <= l
  <2>1. PICK l \in 1 .. n : /\ l \in LinesNaming(ae, name) /\ W[l] = w
                            /\ \A j \in 1 .. n : j \in LinesNaming(ae, name) => j <= l
    BY <1>5
  <2>2. PICK line \in Seq(Elems) : line = ae[l]
    BY <1>1, <1>2
  <2>3. LastIs(Named(line, name), Weighs(line), Len(line), w)
    BY <1>1, <2>1, <2>2, Zenon
  <2>4. w # None
    BY <1>5, QvalueIsInt, Zenon
  <2>5. PICK i \in 1 .. Len(line) :
          /\ i \in Named(line, name) /\ Weighs(line)[i] = w
          /\ \A j \in 1 .. Len(line) : j \in Named(line, name) => j <= i
    BY <2>3, <2>4, Zenon DEF LastIs
  <2>6. DOMAIN line = 1 .. Len(line) /\ Len(line) \in Nat
    OBVIOUS
  <2>7. <<l, i>> \in Naming(name)
    BY <1>1, <1>3, <2>2, <2>5, Zenon
  <2>8. ASSUME NEW p \in Naming(name) PROVE p \in Nat \X Nat
    <3>1. PICK m \in DOMAIN ae : \E j \in Named(ae[m], name) : p = <<m, j>>
      BY <1>3, Zenon
    <3>2. PICK j \in Named(ae[m], name) : p = <<m, j>>
      BY <3>1
    <3>3. PICK other \in Seq(Elems) : other = ae[m]
      BY <1>2
    <3>4. DOMAIN other \subseteq Nat
      OBVIOUS
    <3>5. j \in Nat /\ m \in Nat
      BY <1>1, <3>3, <3>4 DEF Named
    <3> QED  BY <3>2, <3>5
  <2>9. ASSUME NEW p \in Naming(name), p # <<l, i>> PROVE Before(p, <<l, i>>)
    <3>1. PICK m \in DOMAIN ae : \E j \in Named(ae[m], name) : p = <<m, j>>
      BY <1>3, Zenon
    <3>2. PICK j \in Named(ae[m], name) : p = <<m, j>>
      BY <3>1
    <3>3. m <= l /\ m \in 1 .. n
      BY <1>1, <2>1, Zenon DEF LinesNaming
    <3>4. CASE m = l
      <4>1. j \in Named(line, name) /\ j \in 1 .. Len(line)
        BY <2>2, <2>6, <3>4 DEF Named
      <4>2. j <= i /\ j # i
        BY <2>5, <2>9, <3>2, <3>4, <4>1
      <4>3. j < i
        BY <2>6, <4>1, <4>2
      <4> QED  BY <3>2, <3>4, <4>3 DEF Before
    <3>5. CASE m # l
      <4>1. m < l
        BY <3>3, <3>5
      <4> QED  BY <3>2, <4>1 DEF Before
    <3> QED  BY <3>4, <3>5
  <2>10. LastOf(Naming(name)) = <<l, i>>
    <3>1. Naming(name) \in SUBSET (Nat \X Nat)
      BY <2>8, Zenon
    <3>2. \A p \in Naming(name) \ {<<l, i>>} : Before(p, <<l, i>>)
      BY <2>9, Zenon
    <3> QED  BY <2>7, <3>1, <3>2, LastPlace, Zenon
  <2>11. Elem(<<l, i>>) = line[i]
    BY <2>2 DEF Elem
  <2>12. Weighs(line)[i] = Weight(line[i].params)
    BY <2>6 DEF Weighs
  <2> QED  BY <1>5, <2>5, <2>7, <2>10, <2>11, <2>12, Zenon
<1> QED  BY <1>1, <1>4, <1>5, Zenon DEF LastIs

\* The weight the code computes for any coding but "*".
LEMMA JoinedWeight ==
  ASSUME ae \in Fields, NEW coding, coding # "*", NEW wildcard \in BOOLEAN
  PROVE  RequestCodingWeight(ae, coding, wildcard) = Effective(coding, wildcard)
<1>1. PICK acc : /\ ChainAfter(ae, coding, wildcard, Len(ae), acc)
                 /\ RequestCodingWeight(ae, coding, wildcard) = Preference(acc, wildcard)
  BY ChainWeights
<1>2. \A l \in DOMAIN ae : LineAfter(ae[l], coding, Len(ae[l]), CodingWeightEx(ae[l], coding))
  <2> TAKE l \in DOMAIN ae
  <2>1. ae[l] \in Seq(Elems)
    BY DEF Fields
  <2> QED  BY <2>1, LineWeights
<1>3. \A l \in DOMAIN ae :
        /\ LastIs(Named(ae[l], coding), Weighs(ae[l]), Len(ae[l]), ExplicitOf(ae, coding)[l])
        /\ LastIs(Named(ae[l], "*"), Weighs(ae[l]), Len(ae[l]), StarOf(ae, coding)[l])
  BY <1>2, Zenon DEF LineAfter, ExplicitOf, StarOf
<1>4. IF Naming(coding) = {} THEN acc.coding = None
      ELSE /\ acc.coding \in Qvalues
           /\ acc.coding = Weight(Elem(LastOf(Naming(coding))).params)
  BY <1>1, <1>3, LastIsJoined, Zenon DEF ChainAfter
<1>5. ASSUME wildcard, Naming(coding) = {}
      PROVE  IF Naming("*") = {} THEN acc.star = None
             ELSE /\ acc.star \in Qvalues
                  /\ acc.star = Weight(Elem(LastOf(Naming("*"))).params)
  <2>1. \A l \in DOMAIN ae : l \notin LinesNaming(ae, coding)
    BY <1>5, NamingByLine, Zenon DEF LinesNaming
  <2>2. DOMAIN ae = 1 .. Len(ae)
    BY DEF Fields
  <2>3. LastIs(LinesNaming(ae, "*"), StarOf(ae, coding), Len(ae), acc.star)
    BY <1>1, <1>5, <2>1, <2>2, Zenon DEF ChainAfter
  <2> QED  BY <1>3, <2>3, LastIsJoined, Zenon
<1>6. ~ (None >= 0) /\ None = -1
  BY DEF None
<1>7. CASE Naming(coding) # {}
  <2>1. acc.coding >= 0
    BY <1>4, <1>7, QvalueIsInt, Zenon
  <2> QED  BY <1>1, <1>4, <1>7, <2>1, Zenon DEF Preference, Effective
<1>8. CASE Naming(coding) = {} /\ wildcard /\ Naming("*") # {}
  <2>1. acc.star >= 0 /\ ~ (acc.coding >= 0)
    BY <1>4, <1>5, <1>6, <1>8, QvalueIsInt, Zenon
  <2> QED  BY <1>1, <1>5, <1>8, <2>1, Zenon DEF Preference, Effective
<1>9. CASE Naming(coding) = {} /\ ~ (wildcard /\ Naming("*") # {})
  <2>1. ~ (acc.coding >= 0) /\ ~ (wildcard /\ acc.star >= 0)
    BY <1>4, <1>5, <1>6, <1>9, Zenon
  <2> QED  BY <1>1, <1>9, <2>1, Zenon DEF Preference, Effective
<1> QED  BY <1>7, <1>8, <1>9, Zenon

\* A sequence stays one when an element is replaced.
LEMMA SeqReplaced ==
  ASSUME NEW T, NEW s \in Seq(T), NEW i \in DOMAIN s, NEW x \in T
  PROVE  [s EXCEPT ![i] = x] \in Seq(T)
<1>1. PICK n \in Nat : n = Len(s) /\ DOMAIN s = 1 .. n /\ s \in [1 .. n -> T]
  OBVIOUS
<1>2. [s EXCEPT ![i] = x] \in [1 .. n -> T]
  BY <1>1
<1> QED  BY <1>2

\* The field stays a field.
LEMMA FieldType == SpecField => [](ae \in Fields)
<1>1. InitField => ae \in Fields
  BY DEF InitField, Fields
<1>2. ae \in Fields /\ [NextField]_ae => (ae \in Fields)'
  <2> SUFFICES ASSUME ae \in Fields, [NextField]_ae PROVE ae' \in Fields
    OBVIOUS
  <2>1. CASE NewLine
    <3>1. <<>> \in Seq(Elems)
      OBVIOUS
    <3> QED  BY <2>1, <3>1 DEF NewLine, Fields
  <2>2. ASSUME NEW name \in Codings, NewElem(name) PROVE ae' \in Fields
    <3>1. PICK line \in Seq(Elems) : line = ae[Len(ae)] /\ Len(ae) \in DOMAIN ae
      BY <2>2 DEF NewElem, Fields
    <3>2. PICK elem \in Elems : elem = [name |-> name, params |-> <<>>]
      <4>1. <<>> \in Seq(Params)
        OBVIOUS
      <4>2. [name |-> name, params |-> <<>>] \in Elems
        BY <4>1, Zenon DEF Elems
      <4> QED  BY <4>2
    <3>3. ae' = [ae EXCEPT ![Len(ae)] = Append(line, elem)]
      BY <2>2, <3>1, <3>2 DEF NewElem
    <3>4. Append(line, elem) \in Seq(Elems)
      OBVIOUS
    <3> QED  BY <3>1, <3>3, <3>4, SeqReplaced DEF Fields
  <2>3. ASSUME NEW p \in Params, NewParam(p) PROVE ae' \in Fields
    <3>1. PICK line \in Seq(Elems) : /\ line = ae[Len(ae)] /\ line # <<>>
                                     /\ Len(ae) \in DOMAIN ae
      BY <2>3 DEF NewParam, Fields, Last
    <3>2. PICK elem \in Elems : elem = line[Len(line)] /\ Len(line) \in DOMAIN line
      BY <3>1
    <3>3. PICK longer \in Elems : longer = [elem EXCEPT !.params = Append(@, p)]
      <4>1. PICK ps : ps = elem.params
        OBVIOUS
      <4>2. ps \in Seq(Params)
        BY <4>1 DEF Elems
      <4>3. Append(ps, p) \in Seq(Params)
        BY <4>2
      <4>4. PICK more \in Seq(Params) : more = Append(elem.params, p)
        BY <4>1, <4>3
      <4>5. [elem EXCEPT !.params = more] \in Elems
        BY DEF Elems
      <4> QED  BY <4>4, <4>5
    <3>4. PICK grown \in Seq(Elems) : grown = [line EXCEPT ![Len(line)] = longer]
      BY <3>2, SeqReplaced
    <3>5. ae' = [ae EXCEPT ![Len(ae)] = grown]
      BY <2>3, <3>1, <3>2, <3>3, <3>4 DEF NewParam
    <3> QED  BY <3>1, <3>5, SeqReplaced DEF Fields
  <2> QED  BY <2>1, <2>2, <2>3 DEF NextField
<1> QED  BY <1>1, <1>2, PTL DEF SpecField

\* For any coding names and weights, any number of lines, elements and
\* parameters: chain_coding_weight() and its callers compute the weight of the
\* comma-joined list.
THEOREM WeightsAreOfJoinedField == SpecField => []WeightIsOfJoinedField
<1>1. ae \in Fields => WeightIsOfJoinedField
  BY JoinedWeight DEF WeightIsOfJoinedField
<1> QED  BY <1>1, FieldType, PTL
====
