----------------------------- MODULE Negotiation ----------------------------
(***************************************************************************)
(* ngx_http_zstd_header_filter(): what coding a response gets, and the     *)
(* Vary lines it leaves with, seen together with the shared cache those    *)
(* lines are written for.                                                  *)
(*                                                                         *)
(* The cache is external and follows HTTP: a stored response answers a     *)
(* later request of the same scheme when the two requests agree on every   *)
(* field the stored Vary names.  Stored responses outlive reloads of the   *)
(* configuration and changes of the resource.                              *)
(*                                                                         *)
(* A Vary line is [live, fields]: a line whose hash is 0 was deleted by    *)
(* another module and is never sent.  A dictionary is known by its digest, *)
(* a natural number here, ordered as memcmp() orders digests.              *)
(***************************************************************************)
EXTENDS AcceptEncoding, FiniteSets

CONSTANTS
  Requests,          \* [main, secure, ae, avail, site, bypass]
  Confs,             \* zstd directives of the location, as configured
  Responses,         \* what the upstream or file handler produces
  BsearchThreshold,  \* NGX_HTTP_ZSTD_DCZ_BSEARCH_THRESHOLD
  MaxEntries         \* responses the cache holds

ASSUME NegotiationBounds == {BsearchThreshold, MaxEntries} \subseteq Nat

VARIABLES
  conf,    \* the location's merged configuration
  resp,    \* the resource's current response
  cache    \* stored responses

vars == <<conf, resp, cache>>

UNSET == -1          \* zstd_max_length not set; Content-Length not known
NotADigest == -1     \* an Available-Dictionary value that is no SHA-256
NoDict == -2

BypassField == "X-No-Compression"

\* The request fields a Vary line may name here.
FieldNames == {"Accept-Encoding", "Available-Dictionary", "Sec-Fetch-Site",
               BypassField}

Lines == Seq([live : BOOLEAN, fields : SUBSET FieldNames])

Vary(fields) == [live |-> TRUE, fields |-> fields]

ASSUME RequestsAssumption ==
  \A req \in Requests : req.avail \in Seq(Int) /\ req.site \in Seq(STRING)

ASSUME ResponsesAssumption == \A rsp \in Responses : rsp.vary \in Lines

-----------------------------------------------------------------------------
(* Dictionaries *)

\* dcz_dict_sort(), called once when the server or location that declares the
\* list is merged.  (A list of http{} is not sorted: see ConfigLoad.)
DczDictSort(dicts) == SortSeq(dicts, <)
MergeConf(c) == [c EXCEPT !.dcz_dicts = DczDictSort(@)]

\* dcz_dict_lookup(): a binary search above the threshold, else a scan.
Bisect(dicts, digest) ==
  LET search[lo \in 1 .. Len(dicts) + 1, hi \in 0 .. Len(dicts)] ==
        IF lo > hi THEN FALSE
        ELSE LET mid == (lo + hi) \div 2 IN
             IF dicts[mid] = digest THEN TRUE
             ELSE IF dicts[mid] < digest THEN search[mid + 1, hi]
             ELSE search[lo, mid - 1]
  IN search[1, Len(dicts)]

Lookup(dicts, digest) ==
  IF IF Len(dicts) > BsearchThreshold THEN Bisect(dicts, digest)
     ELSE digest \in Range(dicts)
  THEN digest ELSE NoDict

\* dcz_negotiate(): the dictionary to compress against, or NoDict.  A
\* repeated Available-Dictionary or Sec-Fetch-Site line refuses dcz.
DczNegotiate(c, req) ==
  IF /\ c.dcz_dicts # <<>>
     /\ req.main
     /\ req.secure \/ c.dcz_assume_secure
     /\ AcceptsDcz(req.ae)
     /\ Len(req.avail) = 1
     /\ req.avail[1] # NotADigest
     /\ Len(req.site) <= 1
     /\ \A s \in Range(req.site) : s \in {"same-origin", "none"}
  THEN Lookup(c.dcz_dicts, req.avail[1])
  ELSE NoDict

-----------------------------------------------------------------------------
(* Vary *)

\* vary_find_tokens(): deleted lines do not count.
Names(lines, field) ==
  \E i \in DOMAIN lines : lines[i].live /\ field \in lines[i].fields

\* vary_accept_encoding(): nginx emits the line itself under gzip_vary.
VaryAcceptEncoding(c, lines) ==
  IF c.gzip_vary \/ Names(lines, "Accept-Encoding") THEN lines
  ELSE Append(lines, Vary({"Accept-Encoding"}))

\* Mutant: Sec-Fetch-Site is taken for granted.
VaryDczDictionaryOnly(lines) ==
  IF Names(lines, "Available-Dictionary") THEN lines
  ELSE Append(lines, Vary({"Available-Dictionary"}))

\* vary_dcz(): one line with whichever of the two fields is missing.
VaryDcz(lines) ==
  LET missing == {f \in {"Available-Dictionary", "Sec-Fetch-Site"} :
                    ~ Names(lines, f)}
  IN IF missing = {} THEN lines ELSE Append(lines, Vary(missing))

VaryBypass(c, lines) ==
  IF c.bypass_vary THEN Append(lines, Vary({BypassField})) ELSE lines

-----------------------------------------------------------------------------
(* The header filter *)

EligibleStatus(status) ==
  /\ status >= 200
  /\ status \notin {204, 205, 206}
  /\ status > 299 => status \in {403, 404, 410}

\* The gates in front of the negotiation; none looks at a request field.
Eligible(c, rsp, req) ==
  /\ c.enable
  /\ req.main
  /\ EligibleStatus(rsp.status)
  /\ ~ rsp.encoded
  /\ rsp.length # UNSET => rsp.length >= c.min_length
  /\ c.max_length # UNSET /\ rsp.length # UNSET => rsp.length <= c.max_length
  /\ ~ rsp.header_only
  /\ rsp.type \in c.types
  /\ ~ rsp.no_transform

Answer(coding, dict, lines) ==
  [coding |-> coding, dict |-> dict, vary |-> lines]

\* Mutant: the bypass returns before Vary is touched.
NegotiateBypassFirst(c, rsp, req) ==
  LET lines == VaryAcceptEncoding(c, VaryBypass(c, rsp.vary))
      all   == IF c.dcz_dicts # <<>> THEN VaryDcz(lines) ELSE lines
      dict  == DczNegotiate(c, req)
  IN IF c.bypass /\ req.bypass THEN Answer("identity", NoDict, rsp.vary)
     ELSE IF dict # NoDict THEN Answer("dcz", dict, all)
     ELSE IF AcceptsZstd(req.ae) THEN Answer("zstd", NoDict, all)
     ELSE Answer("identity", NoDict, all)

\* Everything after the gates: Vary first, then the bypass, then dcz, then
\* zstd.  The bypass returns before the dictionary fields are named.
Negotiate(c, rsp, req) ==
  LET lines == VaryAcceptEncoding(c, VaryBypass(c, rsp.vary))
      all   == IF c.dcz_dicts # <<>> THEN VaryDcz(lines) ELSE lines
      dict  == DczNegotiate(c, req)
  IN IF c.bypass /\ req.bypass THEN Answer("identity", NoDict, lines)
     ELSE IF dict # NoDict THEN Answer("dcz", dict, all)
     ELSE IF AcceptsZstd(req.ae) THEN Answer("zstd", NoDict, all)
     ELSE Answer("identity", NoDict, all)

\* nginx's own header filter adds its line last, under gzip_vary, for a
\* response on which r->gzip_vary is set.
CoreHeaderFilter(c, a) ==
  IF c.gzip_vary
  THEN [a EXCEPT !.vary = Append(@, Vary({"Accept-Encoding"}))]
  ELSE a

\* A response that came encoded keeps its coding; it is opaque here.  When
\* an allocation fails the filter returns NGX_ERROR: the response is not
\* sent, so nothing is stored.  What else the filter does once it compresses
\* (the request context, gzip switched off, Content-Length and ranges
\* cleared, the ETag weakened) is not told apart by a cache.
HeaderFilter(c, rsp, req) ==
  IF Eligible(c, rsp, req) THEN CoreHeaderFilter(c, Negotiate(c, rsp, req))
  ELSE Answer("identity", NoDict, rsp.vary)

-----------------------------------------------------------------------------
(* The cache *)

Field(req, name) ==
  CASE name = "Accept-Encoding"      -> req.ae
    [] name = "Available-Dictionary" -> req.avail
    [] name = "Sec-Fetch-Site"       -> req.site
    [] name = BypassField            -> req.bypass

Nominated(lines) ==
  UNION {lines[i].fields : i \in {j \in DOMAIN lines : lines[j].live}}

Matches(e, req) ==
  /\ req.main
  /\ req.secure = e.req.secure
  /\ \A f \in Nominated(e.answer.vary) : Field(req, f) = Field(e.req, f)

-----------------------------------------------------------------------------
Init ==
  /\ conf \in {MergeConf(c) : c \in Confs}
  /\ resp \in Responses
  /\ cache = {}

\* A main request reaches the origin and its answer is stored.
Fill(req) ==
  /\ req.main
  /\ Cardinality(cache) < MaxEntries
  /\ ~ \E e \in cache : Matches(e, req)
  /\ cache' = cache \cup
       {[req |-> req, answer |-> HeaderFilter(conf, resp, req),
         current |-> TRUE]}
  /\ UNCHANGED <<conf, resp>>

Evict(e) ==
  /\ cache' = cache \ {e}
  /\ UNCHANGED <<conf, resp>>

\* What is stored no longer tells what the origin would answer now.
Outdated ==
  {[req |-> e.req, answer |-> e.answer, current |-> FALSE] : e \in cache}

Reload(c) ==
  /\ conf' = MergeConf(c)
  /\ cache' = Outdated
  /\ UNCHANGED resp

Publish(rsp) ==
  /\ resp' = rsp
  /\ cache' = Outdated
  /\ UNCHANGED conf

Next ==
  \/ \E req \in Requests : Fill(req)
  \/ \E e \in cache : Evict(e)
  \/ \E c \in Confs : Reload(c)
  \/ \E rsp \in Responses : Publish(rsp)

Spec == Init /\ [][Next]_vars

-----------------------------------------------------------------------------
(* Properties *)

\* The answers a request may be given now: the origin's, and those of the
\* cache.
AnswersTo(req) ==
  {HeaderFilter(conf, resp, req)} \cup
  {e.answer : e \in {x \in cache : Matches(x, req)}}

Wanted(req, a) ==
  /\ a.coding = "zstd" => AcceptsZstd(req.ae)
  /\ a.coding = "dcz" => /\ AcceptsDcz(req.ae)
                         /\ req.avail = <<a.dict>>
                         /\ Range(req.site) \subseteq {"same-origin", "none"}

\* Nobody is handed a body it cannot decode, or a dictionary response across
\* sites, by the origin or by a shared cache filled by somebody else, under
\* any sequence of reloads (filter_module.c:1734-1770, 1790-1824).
OnlyWantedCodings ==
  \A req \in Requests : \A a \in AnswersTo(req) : Wanted(req, a)

\* As long as neither the configuration nor the resource changed, a stored
\* response is what the origin would have answered: no client loses
\* compression, or the bypass, to the order in which the cache was filled.
\* The operator's side of it is to name the bypass header.
CacheTransparent ==
  (conf.bypass => conf.bypass_vary) =>
    \A e \in cache, req \in Requests :
      e.current /\ Matches(e, req) =>
        /\ HeaderFilter(conf, resp, req).coding = e.answer.coding
        /\ HeaderFilter(conf, resp, req).dict = e.answer.dict
=============================================================================
