------------------------- MODULE StaticNegotiation --------------------------
(***************************************************************************)
(* ngx_http_zstd_static_handler() in front of the header filter, and the   *)
(* shared cache behind both.  The handler answers with the precompressed   *)
(* sidecar, or declines and lets the file handler and the filter answer;   *)
(* Vary lines it pushed before declining are seen by the filter.           *)
(*                                                                         *)
(* To the records of Negotiation a configuration adds static and           *)
(* dict_bypass, a response adds slash (the URI ends in "/") and sidecar    *)
(* (a ".zst" file is there and the probe accepts it; see VerdictCache),    *)
(* and a request adds get (GET or HEAD).                                   *)
(***************************************************************************)
EXTENDS Negotiation

ASSUME StaticConfs ==
  \A c \in Confs : /\ {"static", "dict_bypass"} \subseteq DOMAIN c
                   /\ c.static \in {"off", "on", "always"}

ASSUME StaticResponses == \A rsp \in Responses : "vary" \in DOMAIN rsp

-----------------------------------------------------------------------------
(* The handler *)

\* should_bypass(): exactly one Available-Dictionary line, dcz accepted.
ShouldBypass(req) == Len(req.avail) = 1 /\ AcceptsDcz(req.ae)

\* vary_ae_dcz(): both pushes after one walk over the lines.
VaryAeDcz(c, lines) == VaryDcz(VaryAcceptEncoding(c, lines))

\* The handler declines after r->gzip_vary was set and these lines pushed.
Declined(c, rsp, req, lines) ==
  LET left == [rsp EXCEPT !.vary = lines]
  IN IF Eligible(c, left, req) THEN HeaderFilter(c, left, req)
     ELSE CoreHeaderFilter(c, Answer("identity", NoDict, lines))

\* Mutant: a client that is not served the sidecar gets no Vary.
StaticOnQuietDecline(c, rsp, req) ==
  IF req.main /\ AcceptsZstd(req.ae)
  THEN CoreHeaderFilter(c, Answer("zstd", NoDict,
                                  VaryAcceptEncoding(c, rsp.vary)))
  ELSE HeaderFilter(c, rsp, req)

\* Mutant: the Vary line only goes on the decline.
StaticOnUnmarked(c, rsp, req) ==
  IF req.main /\ AcceptsZstd(req.ae)
  THEN Answer("zstd", NoDict, rsp.vary)
  ELSE Declined(c, rsp, req, VaryAcceptEncoding(c, rsp.vary))

\* "on": the sidecar's existence makes the URI depend on Accept-Encoding,
\* also for a client that is not served it.
StaticOn(c, rsp, req) ==
  LET lines == VaryAcceptEncoding(c, rsp.vary)
  IN IF req.main /\ AcceptsZstd(req.ae)
     THEN CoreHeaderFilter(c, Answer("zstd", NoDict, lines))
     ELSE Declined(c, rsp, req, lines)

\* "always": nothing is read from the request and no Vary is sent.
StaticAlways(rsp) == Answer("zstd", NoDict, rsp.vary)

Respond(c, rsp, req) ==
  IF ~ req.get \/ rsp.slash \/ c.static = "off"
  THEN HeaderFilter(c, rsp, req)
  ELSE IF c.dict_bypass /\ req.main /\ ShouldBypass(req)
  THEN Declined(c, rsp, req, VaryAeDcz(c, rsp.vary))
  ELSE IF ~ rsp.sidecar THEN HeaderFilter(c, rsp, req)
  ELSE IF c.static = "on" THEN StaticOn(c, rsp, req)
  ELSE StaticAlways(rsp)

-----------------------------------------------------------------------------
\* Answers of "always" are marked: they are sent to whoever asks.
StaticFill(req) ==
  /\ req.main /\ req.get
  /\ Cardinality(cache) < MaxEntries
  /\ ~ \E e \in cache : Matches(e, req)
  /\ cache' = cache \cup
       {[req |-> req, answer |-> Respond(conf, resp, req), current |-> TRUE,
         always |-> conf.static = "always"]}
  /\ UNCHANGED <<conf, resp>>

StaticOutdated == {[e EXCEPT !.current = FALSE] : e \in cache}

StaticReload(c) ==
  /\ conf' = MergeConf(c)
  /\ cache' = StaticOutdated
  /\ UNCHANGED resp

StaticPublish(rsp) ==
  /\ resp' = rsp
  /\ cache' = StaticOutdated
  /\ UNCHANGED conf

StaticNext ==
  \/ \E req \in Requests : StaticFill(req)
  \/ \E e \in cache : Evict(e)
  \/ \E c \in Confs : StaticReload(c)
  \/ \E rsp \in Responses : StaticPublish(rsp)

StaticSpec == Init /\ [][StaticNext]_vars

-----------------------------------------------------------------------------
(* Properties *)

\* Only a location that says "always", and a cache filled by it, hands out a
\* coding the client did not ask for; the sidecar of "on" and the fallbacks
\* behind it never do, whoever filled the cache (static_module.c:1877-1914).
OnlyAlwaysForces ==
  \A req \in Requests :
    /\ (req.main /\ conf.static # "always") => Wanted(req, Respond(conf, resp, req))
    /\ \A e \in cache : Matches(e, req) /\ ~ e.always => Wanted(req, e.answer)

\* Without dict_bypass a stored answer is what the origin would answer,
\* through sidecar, decline and filter alike: no client gets another
\* representation because of who filled the cache (static_module.c:1885-1914).
SidecarTransparent ==
  ~ conf.dict_bypass /\ (conf.bypass => conf.bypass_vary) =>
    \A e \in cache, req \in Requests :
      e.current /\ req.get /\ Matches(e, req) =>
        /\ Respond(conf, resp, req).coding = e.answer.coding
        /\ Respond(conf, resp, req).dict = e.answer.dict
=============================================================================
