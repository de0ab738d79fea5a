---------------------------- MODULE MCNegotiation ---------------------------
(* Instances of Negotiation for TLC. *)
EXTENDS Negotiation

Elem(name) == [name |-> name, params |-> <<>>]
Zero(name) == [name |-> name, params |-> <<[name |-> "q", value |-> 0]>>]

Zstd     == << <<Elem("zstd")>> >>
Dcz      == << <<Elem("dcz")>> >>
Both     == << <<Elem("zstd")>>, <<Elem("dcz")>> >>
Star     == << <<Elem("*")>> >>
NotZstd  == << <<Zero("zstd")>>, <<Elem("*")>> >>

Req == [main |-> TRUE, secure |-> TRUE, ae |-> <<>>, avail |-> <<>>,
        site |-> <<>>, bypass |-> FALSE]

\* Clients without a dictionary; clients with one; clients that send the
\* dictionary fields wrongly; an insecure client; a subrequest.
MCRequests ==
  {[Req EXCEPT !.ae = a, !.bypass = b] :
     a \in {<<>>, Zstd, Star, NotZstd}, b \in BOOLEAN}
  \cup {[Req EXCEPT !.ae = a, !.avail = <<d>>, !.site = s] :
     a \in {Dcz, Both}, d \in {1, 2, 3},
     s \in {<<"same-origin">>, <<"cross-site">>}}
  \cup {[Req EXCEPT !.ae = Both, !.avail = v] :
     v \in {<<1>>, <<>>, <<NotADigest>>, <<1, 3>>}}
  \cup {[Req EXCEPT !.ae = Both, !.avail = <<1>>, !.bypass = TRUE],
        [Req EXCEPT !.ae = Both, !.avail = <<1>>, !.site = <<"none", "none">>],
        [Req EXCEPT !.ae = Star, !.avail = <<1>>],
        [Req EXCEPT !.ae = Both, !.avail = <<1>>, !.secure = FALSE],
        [Req EXCEPT !.ae = Both, !.main = FALSE]}

Conf == [enable |-> TRUE, min_length |-> 20, max_length |-> UNSET,
         types |-> {"text"}, gzip_vary |-> FALSE, bypass |-> FALSE,
         bypass_vary |-> FALSE, dcz_dicts |-> <<>>,
         dcz_assume_secure |-> FALSE]

MCConfs ==
  {[Conf EXCEPT !.enable = FALSE],
   Conf,
   [Conf EXCEPT !.gzip_vary = TRUE, !.max_length = 1000],
   [Conf EXCEPT !.bypass = TRUE],
   [Conf EXCEPT !.dcz_dicts = <<3>>],
   [Conf EXCEPT !.dcz_dicts = <<4, 3, 1>>, !.dcz_assume_secure = TRUE],
   [Conf EXCEPT !.dcz_dicts = <<3, 1>>, !.gzip_vary = TRUE,
                !.bypass = TRUE, !.bypass_vary = TRUE]}

Resp == [status |-> 200, encoded |-> FALSE, length |-> UNSET,
         header_only |-> FALSE, type |-> "text", no_transform |-> FALSE,
         vary |-> <<>>]

MCResponses ==
  {Resp,
   [Resp EXCEPT !.status = 404, !.length = 20,
                !.vary = <<Vary({"Accept-Encoding", "Sec-Fetch-Site"})>>],
   [Resp EXCEPT !.vary =
      <<[live |-> FALSE, fields |-> {"Accept-Encoding"}],
        Vary({"Available-Dictionary"})>>],
   [Resp EXCEPT !.length = 1000],
   [Resp EXCEPT !.length = 19],
   [Resp EXCEPT !.length = 1001],
   [Resp EXCEPT !.status = 206],
   [Resp EXCEPT !.status = 500],
   [Resp EXCEPT !.encoded = TRUE],
   [Resp EXCEPT !.header_only = TRUE],
   [Resp EXCEPT !.type = "image"],
   [Resp EXCEPT !.no_transform = TRUE]}
=============================================================================
