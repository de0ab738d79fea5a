------------------------ MODULE MCStaticNegotiation -------------------------
(* Instances of StaticNegotiation for TLC. *)
EXTENDS StaticNegotiation

Elem(name) == [name |-> name, params |-> <<>>]

Zstd == << <<Elem("zstd")>> >>
Dcz  == << <<Elem("dcz")>> >>
Both == << <<Elem("zstd")>>, <<Elem("dcz")>> >>
Gzip == << <<Elem("gzip")>> >>

Req == [main |-> TRUE, secure |-> TRUE, ae |-> <<>>, avail |-> <<>>,
        site |-> <<>>, bypass |-> FALSE, get |-> TRUE]

MCRequests ==
  {[Req EXCEPT !.ae = a, !.bypass = b] : a \in {Gzip, Zstd}, b \in BOOLEAN}
  \cup {[Req EXCEPT !.ae = a, !.avail = v] :
          a \in {Dcz, Both}, v \in {<<>>, <<1>>, <<2>>, <<1, 1>>}}
  \cup {[Req EXCEPT !.ae = Both, !.avail = <<1>>, !.site = <<"cross-site">>],
        [Req EXCEPT !.ae = Both, !.avail = <<1>>, !.bypass = TRUE],
        [Req EXCEPT !.ae = Zstd, !.main = FALSE],
        [Req EXCEPT !.ae = Zstd, !.get = FALSE]}

Conf == [enable |-> TRUE, min_length |-> 20, max_length |-> UNSET,
         types |-> {"text"}, gzip_vary |-> FALSE, bypass |-> FALSE,
         bypass_vary |-> FALSE, dcz_dicts |-> <<>>,
         dcz_assume_secure |-> FALSE, static |-> "off", dict_bypass |-> FALSE]

Filter ==
  {[Conf EXCEPT !.enable = FALSE],
   [Conf EXCEPT !.gzip_vary = TRUE],
   [Conf EXCEPT !.dcz_dicts = <<3, 1>>],
   [Conf EXCEPT !.dcz_dicts = <<1>>, !.gzip_vary = TRUE, !.bypass = TRUE,
                !.bypass_vary = TRUE]}

MCConfs == {[c EXCEPT !.static = s, !.dict_bypass = d] :
              c \in Filter, s \in {"on", "always"}, d \in BOOLEAN}
           \cup {Conf}

Resp == [status |-> 200, encoded |-> FALSE, length |-> 1000,
         header_only |-> FALSE, type |-> "text", no_transform |-> FALSE,
         vary |-> <<>>, slash |-> FALSE, sidecar |-> TRUE]

MCResponses ==
  {Resp,
   [Resp EXCEPT !.sidecar = FALSE],
   [Resp EXCEPT !.length = 10],
   [Resp EXCEPT !.slash = TRUE],
   [Resp EXCEPT !.vary = <<Vary({"Accept-Encoding"})>>]}
=============================================================================
