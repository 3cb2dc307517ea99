---------------------------------- MODULE Url ----------------------------------
(***************************************************************************)
(* src/src/Url.cpp: a URL is parsed into its parts and put together again. *)
(***************************************************************************)
EXTENDS Text

DEFAULT_PORT == 80
DEFAULT_SECURED_PORT == 443

Schemes == {"http", "https", "ws", "wss"}
Secure == {"https", "wss"}

NoQuery == [name \in {} |-> << >>]

\* Clear
EmptyUrl == [initiaized |-> FALSE, scheme |-> "Undefined", user |-> << >>, host |-> << >>,
             port |-> DEFAULT_PORT, path |-> << >>, query |-> NoQuery, fragment |-> << >>]

\* String2Scheme
String2Scheme(text) ==
  IF Len(text) = 1 /\ text[1] \in Schemes THEN text[1] ELSE "Undefined"

\* ParseQuery: a token counts only if '=' splits it into exactly two pieces; the
\* last of a name's values stays.
ParseQuery(text) ==
  LET Pairs(tokens) == [k \in DOMAIN tokens |-> Pieces(tokens[k], "=")]
      Add(query, pair) == (UrlDecode(pair[1]) :> UrlDecode(pair[2])) @@ query
  IN FoldLeft(Add, NoQuery,
              SelectSeq(Pairs(Pieces(text, "&")), LAMBDA pair : Len(pair) = 2))

\* ParsePath: what precedes '?' is the path, what follows the next '#' the fragment.
ParsePath(url, text) ==
  LET q == Find(text, "?", 1)
      h == Find(text, "#", q + 1)
      end == IF h = 0 THEN Len(text) ELSE h - 1
  IN [url EXCEPT !.path = SubSeq(text, 1, IF q = 0 THEN end ELSE q - 1),
                 !.query = IF q = 0 THEN @ ELSE ParseQuery(SubSeq(text, q + 1, end)),
                 !.fragment = IF h = 0 THEN @ ELSE SubSeq(text, h + 1, Len(text)),
                 !.initiaized = TRUE]

\* ParseAuthority: [user@]host[:port].  It fails if the port is not a number,
\* and keeps what comes before.
ParseAuthority(url, text) ==
  LET at == Find(text, "@", 1)
      colon == Find(text, ":", at + 1)
      port == SubSeq(text, colon + 1, Len(text))
      named == [url EXCEPT !.user = SubSeq(text, 1, at - 1),
                           !.host = SubSeq(text, at + 1, IF colon = 0 THEN Len(text) ELSE colon - 1)]
      good == StartsWithNumber(port)
  IN CASE colon = 0 -> [good |-> TRUE, url |-> named]
       [] colon # 0 /\ good -> [good |-> TRUE, url |-> [named EXCEPT !.port = NumberOf(port)]]
       [] OTHER -> [good |-> FALSE, url |-> named]

\* Parse: with full, a scheme comes first, then an authority if "//" follows.
\* The authority ends at the first '/', wherever it is, and at '?' or '#' only
\* if there is no '/'.
Parse(text, full) ==
  LET colon == Find(text, ":", 1)
      scheme == String2Scheme(SubSeq(text, 1, colon - 1))
      based == [EmptyUrl EXCEPT !.scheme = scheme,
                                !.port = IF scheme \in Secure THEN DEFAULT_SECURED_PORT ELSE @]
      remote == IsPrefix(<<"/", "/">>, SubSeq(text, colon + 1, Len(text)))
      begin == colon + 3
      slash == FindOneOf(text, <<"/", "?", "#">>, begin)
      stop == IF slash = 0 THEN Len(text) + 1 ELSE slash
      Then(url, from) == ParsePath(url, SubSeq(text, from, Len(text)))
      Authorized(parsed) == IF ~ parsed.good \/ parsed.url.host = << >> THEN parsed.url
                            ELSE Then(parsed.url, stop)
  IN CASE full /\ (colon = 0 \/ scheme = "Undefined") -> EmptyUrl
       [] full /\ colon # 0 /\ scheme # "Undefined" /\ remote ->
            Authorized(ParseAuthority(based, SubSeq(text, begin, stop - 1)))
       [] OTHER -> IF full THEN Then(based, colon + 1) ELSE Then(EmptyUrl, 1)

-----------------------------------------------------------------------------

\* GetNormalizedPath
NormalizedPath(url) ==
  IF url.path # << >> /\ url.path[1] = "/" THEN url.path ELSE <<"/">> \o url.path

\* Query2String
Query2String(url) ==
  LET Entry(name) == UrlEncode(name) \o <<"=">> \o UrlEncode(url.query[name])
      Add(text, name) == text \o (IF text = << >> THEN << >> ELSE <<"&">>) \o Entry(name)
  IN FoldLeft(Add, << >>, SetToSeq(DOMAIN url.query))
=============================================================================
