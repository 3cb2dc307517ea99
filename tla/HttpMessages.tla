------------------------------ MODULE HttpMessages ------------------------------
(***************************************************************************)
(* src/src/HttpHeader.cpp, src/src/Request.cpp and src/src/Response.cpp:   *)
(* how a message is built, written and parsed while its text arrives.      *)
(***************************************************************************)
EXTENDS Url

\* String2Method and Method2String know the same names.
Methods == {"OPTIONS", "GET", "HEAD", "POST", "PUT", "DELETE", "TRACE", "CONNECT"}

\* Method2String, and the version.  Texts begin with one of them, so their
\* first byte is a symbol of its own: it may arrive alone.
MethodText(method) == IF method = "GET" THEN <<"G", "ET">> ELSE <<method>>
Version == <<"H", "TTP/1.1">>

-----------------------------------------------------------------------------
(* HttpHeader.                                                             *)

EmptyHeader == [complete |-> FALSE, headers |-> << >>, size |-> 0, chunked |-> 0]

\* GetHeader: the value under a name, empty if there is none.
GetHeader(header, name) ==
  LET k == SelectInSeq(header.headers, LAMBDA h : Compare(<<h.name>>, <<name>>))
  IN IF k = 0 THEN << >> ELSE header.headers[k].value

\* SetHeader assigns to a copy when the name is there already: the first value stays.
SetHeader(header, name, value) ==
  IF \E k \in DOMAIN header.headers : Compare(<<header.headers[k].name>>, <<name>>)
  THEN header
  ELSE [header EXCEPT !.headers = Append(@, [name |-> name, value |-> value])]

\* Both ToByteArray and BuildHeaders.
HeaderLines(header) ==
  FoldLeft(LAMBDA text, h : text \o <<h.name, ":", " ">> \o h.value \o CRLF,
           << >>, header.headers)

\* ParseHeaders: each line with a ':' and a name in front of it.
ParseHeaders(header, text, ranges) ==
  LET Line(range) ==
        LET colon == SearchPosition(text, <<":">>, range.start, range.end)
        IN [name  |-> Trim(SubSeq(text, range.start, colon - 1)),
            value |-> Trim(SubSeq(text, colon + 1, range.end)),
            good  |-> colon # 0]
      Add(h, range) ==
        LET line == Line(range)
        IN IF line.good /\ line.name # << >> THEN SetHeader(h, line.name[1], line.value) ELSE h
  IN FoldLeft(Add, header, ranges)

\* Mutant: the lines that have come are taken before all have come.
ParseHeaderEager(header, text, start) ==
  LET pos == SearchPosition(text, CRLF \o CRLF, start, Len(text))
      end == IF pos = 0 THEN Len(text) ELSE pos
  IN [ParseHeaders(header, text, Split(text, CRLF, start, end)) EXCEPT
        !.size = end - start, !.complete = pos # 0]

\* HttpHeader::Parse: nothing happens until the empty line after start has come.
ParseHeader(header, text, start) ==
  LET pos == SearchPosition(text, CRLF \o CRLF, start, Len(text))
      ranges == Split(text, CRLF, start, pos)
  IN IF pos = 0 \/ ranges = << >> THEN [header EXCEPT !.complete = FALSE]
     ELSE [ParseHeaders(header, text, ranges) EXCEPT !.size = pos - start, !.complete = TRUE]

\* GetBodySize
BodySize(header) ==
  LET length == GetHeader(header, "Content-Length")
  IN CASE ~ header.complete -> 0
       [] header.complete /\ length = << >> -> header.chunked
       [] OTHER -> IF Len(length) = 1 /\ IsNumber(length[1]) THEN NumberOf(length) ELSE 0

\* HttpHeader::GetRequestSize: the headers, the empty line and the body.
HeaderRequestSize(header) == header.size + 4 + BodySize(header)

-----------------------------------------------------------------------------
(* Request.                                                                *)

\* The constructor, and Clear.
EmptyRequest == [method |-> "Undefined", url |-> EmptyUrl, version |-> Version,
                 lineLength |-> 0, header |-> EmptyHeader, args |-> NoQuery]

\* ParseRequestLine: three words before the end of the first line; nothing changes
\* if the line is not complete or is wrong.  The third range ends with the CR.
ParseRequestLine(request, text) ==
  LET pos == SearchPosition(text, CRLF, 1, Len(text))
      words == Split(text, <<" ">>, 1, pos)
      methods == {m \in Methods : MethodText(m) = Part(text, words[1])}
  IN IF pos = 0 \/ Len(words) # 3 THEN request
     ELSE IF methods = {} THEN request
     ELSE [request EXCEPT !.method = CHOOSE m \in methods : TRUE,
                          !.url = Parse(Part(text, words[2]), FALSE),
                          !.version = Trim(Part(text, words[3])),
                          !.lineLength = pos - 1]

\* Request::Parse: the line is parsed once, the header until it is complete.
ParseRequest(request, text) ==
  LET Headed(r) == IF r.lineLength = 0 \/ r.header.complete THEN r
                   ELSE [r EXCEPT !.header = ParseHeader(@, text, r.lineLength + 3)]
  IN Headed(IF request.lineLength = 0 THEN ParseRequestLine(request, text) ELSE request)

\* What Parse answers is that the header is complete.
ParsedRequest(request) == request.lineLength # 0 /\ request.header.complete

\* Mutant: the end of the line is counted twice.
RequestSizeLong(request) == request.lineLength + 4 + request.header.size + 4 + BodySize(request.header)

\* Request::GetRequestSize
RequestSize(request) == request.lineLength + 2 + request.header.size + 4 + BodySize(request.header)

\* BuildRequestLine: the path as it is, the query encoded, no fragment.
RequestLine(request) ==
  MethodText(request.method) \o <<" ">> \o NormalizedPath(request.url)
  \o (IF request.url.query = NoQuery THEN << >> ELSE <<"?">> \o Query2String(request.url))
  \o <<" ">> \o request.version \o CRLF

\* Request::Send adds its own headers to the object and writes all of them.
SendHeaders(request) ==
  [request EXCEPT !.header =
     SetHeader(SetHeader(SetHeader(@, "User-Agent", <<"WebSocketCpp", " ", "0.3">>),
                         "Host", request.url.host),
               "Accept", <<"*/*">>)]
RequestText(request) == RequestLine(request) \o HeaderLines(request.header) \o CRLF

-----------------------------------------------------------------------------
(* Response.                                                               *)

\* ResponseCode2String
ResponseCode2String ==
  (100 :> <<"Continue">>) @@ (101 :> <<"Switching", " ", "Protocols">>) @@ (200 :> <<"OK">>)
  @@ (201 :> <<"Created">>) @@ (202 :> <<"Accepted">>)
  @@ (203 :> <<"Non-Authoritative", " ", "Information">>) @@ (204 :> <<"No", " ", "Content">>)
  @@ (205 :> <<"Reset", " ", "Content">>) @@ (206 :> <<"Partial", " ", "Content">>)
  @@ (300 :> <<"Multiple", " ", "Choices">>) @@ (301 :> <<"Moved", " ", "Permanently">>)
  @@ (302 :> <<"Found">>) @@ (303 :> <<"See", " ", "Other">>) @@ (304 :> <<"Not", " ", "Modified">>)
  @@ (305 :> <<"Use", " ", "Proxy">>) @@ (307 :> <<"Temporary", " ", "Redirect">>)
  @@ (400 :> <<"Bad", " ", "Request">>) @@ (401 :> <<"Unauthorized">>)
  @@ (402 :> <<"Payment", " ", "Required">>) @@ (403 :> <<"Forbidden">>)
  @@ (404 :> <<"Not", " ", "Found">>) @@ (405 :> <<"Method", " ", "Not", " ", "Allowed">>)
  @@ (407 :> <<"Proxy", " ", "Authentication", " ", "Required">>)
  @@ (408 :> <<"Request", " ", "Time-out">>) @@ (409 :> <<"Conflict">>) @@ (410 :> <<"Gone">>)
  @@ (411 :> <<"Length", " ", "Required">>) @@ (412 :> <<"Precondition", " ", "Failed">>)
  @@ (413 :> <<"Request", " ", "Entity", " ", "Too", " ", "Large">>)
  @@ (414 :> <<"Request-URI", " ", "Too", " ", "Large">>)
  @@ (415 :> <<"Unsupported", " ", "Media", " ", "Type">>)
  @@ (416 :> <<"Requested", " ", "range", " ", "not", " ", "satisfiable">>)
  @@ (417 :> <<"Expectation", " ", "Failed">>) @@ (500 :> <<"Internal", " ", "Server", " ", "Error">>)
  @@ (501 :> <<"Not", " ", "Implemented">>) @@ (502 :> <<"Bad", " ", "Gateway">>)
  @@ (503 :> <<"Service", " ", "Unavailable">>) @@ (504 :> <<"Gateway", " ", "Time-out">>)
  @@ (505 :> <<"HTTP", " ", "Version", " ", "not", " ", "supported">>)
ReasonPhrase(code) ==
  IF code \in DOMAIN ResponseCode2String THEN ResponseCode2String[code] ELSE << >>

\* InitDefault: 200, but without its phrase.
EmptyResponse == [version |-> Version, code |-> 200, phrase |-> << >>,
                  header |-> SetHeader(EmptyHeader, "Server", <<"WebSocketCpp">>),
                  body |-> << >>, file |-> << >>, size |-> 0]

AddHeader(response, name, value) ==
  [response EXCEPT !.header = SetHeader(@, name, value)]

\* Write: the length header of an earlier call stays what it was.
Write(response, text) ==
  LET body == response.body \o text
  IN AddHeader([response EXCEPT !.body = body], "Content-Length", <<Word(Len(body))>>)

\* AddFile, of a file that exists: its contents will be sent instead of the body.
AddFile(response, text) ==
  AddHeader(AddHeader(AddHeader([response EXCEPT !.file = text],
    "Content-Type", <<"text/plain;charset=utf-8">>), "Content-Length", <<Word(Len(text))>>),
    "Last-Modified", <<"date">>)

SetResponseCode(response, code) ==
  [response EXCEPT !.code = code, !.phrase = ReasonPhrase(code)]

NoContent(response) == AddHeader(response, "Content-Length", <<"0">>)
NotFound(response) == NoContent(SetResponseCode(response, 404))
Unauthorized(response) == NoContent(SetResponseCode(response, 401))
Redirect(response, url) ==
  NoContent(AddHeader(SetResponseCode(response, 301), "Location", url))

\* BuildStatusLine
StatusLine(response) ==
  response.version \o <<" ", Word(response.code), " ">> \o response.phrase \o CRLF

\* Response::Send: the header, then the file or else the body.
ResponseText(response) ==
  StatusLine(response) \o HeaderLines(response.header) \o CRLF
  \o (IF response.file # << >> THEN response.file ELSE response.body)

-----------------------------------------------------------------------------

\* Mutant: only the first word of the phrase is taken.
ParseStatusLineShort(response, text) ==
  LET pos == SearchPosition(text, CRLF, 1, Len(text))
      words == Split(text, <<" ">>, 1, pos)
  IN IF Len(words) < 3 \/ ~ StartsWithNumber(Part(text, words[2])) THEN {}
     ELSE {[response EXCEPT !.version = Trim(Part(text, words[1])),
                            !.code = NumberOf(Part(text, words[2])),
                            !.phrase = Trim(Part(text, words[3]))]}

\* ParseStatusLine: version, number and a phrase of one word or more.
ParseStatusLine(response, text) ==
  LET pos == SearchPosition(text, CRLF, 1, Len(text))
      words == Split(text, <<" ">>, 1, pos)
      Add(phrase, range) == (IF phrase = << >> THEN << >> ELSE Append(phrase, " "))
                            \o Part(text, range)
  IN IF pos = 0 \/ Len(words) < 3 \/ ~ StartsWithNumber(Part(text, words[2])) THEN {}
     ELSE {[response EXCEPT !.version = Trim(Part(text, words[1])),
                            !.code = NumberOf(Part(text, words[2])),
                            !.phrase = Trim(FoldLeft(Add, @, SubSeq(words, 3, Len(words))))]}

LastChunk == <<"0">> \o CRLF \o CRLF

\* DecodeBody of a chunked body, from its first length on: the chunks so far,
\* also when one is longer than what has come.
DecodeChunks(text, start) ==
  LET limit == Len(text) - 5
      chunks[from \in Nat] ==
        LET eol == SearchPosition(text, CRLF, from, Len(text))
            next == eol + 2 + HexNumberOf(SubSeq(text, from, eol - 1))
        IN IF from > limit \/ next - 1 > limit THEN << >>
           ELSE SubSeq(text, eol + 2, next - 1) \o chunks[next + 2]
  IN chunks[start]

\* Response::Parse, which answers [done, response].  A response of known length
\* is taken only when exactly that much has come; a chunked one when the text
\* ends with the last chunk.
ParseResponse(response, text) ==
  LET blank == SearchPosition(text, CRLF \o CRLF, 1, Len(text))
      eol == SearchPosition(text, CRLF, 1, Len(text))
      lined == ParseStatusLine([response EXCEPT !.size = blank + 3], text)
      Headed(r) == [r EXCEPT !.header = ParseHeader(@, text, eol + 2)]
      All(r) == eol + 1 + HeaderRequestSize(r.header)
      first(r) == eol + 1 + r.header.size + 4 + 1
      chunked(r) == GetHeader(r.header, "Transfer-Encoding") = <<"chunked">>
      Fails(r) == [done |-> FALSE, response |-> r]
      Takes(r) == [done |-> TRUE, response |-> r]
      Body(r) ==
        IF ~ r.header.complete \/ Len(text) < All(r) THEN Fails(r)
        ELSE CASE chunked(r) /\ IsSuffix(LastChunk, text) ->
                    LET body == DecodeChunks(text, first(r))
                    IN Takes([r EXCEPT !.body = body, !.header.chunked = Len(body)])
               [] ~ chunked(r) /\ Len(text) = All(r) ->
                    Takes([r EXCEPT !.body = @ \o SubSeq(text, first(r), Len(text))])
               [] OTHER -> Fails(r)
  IN IF blank = 0 \/ lined = {} THEN Fails(response)
     ELSE LET r == CHOOSE r \in lined : TRUE
          IN IF r.header.complete THEN Fails(r) ELSE Body(Headed(r))
=============================================================================
