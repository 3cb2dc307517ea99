-------------------------------- MODULE Upgrade --------------------------------
(***************************************************************************)
(* The upgrade of a connection from end to end: WebSocketClient::Open makes*)
(* a request out of a URL and sends it, its text reaches the server in     *)
(* pieces, CheckWsHeader parses what has come, ProcessRequest looks for    *)
(* routes and calls their request handlers, and OnDataReady of the client  *)
(* parses the response.  Threads, time-outs and connections that fail are  *)
(* in WebSocketClient and WebSocketServer; here is what the messages say.  *)
(*                                                                         *)
(* A search of either side may run beyond a text that is too short; it may *)
(* find there what an older message has left, or nothing of use, or end    *)
(* the process.                                                            *)
(***************************************************************************)
EXTENDS HttpMessages, Route

CONSTANTS
  Setups,   \* what the application on each side has set up, see Setup below
  MaxOpens  \* bound: calls of Open

(* A setup has the fields                                                  *)
(*   address  the text given to Open                                       *)
(*   query    names and values given to SetQueryValue                      *)
(*   routes   the server's routes: [pattern, calls, returns], where calls  *)
(*            are made on the Response by the request handler and returns  *)
(*            is "true", "false", "throws" or, without a handler, "none"   *)
(*   default  m_config.GetWsProcessDefault()                               *)
(*   answer   the text some other server answers, empty for this one       *)
(*   body     the body that text stands for                                *)
(*   pieces   the texts may arrive in pieces                               *)
(*   again    the application may close and call Open again                *)
ASSUME MaxOpensAssumption == MaxOpens \in Nat
ASSUME SetupsAssumption ==
  \A s \in Setups :
    DOMAIN s = {"address", "query", "routes", "default", "answer", "body", "pieces", "again"}

VARIABLES
  setup,    \* one of Setups
  \* The client.
  opens,    \* calls of Open so far
  request,  \* the Request given to Open
  key,      \* m_key
  client,   \* m_state
  data,     \* m_data
  response, \* [done, response]: what Response::Parse made of data
  \* The connection.
  up, down, \* text on its way to the server, to the client
  \* The server.
  entry,    \* the RequestData of the connection
  built,    \* the Response that ProcessRequest sent
  called,   \* the routes ProcessRequest found to match: [route, args]
  \* Both sides.
  search    \* search[side]: its searches went "inside" their texts only, or
            \* "beyond" one, or the last of them was "fatal"

clientVars == <<opens, request, key, client, data, response>>
serverVars == <<entry, built, called>>
vars == <<setup, clientVars, up, down, serverVars, search>>

\* m_key of the n-th Open, and what SHA-1 and Base64 make of a key.
Key(n) == <<"key" \o Word(n)>>
Accept(k) == <<"accept">> \o k

EmptyEntry == [data |-> << >>, request |-> EmptyRequest, ready |-> FALSE, handshake |-> FALSE]
NoResponse == [done |-> FALSE, response |-> EmptyResponse]

\* A Request with the URL and the query of the setup.
FreshRequest ==
  LET Queried(url) == [url EXCEPT !.query = setup.query @@ @]
  IN [EmptyRequest EXCEPT !.method = "GET", !.url = Queried(Parse(setup.address, TRUE))]

Init ==
  /\ setup \in Setups
  /\ opens = 0 /\ request = FreshRequest /\ key = << >>
  /\ client = "Undefined" /\ data = << >> /\ response = NoResponse
  /\ up = << >> /\ down = << >>
  /\ entry = EmptyEntry /\ built = EmptyResponse /\ called = << >>
  /\ search = [side \in {"client", "server"} |-> "inside"]

\* How much of a text may arrive at once.
Arriving(text) == IF setup.pieces THEN 1 .. Len(text) ELSE {Len(text)} \ {0}

-----------------------------------------------------------------------------
(* Searches in a text that is too short.                                   *)

Alive(side) == search[side] # "fatal"

\* What may lie behind a text in memory, as far as a search goes: the rest of
\* an older request, or an end of a line that makes nothing of the text.
Behind == {CRLF, <<"ET", " ", "/", "old", " ">> \o Version \o CRLF
                 \o <<"Host", ":", " ", "old">> \o CRLF \o CRLF}

\* What a search for part looks at.
Searched(text, part) == IF Overruns(text, part) THEN {text \o rest : rest \in Behind} ELSE {text}

Search(side, overruns) ==
  \E how \in IF overruns THEN {"beyond", "fatal"} ELSE {search[side]} :
    search' = [search EXCEPT ![side] = how]

-----------------------------------------------------------------------------
(* The client.                                                             *)

\* The headers of Open: those the object has already keep their values.
HandshakeHeaders(header, url, k) ==
  LET Set(h, entryOf) == SetHeader(h, entryOf[1], entryOf[2])
  IN FoldLeft(Set, header,
       << <<"Host", url.host>>, <<"Upgrade", <<"websocket">> >>, <<"Connection", <<"Upgrade">> >>,
          <<"Sec-WebSocket-Key", k>>, <<"Sec-WebSocket-Version", <<"13">> >> >>)

\* InitConnection and Connect: whether there is a server at the address (external).
Reachable(url) == url.scheme \in {"ws", "wss"} /\ url.host # << >>

\* Open, with a new Request or the one of the last time, whose URL need not
\* have been parsed to its end.  The new connection has an entry of its own.
\* m_data is not cleared.
Open ==
  /\ Alive("client") /\ client \in {"Undefined", "Closed"}
  /\ opens < IF setup.again THEN MaxOpens ELSE 1
  /\ Reachable(request.url)
  /\ \E r \in {request, FreshRequest} :
       /\ request' = SendHeaders([r EXCEPT !.header = HandshakeHeaders(@, r.url, Key(opens + 1))])
       /\ up' = RequestText(request')
  /\ opens' = opens + 1
  /\ key' = Key(opens')
  /\ client' = "Handshake"
  /\ down' = << >> /\ entry' = EmptyEntry /\ called' = << >>
  /\ response' = NoResponse /\ built' = EmptyResponse
  /\ UNCHANGED <<setup, data, search>>

\* Open refuses a scheme it does not know, or no host; of an address it also
\* wants that all of it could be parsed.
OpenRefused ==
  /\ client = "Undefined"
  /\ ~ request.url.initiaized \/ ~ Reachable(request.url)
  /\ client' = "Refused"
  /\ UNCHANGED <<setup, opens, request, key, data, response, up, down, serverVars, search>>

\* Mutant: the key of the response is not looked at.
AcceptsAnyKey(r) ==
  /\ r.code = 101
  /\ ToLower(GetHeader(r.header, "Upgrade")) = <<"websocket">>
  /\ ToLower(GetHeader(r.header, "Connection")) = <<"upgrade">>

\* What OnDataReady asks of a response.
Accepts(r) ==
  /\ r.code = 101
  /\ ToLower(GetHeader(r.header, "Upgrade")) = <<"websocket">>
  /\ ToLower(GetHeader(r.header, "Connection")) = <<"upgrade">>
  /\ GetHeader(r.header, "Sec-WebSocket-Accept") = Accept(key)

\* OnDataReady during the handshake: one look at what has come decides, and
\* after a refusal the connection is closed, with m_data as it is.  Behind a
\* text that is too short for its search it finds no response: none is longer
\* than the text.
OnDataReady ==
  /\ Alive("client") /\ client = "Handshake"
  /\ \E n \in Arriving(down) :
       \E parsed \in {ParseResponse(EmptyResponse, data \o SubSeq(down, 1, n))} :
       LET all == data \o SubSeq(down, 1, n)
           good == parsed.done /\ Accepts(parsed.response)
       IN /\ response' = parsed
          /\ client' = IF good THEN "BinaryMessage" ELSE "Closed"
          /\ data' = IF good THEN SubSeq(all, parsed.response.size + 1, Len(all)) ELSE all
          /\ down' = IF good THEN SubSeq(down, n + 1, Len(down)) ELSE << >>
          /\ up' = IF good THEN up ELSE << >>
          /\ Search("client", Overruns(all, CRLF \o CRLF))
  /\ UNCHANGED <<setup, opens, request, key, serverVars>>

\* The application closes the connection.
Close ==
  /\ client = "BinaryMessage" /\ setup.again
  /\ client' = "Closed"
  /\ up' = << >> /\ down' = << >>
  /\ UNCHANGED <<setup, opens, request, key, data, response, serverVars, search>>

-----------------------------------------------------------------------------
(* The server.                                                             *)

Ours == setup.answer = << >>

\* PutToQueue
PutToQueue ==
  /\ Ours /\ Alive("server")
  /\ \E n \in Arriving(up) :
       /\ entry' = [entry EXCEPT !.data = @ \o SubSeq(up, 1, n)]
       /\ up' = SubSeq(up, n + 1, Len(up))
  /\ UNCHANGED <<setup, clientVars, down, built, called, search>>

\* All of the request that was parsed from a text is there.
Whole(r, text) == ParsedRequest(r) /\ Len(text) >= RequestSize(r)

\* CheckWsHeader: the request is cut off once all of it has come.  The first
\* search is for the end of the line.
CheckWsHeader ==
  /\ Alive("server")
  /\ ~ entry.ready /\ ~ entry.handshake /\ entry.data # << >>
  /\ \E r \in IF entry.request.lineLength # 0
              THEN {ParseRequest(entry.request, entry.data)}
              ELSE {ParseRequest(entry.request, text) : text \in Searched(entry.data, CRLF)} :
       entry' = IF Whole(r, entry.data)
                 THEN [data |-> SubSeq(entry.data, RequestSize(r) + 1, Len(entry.data)),
                       request |-> [r EXCEPT !.method = "WEBSOCKET"],
                       ready |-> TRUE, handshake |-> FALSE]
                 ELSE [entry EXCEPT !.request = r]
  /\ Search("server", entry.request.lineLength = 0 /\ Overruns(entry.data, CRLF))
  /\ UNCHANGED <<setup, clientVars, up, down, built, called>>

\* One call of a request handler on the Response.
Call(r, call) ==
  CASE call.op = "Write" -> Write(r, call.text)
    [] call.op = "AddFile" -> AddFile(r, call.text)
    [] call.op = "NotFound" -> NotFound(r)
    [] call.op = "Unauthorized" -> Unauthorized(r)
    [] call.op = "Redirect" -> Redirect(r, call.text)
    [] OTHER -> SetResponseCode(r, call.code)

\* The loop over m_routes: every route that matches is called until a handler
\* answers true; what a handler wrote before it answered false or threw stays.
TryRoutes(r) ==
  LET Tried(s, k, match) ==
        IF ~ match.yes THEN [s EXCEPT !.args = match.args]
        ELSE [s EXCEPT !.args = match.args,
                       !.called = Append(@, [route |-> k, args |-> match.args]),
                       !.response = FoldLeft(Call, @, setup.routes[k].calls),
                       !.processed = setup.routes[k].returns = "true"]
      Try(s, k) ==
        IF s.processed THEN s
        ELSE Tried(s, k, IsMatch(Tokens(setup.routes[k].pattern), r.url.path, s.args))
  IN FoldLeft(Try, [args |-> r.args, response |-> EmptyResponse, called |-> << >>,
                    processed |-> FALSE],
              [k \in 1 .. Len(setup.routes) |-> k])

\* What ProcessRequest adds if a route matches and no handler has processed
\* the request.  Without a match the response stays as it was made: 200.
DefaultAnswer(tried, r) ==
  LET Set(response_, entryOf) == AddHeader(response_, entryOf[1], entryOf[2])
      accept == Accept(GetHeader(r.header, "Sec-WebSocket-Key"))
  IN IF tried.processed \/ tried.called = << >> THEN tried.response
     ELSE IF ~ setup.default THEN NotFound(tried.response)
     ELSE FoldLeft(Set, SetResponseCode(tried.response, 101),
            << <<"Date", <<"date">> >>, <<"Upgrade", <<"websocket">> >>,
               <<"Connection", <<"upgrade">> >>, <<"Sec-WebSocket-Accept", accept>>,
               <<"Sec-WebSocket-Version", <<"13">> >> >>)

\* ProcessRequests and ProcessRequest: whatever is answered, the entry counts
\* as upgraded from now on.
ProcessRequest ==
  /\ Alive("server") /\ entry.ready /\ ~ entry.handshake
  /\ \E tried \in {TryRoutes(entry.request)} :
        /\ built' = DefaultAnswer(tried, entry.request)
        /\ called' = tried.called
        /\ entry' = [entry EXCEPT !.request.args = tried.args, !.ready = FALSE, !.handshake = TRUE]
  /\ down' = IF client = "Handshake" THEN down \o ResponseText(built') ELSE down
  /\ UNCHANGED <<setup, clientVars, up, search>>

\* Some other server has read the request and answers (external).
OtherServerAnswers ==
  /\ ~ Ours /\ up # << >>
  /\ up' = << >> /\ down' = setup.answer
  /\ UNCHANGED <<setup, clientVars, serverVars, search>>

Next ==
  \/ Open \/ OpenRefused \/ OnDataReady \/ Close
  \/ PutToQueue \/ CheckWsHeader \/ ProcessRequest
  \/ OtherServerAnswers

Spec == Init /\ [][Next]_vars

-----------------------------------------------------------------------------
(* Properties.                                                             *)

\* A text that percent encoding brings back: the code encodes no character
\* behind an encoded one, decodes '%' again and takes '+' for a space.
Clean(text) ==
  /\ text # << >> /\ "%" \notin ToSet(text) /\ "+" \notin ToSet(text)
  /\ \A k \in 1 .. Len(text) - 1 : IsCharAllowed(text[k]) \/ IsCharAllowed(text[k + 1])
CleanQuery(url) == \A name \in DOMAIN url.query : Clean(name) /\ Clean(url.query[name])

\* The request line has three words, as ParseRequestLine expects.
Sendable(r) == Cardinality({k \in DOMAIN RequestLine(r) : RequestLine(r)[k] = " "}) = 2

Tried == entry.handshake
Opened == client = "BinaryMessage"
TokensOf(k) == Tokens(setup.routes[k].pattern)

\* However a request is cut on its way, CheckWsHeader ends up with what it
\* would have parsed from the whole, and leaves nothing behind: unless the
\* first byte comes alone and is looked at alone.
PiecesDontMatter ==
  search["server"] = "inside" /\ (entry.ready \/ entry.handshake) =>
    /\ [entry.request EXCEPT !.method = request.method, !.args = NoQuery]
         = ParseRequest(EmptyRequest, RequestText(request))
    /\ entry.data = << >>

\* The request a server dispatches says what the client's Request said: the
\* path, every header, and a query whose names and values encoding preserves;
\* again unless the first byte was looked at alone.
RequestArrives ==
  search["server"] = "inside" /\ (entry.ready \/ entry.handshake) =>
    /\ entry.request.url.path = NormalizedPath(request.url)
    /\ entry.request.header.headers = request.header.headers
    /\ CleanQuery(request.url) => entry.request.url.query = request.url.query

\* A client that counts as open talks to a server that agreed: it looked at
\* this request, with the key of this Open, and if it is ours a route matched
\* and no handler had the last word.
OpenedMeansAgreed ==
  Opened /\ Ours =>
    /\ Tried /\ called # << >> /\ setup.default
    /\ \A c \in ToSet(called) : setup.routes[c.route].returns # "true"
    /\ GetHeader(entry.request.header, "Sec-WebSocket-Key") = key

\* A handler is called only for a path that its pattern describes, and finds
\* under the name of each variable the piece of the path that it stands for.
HandlersSeeTheirArgs ==
  \A c \in ToSet(called) : FitsWith(TokensOf(c.route), entry.request.url.path, c.args)

\* A route is called for every path that its pattern describes, if the pattern
\* is one that needs no second try and no handler before it took the request.
RoutesAreFound ==
  Tried => \A k \in DOMAIN setup.routes :
    \/ ~ Plain(TokensOf(k)) \/ ~ Fits(TokensOf(k), entry.request.url.path)
    \/ \E c \in ToSet(called) : c.route = k
    \/ \E c \in ToSet(called) : c.route < k /\ setup.routes[c.route].returns = "true"

\* The handlers called set the content once at most: Write and AddFile keep
\* the length of the first content.
SetsContentOnce ==
  LET Calls(k) == SelectSeq(setup.routes[k].calls, LAMBDA c : c.op # "SetResponseCode")
  IN Len(FoldLeft(LAMBDA all, c : all \o Calls(c.route), << >>, called)) <= 1

\* What the client makes of a response is what the server built: the code, its
\* phrase, and the file or else the body; of another server, the body it sent.
BodyDelivered ==
  response.done =>
    LET r == response.response
    IN /\ Ours /\ SetsContentOnce =>
            /\ <<r.code, r.phrase>> = <<built.code, built.phrase>>
            /\ r.body = IF built.file # << >> THEN built.file ELSE built.body
       /\ ~ Ours => r.body = setup.body

\* As long as the searches of the server stay in their texts: an attempt whose
\* request line has three words cannot get stuck, until it is decided there is
\* something to deliver, to parse or to dispatch.  With a new Request, a route
\* for its path, and the response in one piece and nothing in front of it, it
\* is not refused.
Routed ==
  /\ Ours /\ setup.default /\ data = ResponseText(built)
  /\ GetHeader(request.header, "Sec-WebSocket-Key") = key
  /\ \A k \in DOMAIN setup.routes : setup.routes[k].returns = "none"
  /\ \E k \in DOMAIN setup.routes :
       Plain(TokensOf(k)) /\ Fits(TokensOf(k), NormalizedPath(request.url))
HandshakeEnds ==
  search["server"] = "inside" =>
    /\ client = "Handshake" /\ Sendable(request) =>
         \/ up # << >> \/ down # << >> \/ entry.ready
         \/ ~ entry.handshake /\ Whole(ParseRequest(entry.request, entry.data), entry.data)
    /\ client = "Closed" => ~ Routed
=============================================================================
