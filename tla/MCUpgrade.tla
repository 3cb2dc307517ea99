------------------------------- MODULE MCUpgrade -------------------------------
(***************************************************************************)
(* The setups of the run: patterns and paths, queries, answers of handlers,*)
(* addresses, texts that arrive in pieces, and answers of other servers.   *)
(***************************************************************************)
EXTENDS Upgrade

Local == <<"ws", ":", "/", "/", "h">>
Slash == <<"/">>
NoHandler(pattern) == [pattern |-> pattern, calls |-> << >>, returns |-> "none"]
Base == [address |-> Local \o Slash, query |-> NoQuery, routes |-> <<NoHandler(Slash)>>,
         default |-> TRUE, answer |-> << >>, body |-> << >>, pieces |-> FALSE, again |-> FALSE]

Words(symbols, n) == UNION {[1 .. k -> symbols] : k \in 0 .. n}

\* Every short path against patterns with each kind of token.
Patterns == {
  <<"/">>, <<"/", "a">>, <<"*">>, <<"/", "*">>, <<"*", "1">>, <<"/", "*", "/", "a">>,
  <<"/", "{", "v", "}">>, <<"/", "{", "v", ":", "numeric", "}">>,
  <<"/", "{", "v", ":", "alpha", "}", "/", "{", "w", ":", "any", "}">>,
  <<"/", "{", "v", ":", "lower", "}", "{", "w", ":", "numeric", "}">>,
  <<"/", "{", "v", ":", "upper", "}">>,
  <<"/", "(", "a", "|", "1", ")">>, <<"/", "(", "a", "|", "a", "1", ")", "*">>,
  <<"/", "a", "[", "/", "1", "]">>, <<"/", "[", "{", "v", "}", "]", "/">>,
  <<"/", "*", "{", "v", "}">>, <<"/", "{", "v", "}", "/", "(", "a", "|", "1", ")">>,
  <<"/", "{", "}">>, <<"/", "{", "v">>}
RouteSetups ==
  {[Base EXCEPT !.address = Local \o Slash \o path, !.routes = <<NoHandler(pattern)>>] :
     path \in Words({"/", "a", "1", "."}, 4), pattern \in Patterns}

\* Two routes with handlers, the first of which may fail after it bound arguments.
Handlers(calls) ==
  {[pattern |-> pattern, calls |-> calls, returns |-> returns] :
     pattern \in {<<"/", "a">>, <<"/", "{", "v", "}", "/">>, <<"/", "[", "{", "v", "}">>},
     returns \in {"true", "false", "throws", "none"}}
TwoSetups ==
  {[Base EXCEPT !.address = Local \o <<"/", "a">>, !.routes = <<one, two>>] :
     one \in Handlers(<< >>), two \in Handlers(<< >>)}

\* What a handler says, and what the client hears.
Says(op, text, code) == [op |-> op, text |-> text, code |-> code]
Sayings == {Says("Write", <<"b", "b">>, 0), Says("Write", <<CR, LF, CR, LF>>, 0),
            Says("AddFile", <<"f">>, 0), Says("NotFound", << >>, 0), Says("Unauthorized", << >>, 0),
            Says("Redirect", <<"/", "a">>, 0), Says("SetResponseCode", << >>, 500)}
Answering(calls, returns) == <<[pattern |-> Slash, calls |-> calls, returns |-> returns]>>
HandlerSetups ==
  {[Base EXCEPT !.routes = Answering(calls, returns), !.default = default, !.again = TRUE] :
     calls \in {<<one>> : one \in Sayings} \cup {<<one, two>> : one, two \in Sayings},
     returns \in {"true", "false", "throws"}, default \in BOOLEAN}
CodeSetups ==
  {[Base EXCEPT !.routes = Answering(<<Says("SetResponseCode", << >>, code)>>, "true")] :
     code \in DOMAIN ResponseCode2String}

\* Names and values that percent encoding has to carry.
QuerySetups ==
  {[Base EXCEPT !.query = (name :> value) @@ (<<"a">> :> <<"1">>)] :
     name \in {<<"n">>, <<"a", "&">>, <<" ", "b">>}, value \in Words({"a", "&", " ", "=", "+"}, 2)}

\* Addresses with and without each part, right and wrong.
Addresses == {
  <<"h">>, <<"ftp", ":", "/", "/", "h">>, <<"ws", ":", "/", "a">>, <<"ws", ":", "/", "/">>,
  <<"ws", ":", "/", "/", "h", ":", "x">>, <<"ws", ":", "/", "/", "/", "a">>,
  <<"http", ":", "/", "/", "h">>} \cup
  {<<scheme, ":", "/", "/">> \o user \o <<"h">> \o port \o path \o rest :
     scheme \in {"ws", "wss"}, user \in {<< >>, <<"u", "@">>},
     port \in {<< >>, <<":", "80">>, <<":", "443">>, <<":", "8">>}, path \in {<< >>, Slash, <<"/", "a">>},
     rest \in {<< >>, <<"?", "a", "=", "1">>, <<"#", "c">>, <<"?", "a", "=", "1", "&", "b", "=", "/", "#", "c">>}}
AddressSetups == {[Base EXCEPT !.address = address] : address \in Addresses}

\* Texts that arrive in pieces.
PieceSetups ==
  {[Base EXCEPT !.address = Local \o <<"/", "a", "?", "a", "=", "1">>, !.pieces = TRUE,
                !.routes = <<route>>] :
     route \in {NoHandler(<<"/", "{", "v", "}">>), NoHandler(<<"/", "1">>),
                [pattern |-> <<"*">>, calls |-> <<Says("Write", <<"b", "b">>, 0)>>, returns |-> "true"]}}

\* What other servers answer.
Status(words) == Version \o <<" ">> \o words \o CRLF
Line(name, value) == <<name, ":", " ">> \o value \o CRLF
Length(n) == Line("Content-Length", <<Word(n)>>)
OtherAnswer(answer, body) == [Base EXCEPT !.answer = answer, !.body = body]
OtherSetups == {
  OtherAnswer(Status(<<"200", " ", "OK">>) \o Length(1) \o CRLF \o <<"b">>, <<"b">>),
  OtherAnswer(Status(<<"200", " ", "OK">>) \o Length(2) \o CRLF \o <<"b">>, <<"b">>),
  OtherAnswer(Status(<<"101", " ", "Switching", " ", "Protocols">>) \o Line("Upgrade", <<"WebSocket">>)
                \o Line("Connection", <<"Upgrade">>)
                \o Line("Sec-WebSocket-Accept", Accept(Key(1))) \o CRLF, << >>),
  OtherAnswer(Status(<<"200", " ", "OK">>) \o Line("Transfer-Encoding", <<"chunked">>) \o CRLF
                \o <<"2">> \o CRLF \o <<"b", "c">> \o CRLF \o LastChunk, <<"b", "c">>),
  OtherAnswer(Status(<<"200", " ", "OK">>) \o Line("Transfer-Encoding", <<"chunked">>) \o CRLF
                \o <<"2">> \o CRLF \o <<"b", "c">> \o CRLF \o <<"1">> \o CRLF \o <<"d">> \o CRLF
                \o LastChunk, <<"b", "c", "d">>),
  OtherAnswer(Status(<<"200", " ", "OK">>) \o Line("Transfer-Encoding", <<"chunked">>) \o CRLF
                \o <<HexWord(16)>> \o CRLF \o [k \in 1 .. 16 |-> "b"] \o CRLF \o LastChunk,
              [k \in 1 .. 16 |-> "b"]),
  OtherAnswer(Status(<<"x", " ", "OK">>) \o CRLF, << >>)}

MCSetups == RouteSetups \cup TwoSetups \cup HandlerSetups \cup CodeSetups \cup QuerySetups
              \cup AddressSetups \cup PieceSetups \cup OtherSetups
=============================================================================
