--------------------------------- MODULE Text ---------------------------------
(***************************************************************************)
(* What Url, Request, Response and HttpHeader take from                    *)
(* src/src/utils/StringUtil.cpp.  A text is a sequence of symbols; a symbol*)
(* is one character, or one word where the code never looks inside it (a   *)
(* method, a header name, a number).  Positions start at 1, and 0 stands   *)
(* for npos and SIZE_MAX.                                                  *)
(***************************************************************************)
EXTENDS Integers, SequencesExt, FiniteSetsExt, TLC

CR == "\r"
LF == "\n"
CRLF == <<CR, LF>>

\* The decimal numbers that occur, as words.
Numbers == 0 .. 599
Word(n) == ToString(n)
IsNumber(w) == \E n \in Numbers : Word(n) = w

\* Those that std::stoi takes with base 16, as words.
HexDigits == <<"0", "1", "2", "3", "4", "5", "6", "7", "8", "9", "a", "b", "c", "d", "e", "f">>
HexWord(n) == IF n < 16 THEN HexDigits[n + 1] ELSE HexDigits[(n \div 16) + 1] \o HexDigits[(n % 16) + 1]
HexNumberOf(text) == CHOOSE n \in 0 .. 255 : HexWord(n) = text[1]

\* String2int, String2uint64: the number a text starts with.
NumberOf(text) == CHOOSE n \in Numbers : Word(n) = text[1]
StartsWithNumber(text) == text # << >> /\ IsNumber(text[1])

\* The first place of part in text, from start on and not past end; see
\* Overruns for a text that is too short.
SearchPosition(text, part, start, end) ==
  LET places == {p \in start .. end - Len(part) + 1 :
                   SubSeq(text, p, p + Len(part) - 1) = part}
  IN IF places = {} THEN 0 ELSE Min(places)

\* How many bytes the symbols of a text stand for.
Bytes(text) == FoldLeft(LAMBDA n, symbol : n + Len(symbol), 0, text)

\* SearchPosition in all of a text that has fewer bytes than part: the last
\* place to look at is computed without sign and wraps, so that the search
\* goes on beyond the text until it finds part there or the process ends.
Overruns(text, part) ==
  text # << >> /\ Len(text) < Len(part) /\ Bytes(text) < Bytes(part)

\* std::string::find
Find(text, ch, start) == SearchPosition(text, <<ch>>, start, Len(text))

\* FindOneOf: the first of the characters that occurs at all decides.
FindOneOf(text, chars, start) ==
  LET found == SelectInSeq(chars, LAMBDA ch : Find(text, ch, start) # 0)
  IN IF found = 0 THEN 0 ELSE Find(text, chars[found], start)

\* Split of a ByteArray: the ranges between the delimiters, both ends included.
Split(text, delimiter, start, end) ==
  LET ranges[from \in Nat] ==
        LET p == SearchPosition(text, delimiter, from, end)
        IN IF p # 0 THEN <<[start |-> from, end |-> p - 1]>> \o ranges[p + Len(delimiter)]
           ELSE IF from <= end THEN <<[start |-> from, end |-> end]>>
           ELSE << >>
  IN IF end <= Len(delimiter) THEN << >> ELSE ranges[start]

Part(text, range) == SubSeq(text, range.start, range.end)

\* Split of a std::string: getline reports no empty piece after the last delimiter.
Pieces(text, delimiter) ==
  LET pieces[rest \in Seq(STRING)] ==
        LET p == Find(rest, delimiter, 1)
        IN IF rest = << >> THEN << >>
           ELSE IF p = 0 THEN <<rest>>
           ELSE <<SubSeq(rest, 1, p - 1)>> \o pieces[SubSeq(rest, p + 1, Len(rest))]
  IN pieces[text]

Blank == {" ", "\t", CR, LF}

\* Trim: both ends lose their blanks.
Trim(text) ==
  LET solid == {k \in DOMAIN text : text[k] \notin Blank}
  IN IF solid = {} THEN << >> ELSE SubSeq(text, Min(solid), Max(solid))

\* ToLower and Compare, on the words that occur in both cases.
Lower(w) == CASE w = "Upgrade" -> "upgrade"
              [] w = "WebSocket" -> "websocket"
              [] OTHER -> w
ToLower(text) == [k \in DOMAIN text |-> Lower(text[k])]
Compare(a, b) == ToLower(a) = ToLower(b)

-----------------------------------------------------------------------------
(* Percent encoding.                                                       *)

\* Int2Hex of the characters that IsCharAllowed refuses and that occur.
Int2Hex == (" " :> <<"2", "0">>) @@ ("#" :> <<"2", "3">>) @@ ("%" :> <<"2", "5">>)
           @@ ("&" :> <<"2", "6">>) @@ ("+" :> <<"2", "B">>) @@ ("/" :> <<"2", "F">>)
           @@ ("=" :> <<"3", "D">>) @@ ("?" :> <<"3", "F">>)

\* Mutant: '&' is not encoded.
IsCharAllowedLoose(ch) == ch \notin DOMAIN Int2Hex \ {"&"}

\* IsCharAllowed
IsCharAllowed(ch) == ch \notin DOMAIN Int2Hex

\* UrlEncode: the index is moved past the three new characters and, by the
\* loop, past the one that follows them, which is never encoded.
UrlEncode(text) ==
  LET encode[rest \in Seq(STRING)] ==
        CASE rest = << >> -> << >>
          [] rest # << >> /\ IsCharAllowed(rest[1]) -> <<rest[1]>> \o encode[Tail(rest)]
          [] OTHER -> <<"%">> \o Int2Hex[rest[1]] \o SubSeq(rest, 2, Min({2, Len(rest)}))
                      \o encode[SubSeq(rest, 3, Len(rest))]
  IN encode[text]

\* UrlDecode: the character decoded is looked at again, and every '+' is a
\* space.  It is defined where each '%' is followed by a code; anything else
\* would keep the loop at the same '%' for ever.
UrlDecode(text) ==
  LET CharOf(hex) == CHOOSE ch \in DOMAIN Int2Hex : Int2Hex[ch] = hex
      decode[rest \in Seq(STRING)] ==
        LET DecodeAt(p) ==
              IF p = 0 THEN rest
              ELSE decode[SubSeq(rest, 1, p - 1) \o <<CharOf(SubSeq(rest, p + 1, p + 2))>>
                          \o SubSeq(rest, p + 3, Len(rest))]
        IN DecodeAt(Find(rest, "%", 1))
      Spaced(plain) == [k \in DOMAIN plain |-> IF plain[k] = "+" THEN " " ELSE plain[k]]
  IN Spaced(decode[text])
=============================================================================
