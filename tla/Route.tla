--------------------------------- MODULE Route ---------------------------------
(***************************************************************************)
(* src/src/Route.cpp: the pattern of a route is parsed into tokens, and a  *)
(* path is matched against them from left to right, without going back.    *)
(***************************************************************************)
EXTENDS Text

Views == {"any", "alpha", "numeric", "string", "upper", "lower"}

\* Clear, but for optional, which stays.
Token == [text |-> << >>, group |-> << >>, type |-> "Default", view |-> "Default",
          optional |-> FALSE]
Cleared(token) == [Token EXCEPT !.optional = token.optional]

\* IsEmpty
EmptyToken(token) == token.type = "Default" /\ token.text = << >> /\ token.group = << >>

\* String2View
String2View(text) == IF Len(text) = 1 /\ text[1] \in Views THEN text[1] ELSE "Default"

-----------------------------------------------------------------------------
(* Parse.  While it runs: the tokens so far, the current one, the text not *)
(* yet in a token, the state, and whether it goes on.                      *)

AddToken(p, text) ==
  LET token == IF text = << >> THEN p.current ELSE [p.current EXCEPT !.text = text]
  IN IF EmptyToken(token) THEN p
     ELSE [p EXCEPT !.tokens = Append(@, token), !.current = Cleared(token)]

\* The text becomes a token of its own.
Flush(p) == [AddToken(p, p.str) EXCEPT !.str = << >>]

Keep(p, ch)  == [p EXCEPT !.str = Append(@, ch)]
GiveUp(p)    == [p EXCEPT !.going = FALSE]
GoTo(p, st)  == [p EXCEPT !.state = st]
InVariable(p) == p.state \in {"Variable", "VariableType"}

Wildcard(p) == AddToken([Flush(p) EXCEPT !.current.text = <<"*">>, !.current.type = "Any"], << >>)

OpenOptional(p) ==
  IF p.state = "Optional" THEN GiveUp(p)
  ELSE GoTo([Flush(p) EXCEPT !.current.optional = TRUE], "Optional")

\* ']' is refused after a variable or a group: those have left the state Optional.
CloseOptional(p) ==
  IF p.state # "Optional" THEN GiveUp(p)
  ELSE GoTo([Flush(p) EXCEPT !.current.optional = FALSE], "Default")

OpenVariable(p) ==
  IF InVariable(p) THEN GiveUp(p)
  ELSE GoTo([(IF p.state \in {"Default", "Optional"} THEN Flush(p) ELSE p)
               EXCEPT !.current.type = "Variable"], "Variable")

CloseVariable(p) ==
  LET typed == [p EXCEPT !.current.view = String2View(p.str)]
      plain == [p EXCEPT !.current.text = p.str, !.current.view = "string"]
      named == IF p.state = "VariableType" THEN typed ELSE plain
  IN IF ~ InVariable(p) \/ named.current.text = << >> THEN GiveUp(p)
     ELSE GoTo([AddToken(named, << >>) EXCEPT !.str = << >>], "Default")

Colon(p) ==
  IF p.state # "Variable" THEN Keep(p, ":")
  ELSE GoTo([p EXCEPT !.current.text = p.str, !.str = << >>], "VariableType")

OpenGroup(p) == GoTo([Flush(p) EXCEPT !.current.type = "Group"], "OrGroup")
NextMember(p) == [p EXCEPT !.current.group = Append(@, p.str), !.str = << >>]
CloseGroup(p) == GoTo(AddToken(NextMember(p), << >>), "Default")

ParseSymbol(p, ch) ==
  CASE ~ p.going -> p
    [] p.going /\ ch = "*" -> Wildcard(p)
    [] p.going /\ ch = "[" -> OpenOptional(p)
    [] p.going /\ ch = "]" -> CloseOptional(p)
    [] p.going /\ ch = "{" -> OpenVariable(p)
    [] p.going /\ ch = "}" -> CloseVariable(p)
    [] p.going /\ ch = ":" -> Colon(p)
    [] p.going /\ ch = "(" -> OpenGroup(p)
    [] p.going /\ ch = "|" -> NextMember(p)
    [] p.going /\ ch = ")" -> CloseGroup(p)
    [] OTHER -> Keep(p, ch)

\* The tokens of a pattern.  The constructor ignores what Parse answers: a
\* pattern that is given up keeps the tokens it has by then.
Tokens(pattern) ==
  LET start == [tokens |-> << >>, current |-> Token, str |-> << >>, state |-> "Default",
                going |-> TRUE]
      p == FoldLeft(ParseSymbol, start, pattern)
  IN IF p.going /\ p.state = "Default" THEN Flush(p).tokens ELSE p.tokens

-----------------------------------------------------------------------------
(* IsMatch.                                                                *)

Lowers == {"a", "b", "c", "u", "s", "p", "h"}
Uppers == {"A", "B"}
Digits == {"0", "1", "2"}

\* IsAny, IsString, IsAlpha, IsNumeric, IsLower, IsUpper
Admits(view, ch) ==
  CASE view = "any" -> TRUE
    [] view = "alpha" -> ch \in Lowers \cup Uppers
    [] view = "numeric" -> ch \in Digits
    [] view = "upper" -> ch \in Uppers
    [] view = "lower" -> ch \in Lowers
    [] OTHER -> ch \in Lowers \cup Uppers \cup Digits \cup {".", "_", "-"}

NoMatch == -1

\* Mutant: the last character is never looked at.
RunShort(view, text) ==
  LET stops == {k \in DOMAIN text : ~ Admits(view, text[k])}
  IN IF stops = {} THEN Len(text) - 1 ELSE Min(stops) - 1

\* How much of the front of a text a variable takes: all that its view admits.
Run(view, text) ==
  LET stops == {k \in DOMAIN text : ~ Admits(view, text[k])}
  IN IF stops = {} THEN Len(text) ELSE Min(stops) - 1

\* Mutant: a variable may be empty.
MatchedEmpty(token, text, offset) ==
  LET fitting == {w \in ToSet(token.group) : IsPrefix(w, text)}
  IN CASE token.type = "Default" -> IF IsPrefix(token.text, text) THEN Len(token.text) ELSE NoMatch
       [] token.type = "Variable" -> Run(token.view, text)
       [] token.type = "Group" -> IF fitting = {} THEN NoMatch ELSE Max({Len(w) : w \in fitting})
       [] OTHER -> offset

\* Token::IsMatch: how much of the front of a text a token takes.  A group
\* takes its longest member that fits (SortGroup); a wildcard leaves the
\* offset as it was.
Matched(token, text, offset) ==
  LET fitting == {w \in ToSet(token.group) : IsPrefix(w, text)}
  IN CASE token.type = "Default" -> IF IsPrefix(token.text, text) THEN Len(token.text) ELSE NoMatch
       [] token.type = "Variable" -> LET n == Run(token.view, text) IN IF n > 0 THEN n ELSE NoMatch
       [] token.type = "Group" -> IF fitting = {} THEN NoMatch ELSE Max({Len(w) : w \in fitting})
       [] OTHER -> offset

\* Route::IsMatch without the comparison of methods: whether the path matches,
\* and the arguments, which are set token by token and stay when a later
\* token fails.
IsMatch(tokens, path, args) ==
  LET Rest(pos) == SubSeq(path, pos + 1, Len(path))
      Bind(s, token, pos, n) ==
        IF token.type = "Variable"
        THEN [s EXCEPT !.args = (token.text :> SubSeq(path, pos + 1, pos + n)) @@ @] ELSE s
      Take(s, token, pos, n) ==
        [Bind(s, token, pos, n) EXCEPT !.pos = pos + n, !.offset = n]
      \* A wildcard goes to the first place where the token behind it matches.
      Search(s, k) ==
        LET next == tokens[k + 1]
            places == {p \in s.pos .. Len(path) - 1 : Matched(next, Rest(p), s.offset) # NoMatch}
            p == Min(places)
        IN IF k = Len(tokens) THEN [s EXCEPT !.verdict = "yes"]
           ELSE IF places = {} THEN [s EXCEPT !.verdict = "no"]
           ELSE [Take(s, next, p, Matched(next, Rest(p), s.offset)) EXCEPT !.skip = TRUE]
      Step(s, k) ==
        LET n == Matched(tokens[k], Rest(s.pos), s.offset)
        IN CASE s.verdict # "open" -> s
             [] s.verdict = "open" /\ s.skip -> [s EXCEPT !.skip = FALSE]
             [] s.verdict = "open" /\ ~ s.skip /\ tokens[k].type = "Any" -> Search(s, k)
             [] OTHER ->
                  IF n # NoMatch THEN Take(s, tokens[k], s.pos, n)
                  ELSE IF tokens[k].optional THEN s ELSE [s EXCEPT !.verdict = "no"]
      Result(s) == [yes |-> s.verdict = "yes" \/ (s.verdict = "open" /\ s.pos >= Len(path)),
                    args |-> s.args]
  IN Result(FoldLeft(Step, [pos |-> 0, offset |-> 0, skip |-> FALSE, verdict |-> "open",
                            args |-> args],
                     [k \in 1 .. Len(tokens) |-> k]))

-----------------------------------------------------------------------------
(* What a pattern promises, whatever the order in which tokens are tried.  *)

\* The piece of the path belongs to the token.
Belongs(token, piece) ==
  CASE token.type = "Default" -> piece = token.text
    [] token.type = "Variable" -> piece # << >> /\ \A k \in DOMAIN piece : Admits(token.view, piece[k])
    [] token.type = "Group" -> piece \in ToSet(token.group)
    [] OTHER -> TRUE

\* The path is made of one piece for each token; an optional one may have none.
\* Free: which pieces a variable may have.
Divides(tokens, path, Free(_, _)) ==
  LET from[k \in 1 .. Len(tokens) + 1, pos \in 0 .. Len(path)] ==
        IF k > Len(tokens) THEN pos = Len(path)
        ELSE \/ tokens[k].optional /\ from[k + 1, pos]
             \/ \E next \in pos .. Len(path) :
                  LET piece == SubSeq(path, pos + 1, next)
                  IN /\ Belongs(tokens[k], piece)
                     /\ tokens[k].type = "Variable" => Free(tokens[k], piece)
                     /\ from[k + 1, next]
  IN from[1, 0]

Fits(tokens, path) == Divides(tokens, path, LAMBDA token, piece : TRUE)
FitsWith(tokens, path, args) ==
  Divides(tokens, path,
    LAMBDA token, piece : token.text \in DOMAIN args /\ args[token.text] = piece)

\* Taking as much as possible is never wrong: no wildcard but at the end, no
\* optional token, no group with a member in front of another, and what
\* follows a variable begins with a character the variable does not admit.
Plain(tokens) ==
  \A k \in DOMAIN tokens :
    LET token == tokens[k]
        next == tokens[k + 1]
        Begins(ch) == CASE next.type = "Default" -> next.text[1] = ch
                        [] next.type = "Group" -> \E w \in ToSet(next.group) : w = << >> \/ w[1] = ch
                        [] OTHER -> TRUE
    IN /\ ~ token.optional
       /\ token.type = "Any" => k = Len(tokens)
       /\ \A v, w \in ToSet(token.group) : IsPrefix(v, w) => v = w
       /\ token.type = "Variable" /\ k < Len(tokens)
            => \A ch \in Lowers \cup Uppers \cup Digits \cup {"/", ".", "_", "-", "%"} :
                 Begins(ch) => ~ Admits(token.view, ch)
=============================================================================
