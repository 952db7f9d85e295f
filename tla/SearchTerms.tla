---- MODULE SearchTerms ----
(***************************************************************************)
(* The search language of lib/log-search.ts and the filter editor's drafts *)
(* of lib/log-filter.ts.  A text is a sequence of characters, where a key  *)
(* such as "attributes.k" is one character and a number one digit; a value *)
(* of a log is Absent, a text, or [n |-> i] for the number i.              *)
(***************************************************************************)
EXTENDS Integers, Sequences, SequencesExt, FiniteSets

CONSTANTS
    Fields,        \* keys of logFields
    NumericFields, \* those whose column is a number
    Attributes     \* keys "attributes.x" and "resource.x"

ASSUME SearchTermsAssumption == NumericFields \subseteq Fields

Absent == [absent |-> TRUE]
Number(i) == [n |-> i]
Text(s) == [s |-> s]

Digits == <<"0", "1", "2", "3">>
Quote == "\""
Escape == "\\"

\* logNumberPattern, and Number().
IsNumber(s) == Len(s) = 1 /\ s[1] \in Range(Digits)
ToNumber(s) == (CHOOSE i \in DOMAIN Digits : Digits[i] = s[1]) - 1
String(i) == <<Digits[i + 1]>>

----
(* JSON.stringify and JSON.parse of a text.                                *)

stringify(s) ==
    LET escaped(c) == IF c \in {Quote, Escape} THEN <<Escape, c>> ELSE <<c>>
    IN  <<Quote>> \o FoldLeft(LAMBDA acc, c : acc \o escaped(c), <<>>, s) \o <<Quote>>

\* A quoted text, which ends at its first bare quote; <<>> when it is no JSON.
jsonParse(s) ==
    LET step(acc, c) ==
            IF acc.done THEN [acc EXCEPT !.bad = TRUE]
            ELSE IF acc.escape THEN [acc EXCEPT !.text = Append(@, c), !.escape = FALSE,
                                                !.bad = @ \/ c \notin {Quote, Escape}]
            ELSE IF c = Escape THEN [acc EXCEPT !.escape = TRUE]
            ELSE IF c = Quote THEN [acc EXCEPT !.done = TRUE]
            ELSE [acc EXCEPT !.text = Append(@, c)]
        upTo[n \in 1..Len(s)] ==
            IF n = 1 THEN [text |-> <<>>, escape |-> FALSE, done |-> FALSE, bad |-> FALSE]
            ELSE step(upTo[n - 1], s[n])
        end == upTo[Len(s)]
    IN  IF end.done /\ ~end.bad THEN <<end.text>> ELSE <<>>

----
(* Parsing.                                                                *)

\* The text cut at its spaces, those inside quotes excepted.
tokenize(search) ==
    LET step(acc, c) ==
            IF acc.escaped THEN [acc EXCEPT !.token = Append(@, c), !.escaped = FALSE]
            ELSE IF acc.quoted /\ c = Escape
                   THEN [acc EXCEPT !.token = Append(@, c), !.escaped = TRUE]
            ELSE LET quoted == IF c = Quote THEN ~acc.quoted ELSE acc.quoted
                 IN  IF ~quoted /\ c = " "
                     THEN [acc EXCEPT !.quoted = quoted, !.token = <<>>,
                                      !.tokens = Append(@, acc.token)]
                     ELSE [acc EXCEPT !.quoted = quoted, !.token = Append(@, c)]
        upTo[n \in 0..Len(search)] ==
            IF n = 0 THEN [tokens |-> <<>>, token |-> <<>>, quoted |-> FALSE, escaped |-> FALSE]
            ELSE step(upTo[n - 1], search[n])
        end == upTo[Len(search)]
    IN  [open |-> end.quoted,
         tokens |-> SelectSeq(Append(end.tokens, end.token), LAMBDA t : t # <<>>)]

\* A token "key:value" or "-key:value" of a known key.
IsTerm(token) ==
    LET field == IF token[1] = "-" THEN Tail(token) ELSE token
    IN  Len(field) >= 2 /\ field[1] \in Fields \cup Attributes /\ field[2] = ":"

\* The term of such a token, or <<>> when its value is missing or no JSON.
parseTerm(token) ==
    LET negated == token[1] = "-"
        field == IF negated THEN Tail(token) ELSE token
        raw == SubSeq(field, 3, Len(field))
        quoted == raw # <<>> /\ raw[1] = Quote
        wildcardString == Len(raw) >= 2 /\ raw[1] = "~" /\ raw[2] = Quote
        value == IF quoted THEN jsonParse(raw)
                 ELSE IF wildcardString THEN jsonParse(Tail(raw)) ELSE <<raw>>
    IN  IF raw = <<>> \/ value = <<>> THEN <<>>
        ELSE <<[key |-> field[1], value |-> value[1], quoted |-> quoted, negated |-> negated]>>

join(texts) ==
    FoldLeft(LAMBDA acc, t : IF acc = <<>> THEN t ELSE acc \o <<" ">> \o t, <<>>, texts)

\* One bad token, or no term at all, makes the whole search a plain text.
parseLogSearch(search) ==
    LET split == tokenize(search)
        isTerm == SelectSeq(split.tokens, IsTerm)
        terms == [i \in DOMAIN isTerm |-> parseTerm(isTerm[i])]
        text == SelectSeq(split.tokens, LAMBDA t : ~IsTerm(t) /\ t # <<"AND">>)
    IN  IF split.open \/ isTerm = <<>> \/ \E i \in DOMAIN terms : terms[i] = <<>>
        THEN [plain |-> search, terms |-> <<>>]
        ELSE [plain |-> join(text), terms |-> [i \in DOMAIN terms |-> terms[i][1]]]

serializeLogTerm(term) ==
    (IF term.negated THEN <<"-">> ELSE <<>>) \o <<term.key, ":">>
        \o (IF term.quoted THEN stringify(term.value)
            ELSE IF Range(term.value) \cap {" ", Quote} # {} THEN <<"~">> \o stringify(term.value)
            ELSE term.value)

----
(* Matching.                                                               *)

\* How the operators are written.
Comparisons == [op \in {">", ">=", "<", "<="} |->
    CASE op = ">" -> <<">">> [] op = "<" -> <<"<">>
      [] op = ">=" -> <<">", "=">> [] op = "<=" -> <<"<", "=">>]

\* ">2", "<=1", ...: the operator and its number, or <<>>.
logComparison(term) ==
    LET rest(op) == SubSeq(term.value, Len(Comparisons[op]) + 1, Len(term.value))
        read == {op \in DOMAIN Comparisons :
                    IsPrefix(Comparisons[op], term.value) /\ IsNumber(rest(op))}
    IN  IF term.quoted \/ read = {} THEN <<>>
        ELSE LET op == CHOOSE op \in read : TRUE
             IN  <<[operator |-> op, value |-> ToNumber(rest(op))]>>

Compares(c, i) ==
    CASE c.operator = ">" -> i > c.value [] c.operator = ">=" -> i >= c.value
      [] c.operator = "<" -> i < c.value [] c.operator = "<=" -> i <= c.value

\* The regular expression of a pattern: in an unquoted one "*" is any text.
Glob(pattern, quoted, s) ==
    LET m[p \in 0..Len(pattern), i \in 0..Len(s)] ==
            IF p = 0 THEN i = 0
            ELSE IF ~quoted /\ pattern[p] = "*" THEN m[p - 1, i] \/ (i > 0 /\ m[p, i - 1])
            ELSE i > 0 /\ s[i] = pattern[p] /\ m[p - 1, i - 1]
    IN  m[Len(pattern), Len(s)]

IsNumeric(value) == DOMAIN value = {"n"}
AsText(value) == IF IsNumeric(value) THEN String(value.n) ELSE value.s

termMatches(term, value) ==
    LET comparison == logComparison(term)
    IN  /\ value # Absent
        /\ IF comparison # <<>> THEN IsNumeric(value) /\ Compares(comparison[1], value.n)
           ELSE IF ~term.quoted /\ term.value = <<"*">> THEN TRUE
           ELSE IF term.key \in NumericFields /\ IsNumber(term.value)
             THEN IsNumeric(value) /\ value.n = ToNumber(term.value)
           ELSE Glob(term.value, term.quoted, AsText(value))

createTermMatcher(term, value) == termMatches(term, value) # term.negated

\* The text of a search is looked for in every text of the log.
Includes(s, q) == \E i \in 0..(Len(s) - Len(q)) : SubSeq(s, i + 1, i + Len(q)) = q

\* A log is a function from its keys to their values.
logTermValue(log, term) == IF term.key \in DOMAIN log THEN log[term.key] ELSE Absent

\* The matcher of a parsed search.
createLogSearchMatcher(parsed, log) ==
    /\ parsed.plain = <<>>
       \/ \E k \in DOMAIN log : log[k] # Absent /\ Includes(AsText(log[k]), parsed.plain)
    /\ \A i \in DOMAIN parsed.terms :
           createTermMatcher(parsed.terms[i], logTermValue(log, parsed.terms[i]))

----
(* The filter editor.                                                      *)

Negated == {"is_not", "not_contains", "not_exists", "not_matches"}

\* Bug: a comparison is shown as one, negated or not.
filterDraftPositive(term) ==
    LET comparison == logComparison(term)
        v == term.value
        draft(yes, no, value) ==
            [key |-> term.key, operator |-> IF term.negated THEN no ELSE yes, value |-> value]
    IN  IF comparison # <<>>
          THEN [key |-> term.key, operator |-> comparison[1].operator,
                value |-> String(comparison[1].value)]
        ELSE IF ~term.quoted /\ v = <<"*">> THEN draft("exists", "not_exists", <<>>)
        ELSE IF ~term.quoted /\ "*" \in Range(v) THEN draft("matches", "not_matches", v)
        ELSE draft("is", "is_not", v)

filterDraft(term) ==
    LET comparison == logComparison(term)
        v == term.value
        draft(yes, no, value) ==
            [key |-> term.key, operator |-> IF term.negated THEN no ELSE yes, value |-> value]
    IN  IF comparison # <<>>
          THEN draft(comparison[1].operator, "not_matches",
                     IF term.negated THEN v ELSE String(comparison[1].value))
        ELSE IF ~term.quoted /\ v = <<"*">> THEN draft("exists", "not_exists", <<>>)
        ELSE IF ~term.quoted /\ v # <<>> /\ v[1] = "*" /\ Last(v) = "*"
          THEN draft("contains", "not_contains", SubSeq(v, 2, Len(v) - 1))
        ELSE IF ~term.quoted /\ "*" \in Range(v) THEN draft("matches", "not_matches", v)
        ELSE draft("is", "is_not", v)

filterDraftError(draft) ==
    \/ draft.key \notin Fields \cup Attributes
    \/ draft.operator \in DOMAIN Comparisons
       /\ (draft.key \in Fields \ NumericFields \/ ~IsNumber(draft.value))
    \/ draft.operator \in {"contains", "not_contains", "matches", "not_matches"}
       /\ draft.value = <<>>

draftTerm(draft) ==
    [key |-> draft.key,
     value |-> CASE draft.operator \in {"exists", "not_exists"} -> <<"*">>
                 [] draft.operator \in {"contains", "not_contains"} ->
                      <<"*">> \o draft.value \o <<"*">>
                 [] draft.operator \in DOMAIN Comparisons -> Comparisons[draft.operator] \o draft.value
                 [] OTHER -> draft.value,
     quoted |-> draft.operator \in {"is", "is_not"},
     negated |-> draft.operator \in Negated]

\* "Filter by" the value of a log.
valueToFilterDraft(key, value) ==
    [key |-> key, operator |-> IF value = Absent THEN "not_exists" ELSE "is",
     value |-> IF value = Absent THEN <<>> ELSE AsText(value)]
====
