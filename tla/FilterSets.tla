----------------------------- MODULE FilterSets -----------------------------
(***************************************************************************)
(* The dashboard's filter state (ui/src/filters.rs).  It lives in the URL, *)
(* as a range and an expression in text; the page decomposes the text into *)
(* chips, one value a dimension, and a remainder it prints back, and       *)
(* writes the two together again.                                          *)
(*                                                                         *)
(* A text is what its reader sees of it: alternatives (||) of conjuncts    *)
(* (&&) of operands.  An operand is a comparison, a group in parentheses,  *)
(* a negated group, or garbage no parser accepts.                          *)
(***************************************************************************)
EXTENDS Filters, SequencesExt

CONSTANTS
  DAY    \* ticks in a day

-----------------------------------------------------------------------------
(* Dimensions.                                                             *)

\* Every dimension a chip can hold, by its field's name.
Dims ==
  {"project", "source", "path", "referrer", "country", "language", "browser",
   "version", "os", "device", "utm_source", "utm_medium", "utm_campaign",
   "app_version", "event"}

AppliesToExceptions(d) ==
  d \in {"project", "source", "browser", "version", "os", "device", "app_version"}

AppliesToDashboard(d) == d # "app_version"

EXCEPTION_FIELDS ==
  {"project", "source", "browser", "version", "os", "device", "app",
   "app_version", "type", "message", "handled"}

DASHBOARD_FIELDS ==
  {"project", "source", "path", "referrer", "country", "language", "browser",
   "version", "os", "device", "utm_source", "utm_medium", "utm_campaign", "event"}

-----------------------------------------------------------------------------
(* Ranges.                                                                 *)

\* A preset's token in the URL to the days it looks back.
Days ==
  [t24h |-> 1, t7d |-> 7, t30d |-> 30, t90d |-> 90, t180d |-> 180, t12m |-> 365]

Tokens == DOMAIN Days \cup {"all"}

Preset(token) == [token |-> token]
Custom(from, to) == [from |-> from, to |-> to]
IsPreset(range) == "token" \in DOMAIN range
DefaultRange == Preset("t7d")
IsRange(range) ==
  \/ IsPreset(range) /\ range = Preset(range.token) /\ range.token \in Tokens
  \/ /\ ~ IsPreset(range) /\ range = Custom(range.from, range.to)
     /\ {range.from, range.to} \subseteq Int /\ range.from < range.to

\* The bucket each preset asks for.
PresetInterval ==
  [t24h |-> "15m", t7d |-> "hour", t30d |-> "4h", t90d |-> "day",
   t180d |-> "day", t12m |-> "week", all |-> "week"]

\* The same density for a zoomed range, by its span.
SpanInterval(span) ==
  CASE span <= 2 * DAY -> "15m"
    [] span > 2 * DAY /\ span <= 14 * DAY -> "hour"
    [] span > 14 * DAY /\ span <= 60 * DAY -> "4h"
    [] span > 60 * DAY /\ span <= 200 * DAY -> "day"
    [] OTHER -> "week"

Resolve(range, now) ==
  CASE IsPreset(range) /\ range.token = "all" ->
         [from |-> 0, to |-> now, interval |-> PresetInterval.all]
    [] IsPreset(range) /\ range.token # "all" ->
         [from |-> now - Days[range.token] * DAY, to |-> now,
          interval |-> PresetInterval[range.token]]
    [] OTHER ->
         [from |-> range.from, to |-> range.to,
          interval |-> SpanInterval(IF range.to > range.from
                                    THEN range.to - range.from ELSE 1)]

-----------------------------------------------------------------------------
(* Texts.                                                                  *)

Word(e)      == << << [k |-> "word", e |-> e] >> >>
Group(text)  == << << [k |-> "group", text |-> text] >> >>
Negated(text) == << << [k |-> "negated", text |-> text] >> >>
Garbage      == << << [k |-> "garbage"] >> >>
Blank        == << >>

\* What writing " || ", or " && ", between two texts makes of them.
OrText(a, b)  == a \o b
AndText(a, b) == Front(a) \o << Last(a) \o Head(b) >> \o Tail(b)
AndTexts(texts) == FoldLeft(AndText, Head(texts), Tail(texts))

OperandsOf(text) == UNION {{text[i][j] : j \in DOMAIN text[i]} : i \in DOMAIN text}
Enclosed(text) == {o.text : o \in {p \in OperandsOf(text) : "text" \in DOMAIN p}}
Subtexts(text) == Within(text, Enclosed)

Parses(text) ==
  \A part \in Subtexts(text) :
    part # Blank /\ \A operand \in OperandsOf(part) : operand.k # "garbage"

\* What the parser reads: && binds before ||, both to the left.
ReadText(whole) ==
  LET Left(Op(_, _), es) == FoldLeft(Op, Head(es), Tail(es))
      read[text \in Subtexts(whole)] ==
        LET Operand(o) ==
              CASE o.k = "word"    -> o.e
                [] o.k = "group"   -> read[o.text]
                [] o.k = "negated" -> Not(read[o.text])
            Conjuncts(c) == Left(And, [j \in DOMAIN c |-> Operand(c[j])])
        IN Left(Or, [i \in DOMAIN text |-> Conjuncts(text[i])])
  IN read[whole]

-----------------------------------------------------------------------------
(* Printing and decomposing.                                               *)

IsComposite(e) == e.k \notin {"prop", "str", "list", "null", "bool", "call"}

\* A composite child goes into parentheses.
PrintText(whole) ==
  LET print[e \in Subexpressions(whole)] ==
        LET Operand(x) == IF IsComposite(x) THEN Group(print[x]) ELSE print[x]
        IN CASE e.k = "and" -> AndText(Operand(e.l), Operand(e.r))
             [] e.k = "or"  -> OrText(Operand(e.l), Operand(e.r))
             [] e.k = "not" -> Negated(print[e.r])
             [] OTHER -> Word(e)
  IN print[whole]

IsTerm(e) ==
  /\ e.k = "cmp" /\ e.op = "==" /\ e.l.k = "prop" /\ e.r.k = "str"
  /\ e.l.name \in Dims

\* The top-level conjuncts: terms a chip can hold, and the rest in print.  A
\* top-level alternative is printed as it stands.
Decompose(whole) ==
  LET pieces[e \in Subexpressions(whole)] ==
        CASE e.k = "and" -> pieces[e.l] \o pieces[e.r]
          [] e.k = "or"  -> << [text |-> OrText(PrintText(e.l), PrintText(e.r))] >>
          [] IsTerm(e)   -> << [dim |-> e.l.name, value |-> e.r.str] >>
          [] OTHER       -> << [text |-> PrintText(e)] >>
  IN pieces[whole]

-----------------------------------------------------------------------------
(* Queries: terms in chip order and the advanced remainder.                *)

NoQuery == [terms |-> << >>, advanced |-> Null]

Drop(terms, d) == SelectSeq(terms, LAMBDA t : t.dim # d)

\* One value a dimension: a new one replaces the old and goes last.
Put(terms, d, value) == Append(Drop(terms, d), [dim |-> d, value |-> value])

\* A text that does not parse is kept whole, for the bar to show.
ParseQuery(text) ==
  LET pieces == Decompose(ReadText(text))
      IsChip(p) == "dim" \in DOMAIN p
      rest == SelectSeq(pieces, LAMBDA p : ~ IsChip(p))
  IN CASE text = Blank -> NoQuery
       [] text # Blank /\ ~ Parses(text) -> [NoQuery EXCEPT !.advanced = text]
       [] OTHER ->
            [terms |-> FoldLeft(LAMBDA ts, p : Put(ts, p.dim, p.value), << >>,
                                SelectSeq(pieces, IsChip)),
             advanced |-> IF rest = << >> THEN Null
                          ELSE AndTexts([i \in DOMAIN rest |-> rest[i].text])]

\* Mutant: the remainder is joined to the chips without parentheses.
ToExpressionBare(query) ==
  LET chips == [i \in DOMAIN query.terms |->
                  Word(Eq(query.terms[i].dim, query.terms[i].value))]
      parts == IF query.advanced = Null THEN chips ELSE Append(chips, query.advanced)
  IN IF parts = << >> THEN Blank ELSE AndTexts(parts)

\* The remainder is set in parentheses when chips stand before it.
ToExpression(query) ==
  LET chips == [i \in DOMAIN query.terms |->
                  Word(Eq(query.terms[i].dim, query.terms[i].value))]
      parts == CASE query.advanced = Null -> chips
                 [] query.advanced # Null /\ chips = << >> -> << query.advanced >>
                 [] OTHER -> Append(chips, Group(query.advanced))
  IN IF parts = << >> THEN Blank ELSE AndTexts(parts)

AdvancedFields(query) ==
  IF query.advanced = Null \/ ~ Parses(query.advanced) THEN {}
  ELSE Referenced(ReadText(query.advanced))

-----------------------------------------------------------------------------
(* The whole filter state and the URL it is written in.                    *)

EmptySet == [range |-> DefaultRange, query |-> NoQuery]

\* The URL's pairs are a record, each Null (q: blank) where it is not written.
\* From and to make a range only together and in order, and then win over a preset.
ParsePairs(pairs) ==
  [range |-> CASE /\ pairs.from # Null /\ pairs.to # Null
                  /\ pairs.from < pairs.to -> Custom(pairs.from, pairs.to)
               [] OTHER -> IF pairs.range \in Tokens THEN Preset(pairs.range)
                           ELSE DefaultRange,
   query |-> ParseQuery(pairs.q)]

\* The pairs the state is written as; the default range is not.
ToPairs(set) ==
  LET preset == IsPreset(set.range)
  IN [range |-> IF preset /\ set.range # DefaultRange THEN set.range.token ELSE Null,
      from |-> IF preset THEN Null ELSE set.range.from,
      to |-> IF preset THEN Null ELSE set.range.to,
      q |-> ToExpression(set.query)]

Has(set, d) == \E i \in DOMAIN set.query.terms : set.query.terms[i].dim = d
ValueOf(set, d) ==
  IF Has(set, d) THEN SelectSeq(set.query.terms, LAMBDA t : t.dim = d)[1].value
  ELSE Null

With(set, d, value) == [set EXCEPT !.query.terms = Put(@, d, value)]
Without(set, d) == [set EXCEPT !.query.terms = Drop(@, d)]
WithoutAdvanced(set) == [set EXCEPT !.query.advanced = Null]
WithQuery(set, query) == [set EXCEPT !.query = query]
WithRange(set, range) == [set EXCEPT !.range = range]

-----------------------------------------------------------------------------
(* What a page sends to its endpoint.                                      *)

\* Only the parts the endpoint can honour: the other chips show inert.
Honoured(query, Applies(_), fields) ==
  [terms |-> SelectSeq(query.terms, LAMBDA t : Applies(t.dim)),
   advanced |-> IF AdvancedFields(query) \subseteq fields THEN query.advanced ELSE Null]

StatsQuery(set, now) ==
  [window |-> Resolve(set.range, now),
   q |-> ToExpression(Honoured(set.query, AppliesToDashboard, DASHBOARD_FIELDS))]

ExceptionsQuery(set, now) ==
  LET window == Resolve(set.range, now)
  IN [from |-> window.from, to |-> window.to,
      q |-> ToExpression(Honoured(set.query, AppliesToExceptions, EXCEPTION_FIELDS))]

\* The error the query bar shows instead of applying a text.
ValidateExpression(text) == text = Blank \/ Parses(text)

\* Applying stays on the inbox and otherwise leads to the dashboard.
ApplyTarget(route) == IF route = "Exceptions" THEN "Exceptions" ELSE "Overview"
=============================================================================
