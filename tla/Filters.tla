------------------------------ MODULE Filters ------------------------------
(***************************************************************************)
(* The query language of the reports as the server compiles it             *)
(* (analytics/filter.rs): a parsed expression is folded into a predicate   *)
(* over the event frame.  Strings are opaque; what the code does with      *)
(* their characters (folding case, searching, reading a bare host name) is *)
(* given by the constants.  A predicate is three-valued like the columns   *)
(* it is built from: the rows where it is true and the rows where it is    *)
(* null; a frame keeps the first.                                          *)
(***************************************************************************)
EXTENDS Integers, Sequences, FiniteSets, TLC

CONSTANTS
  Null,            \* a column without a value
  Fold(_),         \* a string in lower case
  Found(_, _, _),  \* a text test (contains, starts, ends, like, matches) of a
                   \* needle on a string, compared exactly
  Bare,            \* the strings that carry no scheme, "" among them
  HostOf(_),       \* the bare host name of a canonical source URI
  Projects,        \* the directory: records of id, name and sources' URIs
  MaxNesting       \* how deep expressions and texts nest; bounds the model

ASSUME FiltersAssumption == MaxNesting \in Nat

Empty == ""

-----------------------------------------------------------------------------
(* Parsed expressions (the crate filt-rs).                                 *)

Prop(name)        == [k |-> "prop", name |-> name]
Str(value)        == [k |-> "str", str |-> value]
List(values)      == [k |-> "list", items |-> values]
Bool(value)       == [k |-> "bool", bool |-> value]
NullLiteral       == [k |-> "null"]
Cmp(l, op, r)     == [k |-> "cmp", op |-> op, exact |-> FALSE, l |-> l, r |-> r]
CmpExact(l, op, r) == [Cmp(l, op, r) EXCEPT !.exact = TRUE]
Like(l, op, pattern, exact) ==
  [k |-> "like", op |-> op, exact |-> exact, l |-> l, pattern |-> pattern]
And(l, r)         == [k |-> "and", l |-> l, r |-> r]
Or(l, r)          == [k |-> "or", l |-> l, r |-> r]
Not(r)            == [k |-> "not", r |-> r]
Call(args)        == [k |-> "call", args |-> args]
Eq(name, value)   == Cmp(Prop(name), "==", Str(value))

Operands(e) ==
  CASE e.k \in {"cmp", "and", "or"} -> {e.l, e.r}
    [] e.k = "not"  -> {e.r}
    [] e.k = "like" -> {e.l}
    [] e.k = "call" -> e.args
    [] OTHER -> {}

\* All that nests in an expression or a text, itself included.
Within(whole, Direct(_)) ==
  LET down[n \in 0 .. MaxNesting] ==
        IF n = 0 THEN {whole}
        ELSE LET above == down[n - 1] IN above \cup UNION {Direct(x) : x \in above}
  IN down[MaxNesting]
Subexpressions(e) == Within(e, Operands)

-----------------------------------------------------------------------------
(* Fields.                                                                 *)

CommonColumns ==
  [source |-> "source", browser |-> "ua_browser", version |-> "ua_version",
   os |-> "ua_os", device |-> "ua_device"]

\* Each endpoint's vocabulary: a field's name to the column it reads.
Columns ==
  [dashboard |-> CommonColumns @@
     [path |-> "pathname", referrer |-> "referrer_host", country |-> "country",
      language |-> "language", utm_source |-> "utm_source",
      utm_medium |-> "utm_medium", utm_campaign |-> "utm_campaign",
      event |-> "event_name"],
   exceptions |-> CommonColumns @@
     [app |-> "source", app_version |-> "app_version", type |-> "exc_type",
      message |-> "exc_message", handled |-> "exc_handled"]]

\* The fields an endpoint answers for; any other is an error naming these.
Known(fields) == {"project"} \cup DOMAIN Columns[fields]

IsBoolean(column) == column = "exc_handled"

\* A row holds the columns its kind of event has; the others are null.
Val(row, column) == IF column \in DOMAIN row THEN row[column] ELSE Null

IsEvent(row) == row.kind \in {"pixel", "custom"}

-----------------------------------------------------------------------------
(* Three-valued predicates over the rows R of a frame.                     *)

Pred(yes, null) == [k |-> "pred", yes |-> yes, null |-> null]
Sure(yes) == Pred(yes, {})

Negation(R, p) == Pred(R \ (p.yes \cup p.null), p.null)

Conjunction(p, q) ==
  Pred(p.yes \cap q.yes,
       (p.null \cup q.null) \cap (p.yes \cup p.null) \cap (q.yes \cup q.null))

Disjunction(p, q) ==
  LET yes == p.yes \cup q.yes IN Pred(yes, (p.null \cup q.null) \ yes)

\* A test of a column's value: null where the column is.
OnColumn(R, column, Test(_)) ==
  LET null == {r \in R : Val(r, column) = Null}
  IN Pred({r \in R \ null : Test(Val(r, column))}, null)

Absent(R, column)  == {r \in R : Val(r, column) \in {Null, Empty}}
Present(R, column) == Sure(R \ Absent(R, column))

\* A boolean column reads false where it is null.
IsSet(R, column) == {r \in R : Val(r, column) = TRUE}

-----------------------------------------------------------------------------
(* Membership of projects and sources.                                     *)

\* The sources of the project of that name, or else of that id.
ProjectSources(name) ==
  LET named == {p \in Projects : Fold(p.name) = Fold(name)}
      found == IF named # {} THEN named ELSE {p \in Projects : p.id = name}
  IN UNION {p.sources : p \in found}

SourceMembership(R, names) ==
  LET uris == UNION {ProjectSources(name) : name \in names}
      In(uri) == uri \in uris
  IN OnColumn(R, "source", In)

\* A value without a scheme stands for every canonical form of that name.
SourceIn(R, values) ==
  LET In(uri) == \E v \in values :
        IF v \in Bare THEN Fold(v) \in {HostOf(Fold(uri)), Fold(uri)}
                      ELSE Fold(v) = Fold(uri)
  IN OnColumn(R, "source", In)

-----------------------------------------------------------------------------
(* Comparisons.                                                            *)

Cased(exact, value) == IF exact THEN value ELSE Fold(value)

\* "" is the sentinel of absence: on the dashboard of a page's dimension, so
\* that the events, which have none, stay out; for the name it is an event's.
AbsentValue(R, fields, column) ==
  CASE fields = "dashboard" /\ column = "event_name" ->
         {r \in Absent(R, column) : IsEvent(r)}
    [] fields = "dashboard" /\ column # "event_name" ->
         {r \in Absent(R, column) : ~ IsEvent(r)}
    [] OTHER -> Absent(R, column)

StringEq(R, fields, column, value) ==
  LET Same(v) == Fold(v) = Fold(value)
      on == IsSet(R, column)
  IN CASE IsBoolean(column) ->
            Sure(IF Fold(value) = "true" THEN on ELSE R \ on)
       [] ~ IsBoolean(column) /\ value = Empty ->
            Sure(AbsentValue(R, fields, column))
       [] ~ IsBoolean(column) /\ value # Empty /\ column = "source" ->
            SourceIn(R, {value})
       [] OTHER -> OnColumn(R, column, Same)

\* "not that value" holds where the dimension is absent.
StringNe(R, fields, column, value) ==
  LET null == {r \in R : Val(r, column) = Null}
  IN IF value = Empty THEN Present(R, column)
     ELSE Disjunction(Negation(R, StringEq(R, fields, column, value)), Sure(null))

ColumnIn(R, column, exact, values) ==
  LET folded == {Cased(exact, v) : v \in values}
      In(v)  == Cased(exact, v) \in folded
  IN IF column = "source" THEN SourceIn(R, values) ELSE OnColumn(R, column, In)

TextTest(R, column, op, exact, needle) ==
  LET Test(v) == Found(op, Cased(exact, needle), Cased(exact, v))
  IN OnColumn(R, column, Test)

Err == [k |-> "err"]
IsLiteral(node) == node.k \in {"str", "list", "null", "bool"}

\* Comparing two folded operands, a literal on the left being swapped over.
Compare(R, fields, op, exact, left, right) ==
  LET swap    == IsLiteral(left)
      subject == IF swap THEN right ELSE left
      object  == IF swap THEN left ELSE right
      Of(s, operators, o) == subject.k = s /\ op \in operators /\ object.k = o
      nulls   == {r \in R : Val(r, subject.column) = Null}
      on      == IsSet(R, subject.column)
  IN CASE Of("project", {"=="}, "str") -> SourceMembership(R, {object.str})
       [] Of("project", {"!="}, "str") ->
            Negation(R, SourceMembership(R, {object.str}))
       [] Of("project", {"in"}, "list") -> SourceMembership(R, object.items)
       [] Of("column", {"=="}, "str") ->
            StringEq(R, fields, subject.column, object.str)
       [] Of("column", {"!="}, "str") ->
            StringNe(R, fields, subject.column, object.str)
       [] Of("column", {"=="}, "null") -> Sure(nulls)
       [] Of("column", {"!="}, "null") -> Sure(R \ nulls)
       [] Of("column", {"==", "!="}, "bool") /\ IsBoolean(subject.column) ->
            Sure(IF object.bool = (op = "==") THEN on ELSE R \ on)
       [] Of("column", {"in"}, "list") ->
            ColumnIn(R, subject.column, exact, object.items)
       [] Of("column", {"contains", "starts", "ends"}, "str") ->
            TextTest(R, subject.column, op, exact, object.str)
       [] OTHER -> Err

-----------------------------------------------------------------------------
(* The fold.                                                               *)

\* An operand where a condition is wanted.
IntoPredicate(R, node) ==
  CASE node.k = "pred" -> node
    [] node.k = "bool" -> Sure(IF node.bool THEN R ELSE {})
    [] node.k = "column" /\ IsBoolean(node.column) -> Sure(IsSet(R, node.column))
    [] node.k = "column" /\ ~ IsBoolean(node.column) -> Present(R, node.column)
    [] OTHER -> Err

Property(fields, name) ==
  CASE name = "project" -> [k |-> "project"]
    [] name # "project" /\ name \in Known(fields) ->
         [k |-> "column", column |-> Columns[fields][name]]
    [] OTHER -> Err

\* An error anywhere is the answer.
Unless(values, result) == IF Err \in values THEN Err ELSE result

Compile(R, fields, whole) ==
  LET fold[e \in Subexpressions(whole)] ==
        LET l == fold[e.l]
            r == fold[e.r]
            p == IntoPredicate(R, l)
            q == IntoPredicate(R, r)
        IN CASE IsLiteral(e) -> e
             [] e.k = "prop" -> Property(fields, e.name)
             [] e.k = "call" -> Err
             [] e.k = "cmp"  -> Unless({l, r}, Compare(R, fields, e.op, e.exact, l, r))
             [] e.k = "and"  -> Unless({p, q}, Conjunction(p, q))
             [] e.k = "or"   -> Unless({p, q}, Disjunction(p, q))
             [] e.k = "not"  -> Unless({q}, Negation(R, q))
             [] e.k = "like" ->
                  IF l.k = "column" THEN TextTest(R, l.column, e.op, e.exact, e.pattern)
                  ELSE Err
  IN fold[whole]

\* The properties an expression names, for the vocabulary and for the choice of
\* the unique flag.
Referenced(e) == {x.name : x \in {y \in Subexpressions(e) : y.k = "prop"}}

\* The rows a query keeps; an error is answered instead of rows.
CompileQuery(R, fields, e) == IntoPredicate(R, Compile(R, fields, e))
=============================================================================
