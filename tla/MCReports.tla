----------------------------- MODULE MCReports -----------------------------
(***************************************************************************)
(* The reports for TLC.  Ticks are coarse: a day has four buckets of an    *)
(* hour and a week 28.                                                     *)
(***************************************************************************)
EXTENDS Reports

MCFold(s) == CASE s = "/A" -> "/a" [] s = "Apps" -> "apps" [] OTHER -> s
MCFound(op, needle, s) == s = needle \/ (op = "starts" /\ needle = "/" /\ s \in {"/a", "/b", "/A"})
MCBare == {"", "a.x", "b.x", "1"}
MCHostOf(uri) ==
  CASE uri = "https://a.x" -> "a.x" [] uri = "https://b.x" -> "b.x"
    [] uri = "pixel://1" -> "1" [] OTHER -> uri

MCProjects ==
  {[id |-> "p1", name |-> "Apps", sources |-> {"https://a.x", "pixel://1"}],
   [id |-> "p2", name |-> "Idle", sources |-> {}]}

MCBuckets ==
  << <<"minute", 1>>, <<"15m", 2>>, <<"hour", 4>>, <<"4h", 8>>, <<"6h", 12>>,
     <<"day", 16>>, <<"week", 112>> >>

Page == [kind |-> "page_load"]
MCShapes ==
  {Page @@ [at |-> 90, source |-> "https://a.x", sid |-> "s1", pathname |-> "/A",
            ua_browser |-> "Fx", ua_version |-> "1",
            is_unique_user |-> TRUE, is_unique_page |-> TRUE],
   Page @@ [at |-> 190, source |-> "https://a.x", sid |-> "s1", pathname |-> "/a",
            is_unique_user |-> FALSE, is_unique_page |-> TRUE],
   Page @@ [at |-> 196, source |-> "https://b.x", sid |-> "s2", pathname |-> "/b",
            ua_browser |-> "Go", ua_version |-> "1",
            is_unique_user |-> TRUE, is_unique_page |-> TRUE],
   [kind |-> "custom", at |-> 200, source |-> "https://a.x", sid |-> "s1",
    pathname |-> "/a", ua_browser |-> "Fx", event_name |-> "Buy"],
   [kind |-> "pixel", at |-> 204, source |-> "pixel://1"],
   [kind |-> "exception", at |-> 206, source |-> "https://a.x", sid |-> "s1",
    exc_group |-> "g", exc_handled |-> TRUE, ua_browser |-> "Fx", app_version |-> "1"],
   [kind |-> "exception", at |-> 207, source |-> "https://b.x", sid |-> "s3",
    exc_group |-> "g", exc_handled |-> FALSE, ua_browser |-> "Go"]}

W(d, v) == Word(Eq(d, v))
MCTyped ==
  {Blank,
   \* a chip with an alternative, and one field the exceptions do not have
   AndText(W("project", "apps"), Group(OrText(W("browser", "Fx"), W("browser", "Go")))),
   \* fields of the exceptions only
   Word(Cmp(Prop("handled"), "==", Bool(TRUE))),
   \* not-equal with absent values, and a text test
   AndText(Word(Cmp(Prop("browser"), "!=", Str("Fx"))),
           Word(Cmp(Prop("path"), "starts", Str("/")))),
   Negated(Word(Cmp(Prop("source"), "in", List({"a.x", "b.x"})))),
   \* alternatives joined by &&
   AndText(Group(OrText(W("browser", "Fx"), W("source", "b.x"))),
           Group(OrText(W("path", "/b"), Word(Prop("version")))))}
MCAdded == {<<"path", "/a">>, <<"app_version", "1">>}
MCClicked == {"version", "event"}
MCWatched == {"version", "event", "path", "source", "project", "browser", "country"}
MCPicked == {Preset("all"), DefaultRange}
\* No start, all time, an inverted and an empty range, and far-away ends.
MCAsks ==
  {[from |-> a[1], to |-> a[2], interval |-> a[3]] :
     a \in {<<Null, 30, "x">>, <<-5, Null, "minute">>, <<0, 99999, "minute">>,
            <<205, 30, "week">>, <<50, 0, "hour">>, <<60, Null, "minute">>}}
=============================================================================
