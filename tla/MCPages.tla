------------------------------ MODULE MCPages ------------------------------
(***************************************************************************)
(* The pages for TLC: two projects with room for a third, and places that  *)
(* differ in one thing each: the chip, the page, what identifies it, or    *)
(* the source alone; and a broken link, that is mended.                    *)
(***************************************************************************)
EXTENDS Pages
MCFirst == [p \in Projects |-> CASE p = "p1" -> "A" [] p = "p2" -> "B" [] OTHER -> Null]
MCPlaces ==
  {Place("Overview", Null, Null, Null), Place("Overview", Null, Null, "A"),
   Place("Exceptions", Null, Null, "A"), Place("Settings", Null, Null, "p1"),
   Place("Exception", "g", "s", Null), Place("Exception", "g", "t", Null),
   Place("Exception", "h", Null, Null), Place("Exception", "h", "t", Null),
   Place("Event", "e", Null, Null), Place("Trace", "x", Null, Null), Place("Pixels", Null, Null, Null)}
=============================================================================
