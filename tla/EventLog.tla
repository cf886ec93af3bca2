------------------------------ MODULE EventLog ------------------------------
(***************************************************************************)
(* What the event store promises, with nothing of how it does it.  There   *)
(* is one set of stored events.  A batch enters it whole, each event under *)
(* a sequence number no event ever had before; an event leaves it only     *)
(* when the day it belongs to is past retention.  Sealing the hot window   *)
(* into Parquet, failing half way, crashing and restarting are invisible   *)
(* at this level: they are stuttering steps.                               *)
(***************************************************************************)
EXTENDS Calendar

VARIABLES
  stored,    \* the events a complete scan of both tiers would find
  freeSeq,   \* no event ever stored has a number of freeSeq or above
  clock

logVars == <<stored, freeSeq, clock>>

Event == [seq : Nat, at : Nat]

Init ==
  /\ stored = {}
  /\ freeSeq = 0
  /\ clock = 0

\* A batch becomes visible all at once, under fresh and distinct numbers.
Commit ==
  LET new == stored' \ stored IN
  /\ new # {}
  /\ stored \subseteq stored'
  /\ \A e \in new : freeSeq <= e.seq /\ e.seq < freeSeq'
  /\ \A e, f \in new : e.seq = f.seq => e = f
  /\ UNCHANGED clock

\* Retention takes whole days that are over; nothing else is ever removed.
Expire ==
  /\ stored' \subseteq stored
  /\ \A e \in stored \ stored' : DayOver(Day(e.at), clock)
  /\ UNCHANGED <<freeSeq, clock>>

Tick ==
  /\ clock' > clock
  /\ UNCHANGED <<stored, freeSeq>>

Next == Commit \/ Expire \/ Tick

Spec == Init /\ [][Next]_logVars
=============================================================================
