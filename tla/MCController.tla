---------------------------- MODULE MCController ----------------------------
(***************************************************************************)
(* Values of the constants of Controller for TLC.                          *)
(***************************************************************************)
EXTENDS Controller

Sequence == INSTANCE StrapSequences

(* 20, 100 and 200 ms become 1 tick, 250 ms 2, 500 ms 3, 1000 ms 5. *)
Ticks ==
  [ms \in Sequence!Durations |-> IF ms = 0 THEN 0 ELSE 1 + ms \div 250]

AllTemplates == Sequence!DefaultTemplates(Ticks, None)

\* Two ticks for the one delay the lines carry.
DelayTicks == [ms \in {0, 2000} |-> IF ms = 0 THEN 0 ELSE 2]

Retries(n) == <<Word("fault"), Word("recover"), Word("retries"),
                Mark("Equals"), IntegerOf(n)>>

(* Lines of every command, in their short and long forms, with numbers on  *)
(* both sides of each limit, and lines that do not parse.                  *)
Conversation ==
  {<<Word("reboot")>>, <<Word("reboot"), Word("now")>>,
   <<Word("reboot"), Word("delay"), DurationOf(0, 1)>>,
   <<Word("reboot"), Word("delay"), DurationOf(2, 1000)>>,
   <<Word("reboot"), Word("delay"), DurationOf(301, 1000)>>,
   <<Word("reboot"), Word("delay")>>,
   <<Word("recovery"), Word("exit")>>,
   <<Word("fault"), Word("recover")>>, <<Word("fault")>>,
   <<Word("status")>>, <<Word("status"), Word("now")>>,
   <<Word("help")>>, <<Word("help"), Word("fault")>>}
  \cup {Retries(n) : n \in {0, 1, 4, 256}}
=============================================================================
