---------------------------- MODULE StrapService ----------------------------
(***************************************************************************)
(* What the strap orchestrator promises the rest of the firmware, without  *)
(* saying how: commands are served one at a time in the order they were    *)
(* accepted, the strap lines are driven only on behalf of the one being    *)
(* served, and the only commands lost are the newest, shed while more than *)
(* Depth wait, or those there is no sequence for.                          *)
(***************************************************************************)
EXTENDS Naturals, Sequences

CONSTANTS
  Lines,      \* the strap lines
  Depth,      \* how many commands may wait for certain
  Idle        \* no command is being served: not a number

VARIABLES
  waiting,    \* the commands accepted and not started, oldest first
  serving,    \* the command whose sequence is running, or Idle
  low,        \* the lines driven low
  accepted    \* how many commands have been accepted

serviceVars == <<waiting, serving, low, accepted>>

ServiceInit ==
  waiting = <<>> /\ serving = Idle /\ low = {} /\ accepted = 0

\* Commands are numbered in the order they are accepted.
Accept ==
  /\ accepted' = accepted + 1
  /\ waiting' = Append(waiting, accepted + 1)
  /\ UNCHANGED <<serving, low>>

Serve ==
  /\ serving = Idle /\ waiting # <<>>
  /\ serving' = Head(waiting)
  /\ waiting' = Tail(waiting)
  /\ UNCHANGED <<low, accepted>>

\* There is no sequence for the oldest command.
Refuse ==
  /\ serving = Idle /\ waiting # <<>>
  /\ waiting' = Tail(waiting)
  /\ UNCHANGED <<serving, low, accepted>>

Shed ==
  \/ waiting' = waiting
  \/ \E n \in Depth..Len(waiting) : waiting' = SubSeq(waiting, 1, n)

Work ==
  /\ serving # Idle
  /\ low' \in SUBSET Lines
  /\ Shed
  /\ UNCHANGED <<serving, accepted>>

Finish ==
  /\ serving # Idle /\ low = {}
  /\ serving' = Idle
  /\ Shed
  /\ UNCHANGED <<low, accepted>>

ServiceNext == Accept \/ Serve \/ Refuse \/ Work \/ Finish

ServiceSpec == ServiceInit /\ [][ServiceNext]_serviceVars
=============================================================================
