------------------------------ MODULE PollLoop ------------------------------
(***************************************************************************)
(* What the polling loop promises, without how a cycle works: the abstract *)
(* specification of Start and trigger in internal/sentinel/sentinel.go.    *)
(***************************************************************************)
EXTENDS Naturals

VARIABLES
  phase,    \* "start", "working", "waiting" or "stopped"
  ctxDone,  \* the loop has been asked to stop
  tick,     \* a tick is waiting
  begun,    \* cycles begun
  full,     \* the last cycle that fetched and handled all of its resources
  live      \* the last cycle began before the loop was asked to stop

vars == <<phase, ctxDone, tick, begun, full, live>>

Init ==
  /\ phase = "start" /\ ctxDone = FALSE /\ tick = FALSE
  /\ begun = 0 /\ full = 0 /\ live = TRUE

Tick == tick' = TRUE /\ UNCHANGED <<phase, ctxDone, begun, full, live>>

Cancel == ctxDone' = TRUE /\ UNCHANGED <<phase, tick, begun, full, live>>

Begin ==
  /\ \/ phase = "start" /\ UNCHANGED tick
     \/ phase = "waiting" /\ tick /\ tick' = FALSE
  /\ phase' = "working"
  /\ begun' = begun + 1
  /\ live' = ~ctxDone
  /\ UNCHANGED <<ctxDone, full>>

End ==
  /\ phase = "working"
  /\ phase' = "waiting"
  /\ UNCHANGED full \/ (live /\ full' = begun)
  /\ UNCHANGED <<ctxDone, tick, begun, live>>

Stop ==
  /\ phase = "waiting" /\ ctxDone
  /\ phase' = "stopped"
  /\ UNCHANGED <<ctxDone, tick, begun, full, live>>

Next == Tick \/ Cancel \/ Begin \/ End \/ Stop

Spec == Init /\ [][Next]_vars /\ WF_vars(Begin) /\ WF_vars(End) /\ SF_vars(Stop)
=============================================================================
