------------------------------- MODULE MCAutomat -------------------------------
(* Automat with two working states and a final one, a timer of one state and a  *)
(* timer of two, two observers of every change, the first of which leaves when  *)
(* it is called, and one of the final state.                                    *)
EXTENDS Automat

CONSTANTS idle, busy, done, o1, o2, o3

MCState    == {idle, busy, done}
MCFinal    == {done}
MCTimer    == {"timer-1sec", "timer-10sec"}
MCTimers   == [t \in MCTimer |-> IF t = "timer-1sec" THEN {busy} ELSE {idle, busy}]
MCObserver == {o1, o2, o3}
MCWatch    == [o \in MCObserver |-> IF o = o3 THEN done ELSE None]
MCLeaving  == {o1}
=============================================================================
