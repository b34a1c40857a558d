\* Events that nest three deep in actions and callbacks, actions that raise, and
\* a callback that removes itself from a list it is not alone in.
CONSTANTS
  idle = idle
  busy = busy
  done = done
  o1 = o1
  o2 = o2
  o3 = o3
  None = None
  State <- MCState
  Start = idle
  Final <- MCFinal
  Timer <- MCTimer
  timers <- MCTimers
  Observer <- MCObserver
  watch <- MCWatch
  Leaving <- MCLeaving
  MaxDepth = 3
SPECIFICATION Spec
INVARIANTS
  TypeOK
  
  
CHECK_DEADLOCK FALSE
