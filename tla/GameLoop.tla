------------------------------ MODULE GameLoop ------------------------------
(***************************************************************************)
(* The game loop: real time goes into an accumulator, and comes out of it  *)
(* in steps of one length, each of them a tick of all systems.  A loop is  *)
(* a record; time is counted in parts of a step, Delta of them.            *)
(***************************************************************************)
EXTENDS Integers, Sequences

CONSTANT Delta   \* deltaSeconds

ASSUME DeltaAssumption == Delta \in Nat \ {0}

Loops == [running : BOOLEAN, seen : Nat, left : Nat, tick : Nat, time : Nat, scale : Nat \ {0}]
NewLoop == [running |-> FALSE, seen |-> 0, left |-> 0, tick |-> 0, time |-> 0, scale |-> 1]

\* Time that passes while the loop stands still is not made up for.
Started(loop, now) == IF loop.running THEN loop ELSE [loop EXCEPT !.running = TRUE, !.seen = now]
Stopped(loop) == [loop EXCEPT !.running = FALSE]

\* consume: all the ticks that are due, one after the other.
DueTicks(loop, elapsed) == (loop.left + elapsed * loop.scale) \div Delta
Consumed(loop, elapsed) ==
  [loop EXCEPT !.left = (@ + elapsed * loop.scale) % Delta,
               !.tick = @ + DueTicks(loop, elapsed),
               !.time = @ + Delta * DueTicks(loop, elapsed)]

Framed(loop, now) ==
  IF loop.running THEN [Consumed(loop, now - loop.seen) EXCEPT !.seen = now] ELSE loop

\* A scale that is not positive is an error, and changes nothing.
Scaled(loop, scale) == IF scale > 0 THEN [loop EXCEPT !.scale = scale] ELSE loop

\* A load keeps what is left in the accumulator.
RestoredTo(loop, tick, time) == [loop EXCEPT !.tick = tick, !.time = time]

\* A session: what is done to a loop, one thing at a time.
Did(loop, step) ==
  CASE step.op = "start"   -> Started(loop, step.n)
    [] step.op = "stop"    -> Stopped(loop)
    [] step.op = "frame"   -> Framed(loop, step.n)
    [] step.op = "scale"   -> Scaled(loop, step.n)
    [] step.op = "restore" -> RestoredTo(loop, step.n, Delta * step.n)

Session(steps) ==
  LET after[i \in 0..Len(steps)] == IF i = 0 THEN NewLoop ELSE Did(after[i - 1], steps[i])
  IN  after[Len(steps)]
=============================================================================
