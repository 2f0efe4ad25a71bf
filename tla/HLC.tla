-------------------------------- MODULE HLC --------------------------------
(***************************************************************************)
(* The hybrid logical clock of core/util/hlc.ts, as operators on values.   *)
(*                                                                         *)
(* A clock state is a physical time and a counter; a stamp is a clock      *)
(* state together with the device that issued it.  The code encodes a      *)
(* stamp as a fixed-width string, so that comparing strings compares the   *)
(* three fields in order: a stamp is a record here and the order is the    *)
(* lexicographic one.  Device identifiers are numbers, because the device  *)
(* is the last field the comparison looks at.                              *)
(***************************************************************************)
EXTENDS Integers

CONSTANTS
    Devices,        \* the devices of one vault
    MaxCounter,     \* MAX_COUNTER, 0xffff in the code
    MaxDrift        \* MAX_DRIFT_MS, one hour in the code

ASSUME HlcAssumption ==
    /\ Devices \subseteq Nat
    /\ MaxCounter \in Nat
    /\ MaxDrift \in Nat

HlcState == [physical : Nat, counter : 0..MaxCounter]

Stamp == [physical : Nat, counter : 0..MaxCounter, device : Devices]

\* The state a clock starts in when nothing was persisted.
ZeroClock == [physical |-> 0, counter |-> 0]

encodeHlc(state, device) ==
    [physical |-> state.physical, counter |-> state.counter, device |-> device]

decodeHlc(stamp) ==
    [physical |-> stamp.physical, counter |-> stamp.counter]

----------------------------------------------------------------------------
\* Order.

\* Mutant: the device does not break ties.
BeforeWithoutDevice(s, t) ==
    \/ s.physical < t.physical
    \/ s.physical = t.physical /\ s.counter < t.counter

\* s is strictly older than t.
Before(s, t) ==
    \/ s.physical < t.physical
    \/ s.physical = t.physical /\ s.counter < t.counter
    \/ s.physical = t.physical /\ s.counter = t.counter /\ s.device < t.device

\* s is not newer than t: the code's compareHlc(s, t) <= 0.
AtMost(s, t) == ~Before(t, s)

\* Clock state a is b or behind b.
NotAhead(a, b) ==
    \/ a.physical < b.physical
    \/ a.physical = b.physical /\ a.counter <= b.counter

\* The newest and the oldest of a finite set of stamps, {} if it has none.
Newest(S) == {s \in S : \A t \in S : AtMost(t, s)}
Oldest(S) == {s \in S : \A t \in S : AtMost(s, t)}

----------------------------------------------------------------------------
\* tick(): stamping a local event.  A counter that would pass MaxCounter
\* throws before the state is assigned.

\* Mutant: the counter is not bounded.
TickNeverThrows(clock, wall) == FALSE

TickThrows(clock, wall) ==
    wall <= clock.physical /\ clock.counter + 1 > MaxCounter

Tick(clock, wall) ==
    IF wall > clock.physical
      THEN [physical |-> wall, counter |-> 0]
      ELSE [physical |-> clock.physical, counter |-> clock.counter + 1]

----------------------------------------------------------------------------
\* observe(): folding a remote stamp into the clock.

Latest(a, b) == IF a >= b THEN a ELSE b

ObservedPhysical(clock, wall, remote) ==
    Latest(wall, Latest(clock.physical, remote.physical))

ObservedCounter(clock, wall, remote) ==
    LET p == ObservedPhysical(clock, wall, remote)
    IN CASE p = clock.physical /\ p = remote.physical ->
                Latest(clock.counter, remote.counter) + 1
         [] p = clock.physical /\ p # remote.physical -> clock.counter + 1
         [] p # clock.physical /\ p = remote.physical -> remote.counter + 1
         [] OTHER -> 0

Drifted(wall, remote) == remote.physical - wall > MaxDrift

\* ClockDriftError, or the counter overflow: either leaves the clock as it was.
ObserveThrows(clock, wall, remote) ==
    \/ Drifted(wall, remote)
    \/ ObservedCounter(clock, wall, remote) > MaxCounter

\* Mutant: the remote stamp is checked and then forgotten.
ObserveNothing(clock, wall, remote) ==
    IF wall > clock.physical THEN [physical |-> wall, counter |-> 0] ELSE clock

Observe(clock, wall, remote) ==
    [physical |-> ObservedPhysical(clock, wall, remote),
     counter  |-> ObservedCounter(clock, wall, remote)]
=============================================================================
