---------------------------- MODULE RequestStats ----------------------------
(***************************************************************************)
(* request_stats.cpp: requests per second, counted by each thread in a     *)
(* ring of kNumSlots slots that make up one second, but for the ticks that *)
(* are left over when it is divided (request_stats.cpp:15).  A thread      *)
(* updates its own ring; the sum is taken when no thread is at it.  The    *)
(* clock is an argument and stops at MaxTick.                              *)
(***************************************************************************)
EXTENDS Naturals, FiniteSets, FiniteSetsExt

CONSTANTS Threads, kNumSlots,
          ticksPerSecond,         \* as the clock measured it
          MaxTick, MaxRequests    \* bounds

VARIABLES counts_, now,
          finished      \* the requests: their threads and ticks

vars == <<counts_, now, finished>>

kTicksPerSlot == ticksPerSecond \div kNumSlots
Positions == 0..kNumSlots - 1

Init ==
  /\ counts_ = [t \in Threads |->
                  [base_pos |-> 0, base_tick |-> 0, val |-> [p \in Positions |-> 0]]]
  /\ now = 0 /\ finished = {}

posForTick(t) == (t \div kTicksPerSlot) % kNumSlots
roundTick(t)  == t - (t % kTicksPerSlot)

(* What a loop of incPos() visits on its way from one position to another, *)
(* all of them when the two are the same.                                  *)
Visited(from, to) ==
  {(from + i) % kNumSlots : i \in 1..((to + kNumSlots - from - 1) % kNumSlots) + 1}

(* The slots that have expired.  Mutant: the new position is not zeroed. *)
ExpiredButNew(c) == Visited(c.base_pos, posForTick(now)) \ {posForTick(now)}
Expired(c) ==
  IF c.base_tick + ticksPerSecond < now THEN Positions
  ELSE Visited(c.base_pos, posForTick(now))

Moved(c) ==
  IF now <= c.base_tick + kTicksPerSlot THEN c
  ELSE [base_pos |-> posForTick(now), base_tick |-> roundTick(now),
        val |-> [p \in Positions |-> IF p \in Expired(c) THEN 0 ELSE c.val[p]]]

finishedRequest(t) ==
  /\ Cardinality(finished) < MaxRequests /\ <<t, now>> \notin finished
  /\ LET c == Moved(counts_[t])
     IN counts_' = [counts_ EXCEPT ![t] = [c EXCEPT !.val[c.base_pos] = @ + 1]]
  /\ finished' = finished \union {<<t, now>>}
  /\ UNCHANGED now

Tick == now < MaxTick /\ now' = now + 1 /\ UNCHANGED <<counts_, finished>>

Next == Tick \/ \E t \in Threads : finishedRequest(t)

getStats ==
  LET of(t) ==
        LET c == counts_[t]
            at(p) == c.val[p]
        IN IF now - c.base_tick > ticksPerSecond THEN 0
           ELSE MapThenSumSet(at, Visited(posForTick(now), c.base_pos))
  IN MapThenSumSet(of, Threads)

(* Requests that are less than so many ticks old *)
Recent(ticks) == Cardinality({r \in finished : r[2] + ticks > now})

(* A thread whose last slot began a whole ring ago and not yet more than a *)
(* second: the loop in getStats() goes once around, over every slot.       *)
WholeRing(t) ==
  now - counts_[t].base_tick \in kNumSlots * kTicksPerSlot .. ticksPerSecond

(* Whatever pauses there were, getStats() counts every request younger     *)
(* than all slots but one, and none that is a second old, or two seconds   *)
(* if some thread's whole ring is counted.                                 *)
LastSecondCounted ==
  /\ getStats >= Recent((kNumSlots - 1) * kTicksPerSlot)
  /\ getStats <= Recent(2 * ticksPerSecond)
  /\ (\A t \in Threads : ~WholeRing(t)) => getStats <= Recent(ticksPerSecond)
=============================================================================
