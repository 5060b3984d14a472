---------------------------- MODULE RateLimiter ----------------------------
(***************************************************************************)
(* FixedWindowRateLimiter: one map per process from the address of a       *)
(* caller to its current window.  allow() has no await, so a call is one   *)
(* step.  Endpoints that share the limiter share its map.                  *)
(*                                                                         *)
(* The clock is Date.now() in ticks; it starts a whole window after        *)
(* lastSweepMs = 0, as every real clock does.                              *)
(***************************************************************************)
EXTENDS Integers, FiniteSets

CONSTANTS
    Sources,           \* addresses (req.ip)
    Limit,             \* calls per window, 0 switches the limiter off
    Window,            \* windowMs
    MaxKeys,           \* maxKeys
    MaxTime            \* bound on the clock

ASSUME LimiterConstantsOK ==
    /\ Limit \in Nat
    /\ Window \in Nat \ {0}
    /\ MaxKeys \in Nat \ {0}
    /\ MaxTime \in Nat

VARIABLES
    clock,
    windows,           \* the map; its domain is the tracked addresses
    lastSweep          \* lastSweepMs

limiterVars == <<clock, windows, lastSweep>>

\* Bound: a count past Limit is refused whatever it is, and stays at Limit + 1.
OneWindow == [start : Nat, count : 1 .. Limit + 1]

\* The map and the times have their types.
LimiterTypeOK ==
    /\ clock \in Nat
    /\ lastSweep \in Nat
    /\ DOMAIN windows \subseteq Sources
    /\ windows \in [DOMAIN windows -> OneWindow]

LimiterInit ==
    /\ clock = Window
    /\ windows = [s \in {} |-> [start |-> 0, count |-> 1]]
    /\ lastSweep = 0

-----------------------------------------------------------------------------
Tracked == DOMAIN windows

Running(s) == clock - windows[s].start < Window

\* The address has a window, and it is not over.
Live(s) == s \in Tracked /\ Running(s)

\* At the cap, and at most once per window.
SweepDue == Cardinality(Tracked) >= MaxKeys /\ clock - lastSweep >= Window

\* Mutant: a sweep empties the map.
KeptNone == IF SweepDue THEN {} ELSE Tracked

\* Mutant: the sweep removes nothing.
KeptAll == Tracked

\* What a sweep, when it is due, leaves in the map.
Kept == IF SweepDue THEN {s \in Tracked : Running(s)} ELSE Tracked

\* Mutant: one address too many.
FailClosedLate(s) == s \notin Tracked /\ Cardinality(Kept) > MaxKeys

\* Only an address without an entry is turned away at the cap.
FailClosed(s) == s \notin Tracked /\ Cardinality(Kept) >= MaxKeys

\* The answer of allow().
Allowed(s) ==
    \/ Limit = 0
    \/ Live(s) /\ windows[s].count < Limit
    \/ ~Live(s) /\ ~FailClosed(s)

CountCall(s) ==
    /\ Live(s)
    /\ windows' = [windows EXCEPT ![s].count = IF @ > Limit THEN @ ELSE @ + 1]
    /\ UNCHANGED lastSweep

\* A new window, or the next one of a known address.
OpenWindow(s) ==
    /\ ~Live(s)
    /\ windows' = [k \in IF FailClosed(s) THEN Kept ELSE Kept \cup {s} |->
                      IF k = s THEN [start |-> clock, count |-> 1] ELSE windows[k]]
    /\ lastSweep' = IF SweepDue THEN clock ELSE lastSweep

\* The whole of allow(), whatever it answers.
Allow(s) ==
    /\ IF Limit = 0 THEN UNCHANGED <<windows, lastSweep>>
                    ELSE CountCall(s) \/ OpenWindow(s)
    /\ UNCHANGED clock

LimiterTick ==
    /\ clock < MaxTime
    /\ clock' = clock + 1
    /\ UNCHANGED <<windows, lastSweep>>

LimiterNext == LimiterTick \/ \E s \in Sources : Allow(s)

LimiterSpec == LimiterInit /\ [][LimiterNext]_limiterVars

-----------------------------------------------------------------------------
(* Properties.                                                             *)

\* The comment on maxKeys: no flood of addresses grows the map past the cap,
\* although an address with an entry is never turned away and its entry may
\* be swept in the very call that writes it again.
KeysBounded == Cardinality(Tracked) <= MaxKeys

\* A sweep is skipped for up to a window, so an address is turned away while
\* entries that could go are still in the map; but never when one of them
\* started two windows ago: no address is locked out for good.
NewcomersWaitTwoWindows ==
    \A s \in Sources : FailClosed(s) =>
        \A k \in Tracked : clock - windows[k].start < 2 * Window

\* Neither a sweep nor a call of another address ends or restarts a window
\* that is still running, nor takes back what was counted in it.
LiveWindowsKept ==
    [][\A s \in Tracked : clock' - windows[s].start < Window =>
          /\ s \in Tracked'
          /\ windows'[s].start = windows[s].start
          /\ windows'[s].count >= windows[s].count]_limiterVars

=============================================================================
