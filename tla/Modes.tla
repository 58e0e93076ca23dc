------------------------------- MODULE Modes -------------------------------
(***************************************************************************)
(* The keeper's pure decisions: oracle/mode.ts (which operating mode comes *)
(* next, and which TTL expresses it on chain) and oracle/stale_policy.ts.  *)
(* Times are ages, in one unit: how long ago something happened.           *)
(***************************************************************************)
EXTENDS Integers

CONSTANTS
    ModeMinDwell,    \* 30 s in DEFAULT_THRESHOLDS
    QuietAToB,       \* 180 s
    QuietBToC,       \* 90 s
    StaleHoldoff,    \* 30 s, DEFAULT_STALE_HOLDOFF_MS
    MaxTtl           \* 8, MAX_TTL_SLOTS of the program

ASSUME ModesConstants ==
    /\ ModeMinDwell \in Nat /\ QuietAToB \in Nat
    /\ QuietBToC \in Nat /\ StaleHoldoff \in Nat
    /\ MaxTtl \in Nat \ (0 .. 2)

(* MODE_ORDER; the ordering itself is C < B < A. *)
ModeOrder == [C |-> 0, B |-> 1, A |-> 2]
ModeNames == DOMAIN ModeOrder

MaxMode(m, n) == IF ModeOrder[m] >= ModeOrder[n] THEN m ELSE n

ModeToTtl == [A |-> 1, B |-> 3, C |-> 0]

(* The decision before the calendar: one step up on a signal, one step     *)
(* down when the last upgrade trigger is long enough ago.                  *)
Reactive(current, signal, sinceTrigger) ==
    CASE current = "C" /\ signal -> "B"
      [] current = "B" /\ signal -> "A"
      [] current = "A" /\ sinceTrigger > QuietAToB -> "B"
      [] current = "B" /\ ~signal /\ sinceTrigger > QuietBToC -> "C"
      [] OTHER -> current

DecideMode_NoDwell(current, signal, floor, sinceChange, sinceTrigger) ==
    MaxMode(Reactive(current, signal, sinceTrigger), floor)

DecideMode(current, signal, floor, sinceChange, sinceTrigger) ==
    IF sinceChange < ModeMinDwell
    THEN current
    ELSE MaxMode(Reactive(current, signal, sinceTrigger), floor)

(* evaluateStalePolicy after a push that failed: the age of the first      *)
(* failure since the last success, and whether to give up on the source.   *)
StaleSince(staleFor, none) == IF staleFor = none THEN 0 ELSE staleFor

ForceModeC(staleFor, current) == staleFor > StaleHoldoff /\ current # "C"
=============================================================================
