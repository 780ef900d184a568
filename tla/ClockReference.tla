--------------------------- MODULE ClockReference ---------------------------
(***************************************************************************)
(* The corrected clock (clock_reference.py): offsets measured by round     *)
(* trips to the venue, kept for a window and applied to the wall clock.    *)
(*                                                                         *)
(* Nothing is absolute: `wall' is how far the wall clock is ahead of the   *)
(* monotonic one, `slip' how far the monotonic one is ahead of true time,  *)
(* and a sample has its age.  Offsets are doubled, for the half of a round *)
(* trip.  Anyone may move the wall clock at any time, also during a round  *)
(* trip, and the paper monitor's thread reads the clock in between.  The   *)
(* venue's clock is right, up to its resolution.                           *)
(***************************************************************************)
EXTENDS Integers, Sequences, FiniteSets, FiniteSetsExt, SequencesExt

CONSTANTS
    WINDOW_SAMPLES, MAX_SAMPLE_AGE, JUMP_TOLERANCE, SERVER_TIME_RESOLUTION, MAX_PLAUSIBLE_OFFSET,
    DRIFT_ALLOWANCE,    \* by how much the monotonic clock may be off after one unit
    MaxUncertainty,     \* clock_max_uncertainty of the policy
    MaxWall,            \* bound on the wall clock's error
    MaxMoves,           \* bound: times the wall clock is moved
    MaxTrip             \* bound on a round trip

ASSUME ClockAssumption ==
    /\ {WINDOW_SAMPLES, MAX_SAMPLE_AGE, MaxTrip} \subseteq Nat \ {0}
    /\ {JUMP_TOLERANCE, SERVER_TIME_RESOLUTION, DRIFT_ALLOWANCE, MaxUncertainty, MaxWall, MaxMoves} \subseteq Nat

VARIABLES
    wall, slip,         \* the clocks
    samples,            \* _samples, the newest last
    anchor,             \* _anchor: `wall' at the last reading
    epochs,             \* the discontinuities seen since the probe was sent
    backward,           \* _backward_pending
    status,             \* _cycle_status
    probe,              \* the round trip in flight
    refusal,            \* history: a rejected measurement and the samples it contradicts
    moves               \* bound

clockVars == <<wall, slip, samples, anchor, epochs, backward, status, probe, refusal, moves>>

NoProbe == [trip |-> -1, wall |-> 0, stamp |-> 0, stamped |-> FALSE, drift |-> 0]
NoRefusal == {}

ClockInit ==
    /\ wall = 0 /\ slip = 0 /\ samples = <<>> /\ anchor = 0 /\ epochs = 0 /\ backward = FALSE
    /\ status = "unavailable" /\ probe = NoProbe /\ refusal = NoRefusal /\ moves = 0

-----------------------------------------------------------------------------
Magnitude(n) == IF n < 0 THEN -n ELSE n

\* _read: a step of the wall clock against the monotonic one beyond the
\* tolerance discards every sample.
Jumped == Magnitude(wall - anchor) > JUMP_TOLERANCE
kept == IF Jumped THEN <<>> ELSE samples

Read ==
    /\ anchor' = wall
    /\ epochs' = IF Jumped THEN 1 ELSE epochs
    /\ backward' = (backward \/ (Jumped /\ wall < anchor))

\* Mutant: what the wall clock moved since the sample is left out.
uncertainty_Unmoved(s) == s.rtt + 2 * (SERVER_TIME_RESOLUTION + s.age * DRIFT_ALLOWANCE)

\* Twice the uncertainty of a sample: the trip's half, the resolution, the
\* ageing and what the wall clock has moved since.
uncertainty(s) ==
    s.rtt + 2 * (SERVER_TIME_RESOLUTION + s.age * DRIFT_ALLOWANCE + Magnitude(wall - s.wall))

Valid(log) == {s \in ToSet(log) : s.age <= MAX_SAMPLE_AGE}
best(log) == CHOOSE s \in Valid(log) : \A o \in Valid(log) : uncertainty(s) <= uncertainty(o)

-----------------------------------------------------------------------------
begin_cycle ==
    /\ probe = NoProbe
    /\ Read /\ samples' = kept /\ status' = "unavailable" /\ refusal' = NoRefusal
    /\ UNCHANGED <<wall, slip, probe, moves>>

start_probe ==
    /\ probe = NoProbe
    /\ anchor' = wall /\ backward' = (backward \/ (Jumped /\ wall < anchor)) /\ samples' = kept
    /\ epochs' = 0
    /\ probe' = [NoProbe EXCEPT !.trip = 0, !.wall = wall]
    /\ UNCHANGED <<wall, slip, status, refusal, moves>>

\* The venue stamps its answer: true time since the request, rounded down, plus
\* the request's own true time less its wall time.
VenueStamps(fraction) ==
    /\ probe.trip >= 0 /\ ~probe.stamped
    /\ probe' = [probe EXCEPT !.stamped = TRUE, !.stamp = probe.trip - slip - fraction]
    /\ UNCHANGED <<wall, slip, samples, anchor, epochs, backward, status, refusal, moves>>

Measured == [off |-> 2 * (probe.stamp - probe.wall) - probe.trip, rtt |-> probe.trip,
             age |-> 0, wall |-> wall,
             shift |-> 2 * (Magnitude(wall - probe.wall) + probe.drift)]

\* The window's samples the new offset interval does not meet.
inconsistent(log) ==
    {o \in Valid(log) : Magnitude(Measured.off - o.off) > Measured.rtt + 2 * SERVER_TIME_RESOLUTION + uncertainty(o)}

\* The answer arrives, with the venue's time or without, and is measured.
finish_probe(answered) ==
    /\ probe.trip >= 0 /\ (answered => probe.stamped)
    /\ anchor' = wall
    /\ LET late == Jumped \/ epochs > 0
           verdict == IF ~answered THEN "unavailable"
                      ELSE IF late THEN "rejected_clock_jump"
                      ELSE IF Magnitude(Measured.off) > 2 * MAX_PLAUSIBLE_OFFSET THEN "rejected_implausible_offset"
                      ELSE IF inconsistent(kept) # {} THEN "rejected_inconsistent_offset"
                      ELSE "applied"
       IN  /\ status' = verdict
           /\ refusal' = IF verdict = "rejected_inconsistent_offset" THEN inconsistent(kept) \cup {Measured} ELSE NoRefusal
           /\ samples' = IF verdict # "applied" THEN kept
                         ELSE LET all == Append(kept, Measured)
                              IN  SubSeq(all, (IF Len(all) > WINDOW_SAMPLES THEN 2 ELSE 1), Len(all))
           /\ backward' = (verdict # "applied" /\ (backward \/ (Jumped /\ wall < anchor)))
    /\ probe' = NoProbe /\ epochs' = 0
    /\ UNCHANGED <<wall, slip, moves>>

\* The request raises: the cycle stays without a measurement.
ProbeFails ==
    /\ probe.trip >= 0 /\ probe' = NoProbe /\ epochs' = 0
    /\ UNCHANGED <<wall, slip, samples, anchor, backward, status, refusal, moves>>

\* now(), sample() and record() read the clock at any other moment.
ReadClock ==
    /\ Read /\ samples' = kept /\ wall # anchor
    /\ UNCHANGED <<wall, slip, status, probe, refusal, moves>>

WallMoves(to) ==
    /\ to # wall /\ wall' = to /\ moves < MaxMoves /\ moves' = moves + 1
    /\ UNCHANGED <<probe, slip, samples, anchor, epochs, backward, status, refusal>>

\* One unit of time, in which the monotonic clock may drift.
TimePasses(drift) ==
    /\ probe.trip < MaxTrip /\ Magnitude(slip + drift) <= DRIFT_ALLOWANCE
    /\ slip' = slip + drift
    /\ samples' = [i \in DOMAIN samples |->
            [samples[i] EXCEPT !.age = IF @ > MAX_SAMPLE_AGE THEN @ ELSE @ + 1]]
    /\ probe' = IF probe.trip < 0 THEN probe
                ELSE [probe EXCEPT !.trip = @ + 1, !.drift = @ + Magnitude(drift)]
    /\ UNCHANGED <<wall, anchor, epochs, backward, status, refusal, moves>>

ClockNext ==
    \/ begin_cycle \/ start_probe \/ ProbeFails \/ ReadClock
    \/ \E fraction \in 0..SERVER_TIME_RESOLUTION : VenueStamps(fraction)
    \/ \E answered \in BOOLEAN : finish_probe(answered)
    \/ \E to \in -MaxWall..MaxWall : WallMoves(to)
    \/ \E drift \in -DRIFT_ALLOWANCE..DRIFT_ALLOWANCE : TimePasses(drift)

ClockSpec == ClockInit /\ [][ClockNext]_clockVars

-----------------------------------------------------------------------------
\* evaluate_clock on sample(), if the clock were read now.
ClockPasses ==
    /\ status = "applied" /\ Valid(kept) # {} /\ ~backward /\ ~Jumped
    /\ uncertainty(best(kept)) <= 2 * MaxUncertainty

\* Twice the error of the corrected clock by sample s.
Error(s) == Magnitude(2 * (wall + slip) + s.off)

\* When the clock passes OC-1, the corrected time is as near to true time as
\* the uncertainty says, whatever moved the wall clock since and however old
\* the sample.  Only what the clocks moved during the round trip itself comes
\* on top: finish_probe compares epochs, and a reading of the paper monitor in
\* the middle divides a move into steps below the tolerance (now, sample,
\* _Sample.uncertainty).  A measurement is refused as inconsistent only if it,
\* or one it contradicts, was disturbed in flight: a steady clock never locks
\* itself out (_consistent).
ClockTrue ==
    /\ ClockPasses => Error(best(kept)) <= uncertainty(best(kept)) + best(kept).shift
    /\ refusal # NoRefusal => \E s \in refusal : s.shift # 0
=============================================================================
