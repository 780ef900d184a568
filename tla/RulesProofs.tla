---------------------------- MODULE RulesProofs ----------------------------
(***************************************************************************)
(* Proofs about the rules of a cycle that its small instances cannot show  *)
(* for every size: the corrected clock, the slot of the local review and   *)
(* what a cycle leaves behind.                                             *)
(***************************************************************************)
EXTENDS ClockReference, Heartbeat, SumTheorems, TLAPS

-----------------------------------------------------------------------------
(* The corrected clock.                                                    *)

\* What a measured sample holds.
Sample == [off : Int, rtt : Nat, age : Nat, wall : Int, shift : Nat]

\* What a round trip in flight holds; `trip' is -1 when there is none.
Probe == [trip : Int, wall : Int, stamp : Int, stamped : BOOLEAN, drift : Nat]

ClockTypeOK ==
    /\ wall \in Int /\ slip \in Int /\ anchor \in Int /\ epochs \in Nat
    /\ backward \in BOOLEAN /\ moves \in Nat
    /\ samples \in Seq(Sample) /\ refusal \in SUBSET Sample
    /\ probe \in Probe

\* A sample's offset is off by no more than its own trip, the resolution and the
\* drift since, besides what moved during its trip.
SampleTrue(s) ==
    s.age <= MAX_SAMPLE_AGE =>
        Magnitude(2 * (s.wall + slip) + s.off)
          <= s.rtt + 2 * (SERVER_TIME_RESOLUTION + s.age * DRIFT_ALLOWANCE) + s.shift

\* A stamp is the true time less the request's wall time, up to the resolution
\* and to what the monotonic clock drifted in the trip, and it was made in the trip.
StampTrue ==
    probe.trip >= 0 /\ probe.stamped =>
        \E at \in 0..probe.trip, fraction \in 0..SERVER_TIME_RESOLUTION, since \in Int :
            /\ probe.stamp = at - slip + since - fraction
            /\ Magnitude(since) <= probe.drift

\* A refusal has a sample that was disturbed in flight.
RefusalTrue == refusal # NoRefusal => \E s \in refusal : s.shift # 0

ClockIInv ==
    /\ ClockTypeOK /\ StampTrue /\ RefusalTrue
    /\ \A i \in DOMAIN samples : SampleTrue(samples[i])

\* The constants of the clock, one by one.
LEMMA ClockConstants ==
    /\ WINDOW_SAMPLES \in Nat /\ MAX_SAMPLE_AGE \in Nat /\ MaxTrip \in Nat
    /\ JUMP_TOLERANCE \in Nat /\ SERVER_TIME_RESOLUTION \in Nat /\ DRIFT_ALLOWANCE \in Nat
    /\ MaxUncertainty \in Nat /\ MaxWall \in Nat /\ MaxMoves \in Nat
BY ClockAssumption DEF ClockAssumption

\* Distances are naturals and obey the triangle inequality.
LEMMA MagnitudeFacts ==
    ASSUME NEW a \in Int, NEW b \in Int
    PROVE  /\ Magnitude(a) \in Nat /\ Magnitude(a + b) <= Magnitude(a) + Magnitude(b)
           /\ a <= Magnitude(a) /\ -a <= Magnitude(a)
BY DEF Magnitude

\* A distance is within what bounds both directions.
LEMMA MagnitudeBound ==
    ASSUME NEW a \in Int, NEW n \in Int, a <= n, -a <= n
    PROVE  Magnitude(a) <= n
BY DEF Magnitude

\* A jump keeps nothing; otherwise the samples stay.
LEMMA KeptTrue ==
    ASSUME ClockIInv
    PROVE  kept \in Seq(Sample) /\ \A i \in DOMAIN kept : SampleTrue(kept[i])
BY DEF ClockIInv, ClockTypeOK, kept

\* The new measurement is as true as a sample should be.
LEMMA MeasuredTrue ==
    ASSUME ClockIInv, probe.trip >= 0, probe.stamped
    PROVE  Measured \in Sample /\ SampleTrue(Measured)
<1>1. /\ probe.trip \in Nat /\ probe.wall \in Int /\ probe.stamp \in Int /\ probe.drift \in Nat
      /\ wall \in Int /\ slip \in Int
  BY DEF ClockIInv, ClockTypeOK, Probe
<1>2. PICK at \in 0..probe.trip, fraction \in 0..SERVER_TIME_RESOLUTION, since \in Int :
        /\ probe.stamp = at - slip + since - fraction
        /\ Magnitude(since) <= probe.drift
  BY DEF ClockIInv, StampTrue
<1>3. PICK d \in Int : d = wall - probe.wall
  BY <1>1
<1>4. Magnitude(d) \in Nat /\ d <= Magnitude(d) /\ -d <= Magnitude(d)
  BY <1>3, MagnitudeFacts
<1>5. since <= probe.drift /\ -since <= probe.drift
  BY <1>1, <1>2 DEF Magnitude
<1>6. Measured \in Sample
  BY <1>1, <1>3, <1>4 DEF Measured, Sample
<1>7. 2 * (Measured.wall + slip) + Measured.off = 2 * d + 2 * since - 2 * fraction + (2 * at - probe.trip)
  BY <1>1, <1>2, <1>3 DEF Measured
<1>8. Measured.rtt + 2 * (SERVER_TIME_RESOLUTION + Measured.age * DRIFT_ALLOWANCE) + Measured.shift
        = probe.trip + 2 * SERVER_TIME_RESOLUTION + 2 * (Magnitude(d) + probe.drift)
  BY <1>1, <1>3, <1>4, ClockConstants DEF Measured
<1>9. at \in Int /\ fraction \in Int /\ 0 <= at /\ at <= probe.trip
      /\ 0 <= fraction /\ fraction <= SERVER_TIME_RESOLUTION
  BY <1>1, ClockConstants
<1>10. PICK e \in Int, n \in Int :
         /\ e = 2 * d + 2 * since - 2 * fraction + (2 * at - probe.trip)
         /\ n = probe.trip + 2 * SERVER_TIME_RESOLUTION + 2 * (Magnitude(d) + probe.drift)
  BY <1>1, <1>4, <1>9, ClockConstants
<1>11. e <= n /\ -e <= n
  BY <1>1, <1>4, <1>5, <1>9, <1>10, ClockConstants
<1>12. Magnitude(e) <= n
  BY <1>11, MagnitudeBound
<1> QED BY <1>6, <1>7, <1>8, <1>10, <1>12 DEF SampleTrue

\* An older sample's offset and a new one differ by no more than their
\* uncertainties when neither was disturbed in flight.
LEMMA Consistent ==
    ASSUME ClockIInv, probe.trip >= 0, probe.stamped, Measured.shift = 0,
           NEW o \in Valid(kept), o.shift = 0
    PROVE  Magnitude(Measured.off - o.off) <= Measured.rtt + 2 * SERVER_TIME_RESOLUTION + uncertainty(o)
<1>0. wall \in Int /\ slip \in Int
  BY DEF ClockIInv, ClockTypeOK
<1>1. o \in Sample /\ SampleTrue(o) /\ o.age <= MAX_SAMPLE_AGE
  BY KeptTrue DEF Valid, ToSet
<1>2. Measured \in Sample /\ SampleTrue(Measured)
  BY MeasuredTrue
<1>3. Measured.wall = wall /\ Measured.age = 0
  BY DEF Measured
<1>4. PICK m \in Int, r \in Nat : m = Measured.off /\ r = Measured.rtt
  BY <1>2 DEF Sample
<1>5. PICK f \in Int, n \in Nat, w \in Int, g \in Int :
        /\ f = o.off /\ n = o.rtt + 2 * (SERVER_TIME_RESOLUTION + o.age * DRIFT_ALLOWANCE)
        /\ w = o.wall /\ g = Magnitude(wall - w)
  <2>1. o.off \in Int /\ o.rtt \in Nat /\ o.age \in Nat /\ o.wall \in Int
    BY <1>1 DEF Sample
  <2>2. o.age * DRIFT_ALLOWANCE \in Nat
    BY <2>1, ClockConstants
  <2>3. o.rtt + 2 * (SERVER_TIME_RESOLUTION + o.age * DRIFT_ALLOWANCE) \in Nat
    BY <2>1, <2>2, ClockConstants
  <2>4. Magnitude(wall - o.wall) \in Int
    BY <1>0, <2>1 DEF Magnitude
  <2> QED BY <2>1, <2>3, <2>4
<1>6. Magnitude(2 * (w + slip) + f) <= n
  <2>1. o.shift = 0 /\ Magnitude(2 * (o.wall + slip) + o.off)
          <= o.rtt + 2 * (SERVER_TIME_RESOLUTION + o.age * DRIFT_ALLOWANCE) + o.shift
    BY <1>1 DEF SampleTrue
  <2> QED BY <2>1, <1>5
<1>7. Magnitude(2 * (wall + slip) + m) <= r + 2 * SERVER_TIME_RESOLUTION
  <2>1. Magnitude(2 * (wall + slip) + m) <= r + 2 * (SERVER_TIME_RESOLUTION + 0 * DRIFT_ALLOWANCE) + 0
    BY <1>2, <1>3, <1>4, ClockConstants DEF SampleTrue
  <2> QED BY <2>1, ClockConstants
<1>8. uncertainty(o) = n + 2 * g
  <2>1. o.rtt \in Nat /\ o.age * DRIFT_ALLOWANCE \in Nat
    BY <1>1, ClockConstants DEF Sample
  <2> QED BY <1>5, <2>1, ClockConstants DEF uncertainty
<1>9. Magnitude(m - f) <= (r + 2 * SERVER_TIME_RESOLUTION) + (n + 2 * g)
  BY <1>0, <1>4, <1>5, <1>6, <1>7, ClockConstants DEF Magnitude
<1>10. Measured.rtt + 2 * SERVER_TIME_RESOLUTION + uncertainty(o) = (r + 2 * SERVER_TIME_RESOLUTION) + (n + 2 * g)
  BY <1>4, <1>8
<1> QED BY <1>4, <1>5, <1>9, <1>10

\* So a measurement that is refused as inconsistent was disturbed, or contradicts
\* a sample that was.
LEMMA RefusedDisturbed ==
    ASSUME ClockIInv, probe.trip >= 0, probe.stamped, inconsistent(kept) # {}
    PROVE  /\ inconsistent(kept) \cup {Measured} \in SUBSET Sample
           /\ \E s \in inconsistent(kept) \cup {Measured} : s.shift # 0
<1>1. PICK o \in Valid(kept) :
        Magnitude(Measured.off - o.off) > Measured.rtt + 2 * SERVER_TIME_RESOLUTION + uncertainty(o)
  BY DEF inconsistent
<1>2. Measured \in Sample
  BY MeasuredTrue
<1>3. \A x \in Valid(kept) : x \in Sample
  BY KeptTrue DEF Valid, ToSet
<1>4. PICK a \in Int, b \in Int :
        /\ a = Magnitude(Measured.off - o.off)
        /\ b = Measured.rtt + 2 * SERVER_TIME_RESOLUTION + uncertainty(o)
  <2>1. o.off \in Int /\ o.rtt \in Nat /\ o.age \in Nat /\ o.wall \in Int /\ wall \in Int
        /\ Measured.off \in Int /\ Measured.rtt \in Nat
    BY <1>2, <1>3 DEF Sample, ClockIInv, ClockTypeOK
  <2>2. o.age * DRIFT_ALLOWANCE \in Int /\ Magnitude(wall - o.wall) \in Int
        /\ Magnitude(Measured.off - o.off) \in Int
    BY <2>1, ClockConstants DEF Magnitude
  <2> QED BY <2>1, <2>2, ClockConstants DEF uncertainty
<1>5. ~(a <= b)
  BY <1>1, <1>4
<1>6. Measured.shift # 0 \/ o.shift # 0
  BY <1>4, <1>5, Consistent
<1>7. o \in inconsistent(kept) /\ inconsistent(kept) \subseteq Valid(kept)
  BY <1>1 DEF inconsistent
<1> QED BY <1>2, <1>3, <1>6, <1>7

\* A sequence of true samples with one more, and without its first.
LEMMA WindowTrue ==
    ASSUME NEW log \in Seq(Sample), \A i \in DOMAIN log : SampleTrue(log[i]),
           NEW s \in Sample, SampleTrue(s)
    PROVE  LET all == Append(log, s)
               window == SubSeq(all, (IF Len(all) > WINDOW_SAMPLES THEN 2 ELSE 1), Len(all))
           IN  window \in Seq(Sample) /\ \A i \in DOMAIN window : SampleTrue(window[i])
<1> DEFINE all == Append(log, s)
           k == IF Len(all) > WINDOW_SAMPLES THEN 2 ELSE 1
           window == SubSeq(all, k, Len(all))
<1>1. all \in Seq(Sample) /\ Len(all) = Len(log) + 1 /\ Len(log) \in Nat
  OBVIOUS
<1>2. \A i \in 1..Len(all) : SampleTrue(all[i])
  <2> SUFFICES ASSUME NEW i \in 1..Len(all) PROVE SampleTrue(all[i])
    OBVIOUS
  <2>1. CASE i = Len(log) + 1
    BY <2>1
  <2>2. CASE i # Len(log) + 1
    BY <2>2
  <2> QED BY <2>1, <2>2
<1>3. k \in {1, 2} /\ k <= Len(all) + 1
  BY <1>1
<1> HIDE DEF all, k
<1>4. window \in Seq(Sample)
  BY <1>1, <1>3
<1>5. Len(window) = Len(all) - k + 1 /\ \A i \in 1..Len(window) : window[i] = all[k + i - 1]
  BY <1>1, <1>3
<1>6. \A i \in 1..Len(window) : k + i - 1 \in 1..Len(all)
  BY <1>1, <1>3, <1>5
<1>7. DOMAIN window = 1..Len(window)
  BY <1>4
<1>8. \A i \in DOMAIN window : SampleTrue(window[i])
  BY <1>2, <1>5, <1>6, <1>7
<1> QED BY <1>4, <1>8 DEF all, k

\* No time, no reading and no drift: a sample is as true as before.
LEMMA SamplesStay ==
    ASSUME UNCHANGED slip, NEW s PROVE SampleTrue(s) <=> SampleTrue(s)'
BY DEF SampleTrue

\* A step that only reads the clock keeps the invariant.
LEMMA ReadKeeps ==
    ASSUME ClockIInv, UNCHANGED <<wall, slip, moves>>, samples' = kept, anchor' = wall,
           epochs' \in {0, 1, epochs}, backward' \in BOOLEAN,
           refusal' \in {refusal, NoRefusal}, probe' \in Probe, StampTrue'
    PROVE  ClockIInv'
<1>1. kept \in Seq(Sample) /\ \A i \in DOMAIN kept : SampleTrue(kept[i])
  BY KeptTrue
<1>2. \A i \in DOMAIN samples' : SampleTrue(samples[i])'
  BY <1>1 DEF SampleTrue
<1>3. RefusalTrue'
  BY DEF ClockIInv, RefusalTrue, NoRefusal
<1>4. ClockTypeOK'
  BY <1>1 DEF ClockIInv, ClockTypeOK, NoRefusal
<1> QED BY <1>2, <1>3, <1>4 DEF ClockIInv

\* There is no stamp to be wrong where there is no trip or no stamp yet.
LEMMA NoStamp ==
    ASSUME probe'.trip < 0 \/ ~probe'.stamped, probe' \in Probe PROVE StampTrue'
BY DEF StampTrue, Probe

\* Writing the fields of a trip leaves a trip.
LEMMA ProbeStarts ==
    ASSUME NEW p \in Probe, NEW t \in Int, NEW w \in Int
    PROVE  [p EXCEPT !.trip = t, !.wall = w] \in Probe
BY DEF Probe

\* The same for the fields that time changes.
LEMMA ProbeAges ==
    ASSUME NEW p \in Probe, NEW t \in Int, NEW d \in Nat
    PROVE  [p EXCEPT !.trip = t, !.drift = d] \in Probe
BY DEF Probe

\* The request of the next trip.
LEMMA ProbeTypes ==
    /\ NoProbe \in Probe /\ NoProbe.trip = -1 /\ ~NoProbe.stamped
    /\ \A w \in Int : /\ [NoProbe EXCEPT !.trip = 0, !.wall = w] \in Probe
                      /\ ~[NoProbe EXCEPT !.trip = 0, !.wall = w].stamped
<1>1. NoProbe \in Probe
  BY DEF NoProbe, Probe
<1>2. NoProbe.trip = -1 /\ NoProbe.stamped = FALSE
  BY DEF NoProbe
<1>3. ASSUME NEW w \in Int
      PROVE  /\ [NoProbe EXCEPT !.trip = 0, !.wall = w] \in Probe
             /\ [NoProbe EXCEPT !.trip = 0, !.wall = w].stamped = FALSE
  <2>1. PICK p \in Probe : p = NoProbe
    BY <1>1
  <2>2. [p EXCEPT !.trip = 0, !.wall = w] \in Probe
    <3>1. 0 \in Int
      OBVIOUS
    <3> QED BY <3>1, ProbeStarts, Zenon
  <2>3. [p EXCEPT !.trip = 0, !.wall = w].stamped = p.stamped
    BY <2>1 DEF Probe
  <2> QED BY <1>2, <2>1, <2>2, <2>3
<1> QED BY <1>1, <1>2, <1>3

\* Init: nothing was measured.
LEMMA ClockStarts == ClockInit => ClockIInv
<1> SUFFICES ASSUME ClockInit PROVE ClockIInv
  OBVIOUS
<1>1. ClockTypeOK
  <2>1. wall = 0 /\ slip = 0 /\ anchor = 0 /\ epochs = 0 /\ moves = 0 /\ backward = FALSE
        /\ samples = <<>> /\ refusal = {} /\ probe = NoProbe
    BY DEF ClockInit, NoRefusal
  <2>2. probe \in Probe
    BY <2>1, ProbeTypes
  <2>3. samples \in Seq(Sample)
    BY <2>1
  <2>4. backward \in BOOLEAN
    BY <2>1
  <2>5. refusal \in SUBSET Sample
    BY <2>1
  <2>6. wall \in Int /\ slip \in Int /\ anchor \in Int /\ epochs \in Nat /\ moves \in Nat
    BY <2>1
  <2> QED BY <2>2, <2>3, <2>4, <2>5, <2>6 DEF ClockTypeOK
<1>2. StampTrue /\ RefusalTrue
  BY DEF ClockInit, StampTrue, RefusalTrue, NoProbe
<1>3. samples = <<>>
  BY DEF ClockInit
<1> QED BY <1>1, <1>2, <1>3 DEF ClockIInv

\* begin_cycle reads the clock.
LEMMA BeginKeeps == ASSUME ClockIInv, begin_cycle PROVE ClockIInv'
<1>1. StampTrue'
  BY DEF begin_cycle, ClockIInv, StampTrue
<1>2. /\ UNCHANGED <<wall, slip, moves>> /\ samples' = kept /\ anchor' = wall
      /\ epochs' \in {0, 1, epochs} /\ backward' \in BOOLEAN
      /\ refusal' \in {refusal, NoRefusal} /\ probe' \in Probe
  BY DEF begin_cycle, Read, ClockIInv, ClockTypeOK
<1> QED BY <1>1, <1>2, ReadKeeps

\* A probe is sent: the clock is read first.
LEMMA StartKeeps == ASSUME ClockIInv, start_probe PROVE ClockIInv'
<1>0. wall \in Int
  BY DEF ClockIInv, ClockTypeOK
<1>1. probe' \in Probe /\ ~probe'.stamped
  BY <1>0, ProbeTypes DEF start_probe
<1>2. StampTrue'
  BY <1>1, NoStamp
<1>3. /\ UNCHANGED <<wall, slip, moves>> /\ samples' = kept /\ anchor' = wall
      /\ epochs' \in {0, 1, epochs} /\ backward' \in BOOLEAN
      /\ refusal' \in {refusal, NoRefusal}
  BY DEF start_probe, ClockIInv, ClockTypeOK
<1> QED BY <1>1, <1>2, <1>3, ReadKeeps

\* now(), sample() and record() read the clock.
LEMMA ReadClockKeeps == ASSUME ClockIInv, ReadClock PROVE ClockIInv'
<1>1. StampTrue'
  BY DEF ReadClock, ClockIInv, StampTrue
<1>2. /\ UNCHANGED <<wall, slip, moves>> /\ samples' = kept /\ anchor' = wall
      /\ epochs' \in {0, 1, epochs} /\ backward' \in BOOLEAN
      /\ refusal' \in {refusal, NoRefusal} /\ probe' \in Probe
  BY DEF ReadClock, Read, ClockIInv, ClockTypeOK
<1> QED BY <1>1, <1>2, ReadKeeps

\* The venue's stamp is right, up to the resolution.
LEMMA StampKeeps ==
    ASSUME ClockIInv, NEW fraction \in 0..SERVER_TIME_RESOLUTION, VenueStamps(fraction)
    PROVE  ClockIInv'
<1>1. /\ probe \in Probe /\ slip \in Int /\ probe.trip \in Nat /\ probe.drift \in Nat
      /\ fraction \in Int
  BY ClockConstants DEF ClockIInv, ClockTypeOK, Probe, VenueStamps
<1>2. /\ probe'.trip = probe.trip /\ probe'.drift = probe.drift /\ probe'.stamped
      /\ probe'.stamp = probe.trip - slip - fraction /\ probe' \in Probe
  <2>1. PICK n \in Int : n = probe.trip - slip - fraction
    BY <1>1
  <2>2. probe' = [probe EXCEPT !.stamped = TRUE, !.stamp = n]
    BY <2>1 DEF VenueStamps
  <2>3. probe' = [trip |-> probe.trip, wall |-> probe.wall, stamp |-> n, stamped |-> TRUE, drift |-> probe.drift]
    BY <1>1, <2>2 DEF Probe
  <2>4. probe.wall \in Int
    BY <1>1 DEF Probe
  <2>5. probe' \in Probe
    BY <1>1, <2>1, <2>3, <2>4 DEF Probe
  <2> QED BY <2>1, <2>3, <2>5
<1>3. UNCHANGED <<wall, slip, samples, anchor, epochs, backward, refusal, moves>>
  BY DEF VenueStamps
<1>4. StampTrue'
  <2>1. probe.trip \in 0..probe.trip
    BY <1>1
  <2>2. probe'.stamp = probe.trip - slip + 0 - fraction /\ Magnitude(0) <= probe'.drift
    BY <1>1, <1>2 DEF Magnitude
  <2> QED BY <1>2, <1>3, <2>1, <2>2 DEF StampTrue
<1>5. \A i \in DOMAIN samples' : SampleTrue(samples[i])'
  BY <1>3 DEF ClockIInv, SampleTrue
<1>6. ClockTypeOK' /\ RefusalTrue'
  BY <1>2, <1>3 DEF ClockIInv, ClockTypeOK, RefusalTrue
<1> QED BY <1>4, <1>5, <1>6 DEF ClockIInv

\* What finish_probe stores: the measurement when it is applied, and of the
\* older samples those a jump did not discard.
LEMMA FinishKeeps ==
    ASSUME ClockIInv, NEW answered \in BOOLEAN, finish_probe(answered)
    PROVE  ClockIInv'
<1>1. kept \in Seq(Sample) /\ \A i \in DOMAIN kept : SampleTrue(kept[i])
  BY KeptTrue
<1>2. /\ UNCHANGED <<wall, slip, moves>> /\ probe' = NoProbe /\ epochs' = 0 /\ anchor' = wall
      /\ probe.trip >= 0
  BY DEF finish_probe
<1>3. status' = "applied" => probe.stamped
  BY DEF finish_probe
<1>4. status' = "rejected_inconsistent_offset" => probe.stamped /\ inconsistent(kept) # {}
  BY DEF finish_probe
<1>5. refusal' = IF status' = "rejected_inconsistent_offset"
                 THEN inconsistent(kept) \cup {Measured} ELSE NoRefusal
  BY DEF finish_probe
<1>6. samples' = IF status' # "applied" THEN kept
                 ELSE LET all == Append(kept, Measured)
                      IN  SubSeq(all, (IF Len(all) > WINDOW_SAMPLES THEN 2 ELSE 1), Len(all))
  BY DEF finish_probe
<1>7. backward' \in BOOLEAN
  BY DEF finish_probe
<1>8. samples' \in Seq(Sample) /\ \A i \in DOMAIN samples' : SampleTrue(samples'[i])
  <2>1. CASE status' # "applied"
    BY <2>1, <1>1, <1>6
  <2>2. CASE status' = "applied"
    <3>1. Measured \in Sample /\ SampleTrue(Measured)
      BY <1>2, <1>3, <2>2, MeasuredTrue
    <3> QED BY <3>1, <2>2, <1>1, <1>6, WindowTrue
  <2> QED BY <2>1, <2>2
<1>9. \A i \in DOMAIN samples' : SampleTrue(samples[i])'
  BY <1>2, <1>8 DEF SampleTrue
<1>10. refusal' \in SUBSET Sample /\ RefusalTrue'
  <2>1. CASE status' # "rejected_inconsistent_offset"
    BY <2>1, <1>5 DEF RefusalTrue, NoRefusal
  <2>2. CASE status' = "rejected_inconsistent_offset"
    BY <2>2, <1>2, <1>4, <1>5, RefusedDisturbed DEF RefusalTrue
  <2> QED BY <2>1, <2>2
<1>11. probe' \in Probe /\ StampTrue'
  BY <1>2, ProbeTypes, NoStamp
<1>12. ClockTypeOK'
  BY <1>2, <1>7, <1>8, <1>10, <1>11 DEF ClockIInv, ClockTypeOK
<1> QED BY <1>9, <1>10, <1>11, <1>12 DEF ClockIInv

\* The request raised: there is no trip.
LEMMA FailKeeps == ASSUME ClockIInv, ProbeFails PROVE ClockIInv'
<1>1. /\ UNCHANGED <<wall, slip, samples, anchor, backward, refusal, moves>>
      /\ probe' = NoProbe /\ epochs' = 0
  BY DEF ProbeFails
<1>2. probe' \in Probe /\ StampTrue'
  BY <1>1, ProbeTypes, NoStamp
<1>3. \A i \in DOMAIN samples' : SampleTrue(samples[i])'
  BY <1>1 DEF ClockIInv, SampleTrue
<1> QED BY <1>1, <1>2, <1>3 DEF ClockIInv, ClockTypeOK, RefusalTrue

\* Moving the wall clock makes no sample less true: each keeps the wall clock of
\* its own measurement.
LEMMA MoveKeeps ==
    ASSUME ClockIInv, NEW to \in -MaxWall..MaxWall, WallMoves(to) PROVE ClockIInv'
<1>1. /\ UNCHANGED <<probe, slip, samples, anchor, epochs, backward, refusal>>
      /\ wall' \in Int /\ moves' \in Nat
  BY ClockConstants DEF WallMoves, ClockIInv, ClockTypeOK
<1>2. StampTrue'
  BY <1>1 DEF ClockIInv, StampTrue
<1>3. \A i \in DOMAIN samples' : SampleTrue(samples[i])'
  BY <1>1 DEF ClockIInv, SampleTrue
<1> QED BY <1>1, <1>2, <1>3 DEF ClockIInv, ClockTypeOK, RefusalTrue

\* One unit of time: a sample that may still be used has grown by the drift
\* allowed for it.
LEMMA AgeTrue ==
    ASSUME slip \in Int, NEW drift \in -DRIFT_ALLOWANCE..DRIFT_ALLOWANCE, slip' = slip + drift,
           NEW s \in Sample, SampleTrue(s),
           NEW t, t = [s EXCEPT !.age = IF @ > MAX_SAMPLE_AGE THEN @ ELSE @ + 1]
    PROVE  t \in Sample /\ SampleTrue(t)'
<1>1. /\ s.off \in Int /\ s.rtt \in Nat /\ s.age \in Nat /\ s.wall \in Int /\ s.shift \in Nat
      /\ drift \in Int /\ drift <= DRIFT_ALLOWANCE /\ -drift <= DRIFT_ALLOWANCE
  BY ClockConstants DEF Sample
<1>2. t \in Sample /\ t.off = s.off /\ t.rtt = s.rtt /\ t.wall = s.wall /\ t.shift = s.shift
      /\ t.age = IF s.age > MAX_SAMPLE_AGE THEN s.age ELSE s.age + 1
  BY <1>1 DEF Sample
<1>3. CASE s.age > MAX_SAMPLE_AGE
  BY <1>1, <1>2, <1>3, ClockConstants DEF SampleTrue
<1>4. CASE ~(s.age > MAX_SAMPLE_AGE)
  <2>1. PICK p \in Nat : p = s.age * DRIFT_ALLOWANCE
    BY <1>1, ClockConstants
  <2>2. t.age * DRIFT_ALLOWANCE = p + DRIFT_ALLOWANCE
    BY <1>1, <1>2, <1>4, <2>1, ClockConstants
  <2>3. Magnitude(2 * (s.wall + slip) + s.off) <= s.rtt + 2 * (SERVER_TIME_RESOLUTION + p) + s.shift
    BY <1>1, <1>4, <2>1, ClockConstants DEF SampleTrue
  <2>4. Magnitude(2 * (s.wall + (slip + drift)) + s.off)
          <= s.rtt + 2 * (SERVER_TIME_RESOLUTION + (p + DRIFT_ALLOWANCE)) + s.shift
    BY <1>1, <2>1, <2>3, ClockConstants DEF Magnitude
  <2> QED BY <1>2, <2>2, <2>4 DEF SampleTrue, Magnitude
<1> QED BY <1>2, <1>3, <1>4

\* The trip in flight: what the monotonic clock drifts is counted.
LEMMA StampAges ==
    ASSUME ClockIInv, NEW drift \in -DRIFT_ALLOWANCE..DRIFT_ALLOWANCE, TimePasses(drift)
    PROVE  probe' \in Probe /\ StampTrue'
<1>1. slip \in Int /\ slip' = slip + drift /\ drift \in Int /\ probe \in Probe /\ StampTrue
  BY ClockConstants DEF ClockIInv, ClockTypeOK, TimePasses
<1>2. CASE probe.trip < 0
  <2>1. probe' = probe
    BY <1>2 DEF TimePasses
  <2> QED BY <1>1, <1>2, <2>1, NoStamp
<1>3. CASE ~(probe.trip < 0)
  <2>1. PICK d \in Nat : d = Magnitude(drift)
    BY <1>1, MagnitudeFacts
  <2>2. probe' = [probe EXCEPT !.trip = @ + 1, !.drift = @ + d]
    BY <1>3, <2>1 DEF TimePasses
  <2>3. probe' \in Probe /\ probe'.trip = probe.trip + 1 /\ probe'.drift = probe.drift + d
        /\ probe'.stamp = probe.stamp /\ probe'.stamped = probe.stamped
    <3>1. PICK t \in Int, e \in Nat : t = probe.trip + 1 /\ e = probe.drift + d
      BY <1>1 DEF Probe
    <3>2. probe' = [probe EXCEPT !.trip = t, !.drift = e]
      BY <2>2, <3>1
    <3>3. probe' \in Probe
      BY <1>1, <3>1, <3>2, ProbeAges
    <3>4. probe'.trip = t /\ probe'.drift = e /\ probe'.stamp = probe.stamp
      BY <1>1, <3>2 DEF Probe
    <3>5. probe'.stamped = probe.stamped
      BY <1>1, <3>2 DEF Probe
    <3> QED BY <3>1, <3>3, <3>4, <3>5
  <2>4. CASE ~probe.stamped
    BY <2>3, <2>4, NoStamp
  <2>5. CASE probe.stamped
    <3>0. probe.trip \in Nat /\ probe.drift \in Nat /\ probe.stamp \in Int
      BY <1>1, <1>3 DEF Probe
    <3>1. \E at \in 0..probe.trip, fraction \in 0..SERVER_TIME_RESOLUTION, since \in Int :
            probe.stamp = at - slip + since - fraction /\ Magnitude(since) <= probe.drift
      BY <1>1, <2>5, <3>0 DEF StampTrue
    <3>2. PICK at \in 0..probe.trip, fraction \in 0..SERVER_TIME_RESOLUTION, since \in Int :
            probe.stamp = at - slip + since - fraction /\ Magnitude(since) <= probe.drift
      BY <3>1
    <3>3. PICK later \in Int : later = since + drift
      BY <1>1
    <3>4. at \in 0..(probe.trip + 1) /\ fraction \in Int
      BY <3>0, ClockConstants
    <3>5. Magnitude(later) <= probe.drift + d
      BY <1>1, <2>1, <3>0, <3>2, <3>3 DEF Magnitude
    <3>6. probe.stamp = at - (slip + drift) + later - fraction
      BY <1>1, <3>0, <3>2, <3>3, <3>4
    <3>7. at \in 0..probe'.trip /\ Magnitude(later) <= probe'.drift
          /\ probe'.stamp = at - slip' + later - fraction
      BY <1>1, <2>3, <3>4, <3>5, <3>6
    <3>8. StampTrue'
      BY <3>7 DEF StampTrue
    <3> QED BY <2>3, <3>8
  <2> QED BY <2>3, <2>4, <2>5
<1> QED BY <1>2, <1>3

\* One unit of time passes.
LEMMA PassKeeps ==
    ASSUME ClockIInv, NEW drift \in -DRIFT_ALLOWANCE..DRIFT_ALLOWANCE, TimePasses(drift)
    PROVE  ClockIInv'
<1>1. /\ UNCHANGED <<wall, anchor, epochs, backward, refusal, moves>> /\ slip' = slip + drift
      /\ slip \in Int /\ drift \in Int /\ samples \in Seq(Sample)
  BY ClockConstants DEF ClockIInv, ClockTypeOK, TimePasses
<1>2. samples' = [i \in DOMAIN samples |->
            [samples[i] EXCEPT !.age = IF @ > MAX_SAMPLE_AGE THEN @ ELSE @ + 1]]
  BY DEF TimePasses
<1>3. DOMAIN samples' = DOMAIN samples
  BY <1>2
<1>4. ASSUME NEW i \in DOMAIN samples PROVE samples'[i] \in Sample /\ SampleTrue(samples[i])'
  <2>1. PICK s \in Sample : s = samples[i]
    BY <1>1
  <2>2. SampleTrue(s)
    BY <2>1 DEF ClockIInv
  <2>3. PICK t : t = [s EXCEPT !.age = IF @ > MAX_SAMPLE_AGE THEN @ ELSE @ + 1]
    OBVIOUS
  <2>4. samples'[i] = t
    BY <1>2, <2>1, <2>3
  <2>5. t \in Sample /\ SampleTrue(t)'
    BY <1>1, <2>2, <2>3, AgeTrue
  <2> QED BY <2>4, <2>5 DEF SampleTrue
<1>5. samples' \in Seq(Sample)
  <2>1. PICK n \in Nat : DOMAIN samples = 1..n
    BY <1>1
  <2>2. samples' \in [1..n -> Sample]
    <3>1. samples' = [i \in 1..n |-> samples'[i]]
      BY <1>2, <1>3, <2>1
    <3> QED BY <1>4, <2>1, <3>1
  <2> QED BY <2>2
<1>6. probe' \in Probe /\ StampTrue'
  BY StampAges
<1>7. ClockTypeOK' /\ RefusalTrue'
  BY <1>1, <1>5, <1>6 DEF ClockIInv, ClockTypeOK, RefusalTrue
<1>8. \A i \in DOMAIN samples' : SampleTrue(samples[i])'
  BY <1>3, <1>4
<1> QED BY <1>6, <1>7, <1>8 DEF ClockIInv

\* Naturals have a least one: some element of a set has the least measure.
LEMMA LeastExists ==
    ASSUME NEW V, V # {}, NEW f, \A s \in V : f[s] \in Nat
    PROVE  \E s \in V : \A o \in V : f[s] <= f[o]
<1>1. PICK s0 \in V : TRUE
  OBVIOUS
<1>2. PICK top \in Nat : top = f[s0]
  OBVIOUS
<1> DEFINE D == 0..top
           B == {0..f[s] : s \in {r \in V : f[r] <= top}}
<1>3. IsFiniteSet(D)
  BY <1>2, FS_Interval
<1>4. B \in SUBSET (SUBSET D) /\ B # {}
  <2>1. ASSUME NEW s \in V, f[s] <= top PROVE 0..f[s] \in SUBSET D
    BY <1>2, <2>1
  <2>2. 0..f[s0] \in B
    BY <1>1, <1>2
  <2> QED BY <2>1, <2>2
<1>5. PICK m \in B : \A t \in B : ~(t \subseteq m /\ t # m)
  <2> HIDE DEF B, D
  <2> QED BY <1>3, <1>4, FiniteMin
<1>6. PICK s \in V : m = 0..f[s] /\ f[s] <= top
  BY <1>5
<1>7. ASSUME NEW o \in V PROVE f[s] <= f[o]
  <2>1. f[s] \in Nat /\ f[o] \in Nat
    OBVIOUS
  <2>2. SUFFICES ASSUME f[o] < f[s] PROVE FALSE
    BY <2>1
  <2>3. 0..f[o] \in B
    BY <1>2, <1>6, <2>1, <2>2
  <2>4. 0..f[o] \subseteq m
    BY <1>6, <2>1, <2>2
  <2>5. f[s] \in m /\ f[s] \notin 0..f[o]
    BY <1>6, <2>1, <2>2
  <2> HIDE DEF B
  <2> QED BY <1>5, <2>3, <2>4, <2>5
<1> QED BY <1>6, <1>7

\* The uncertainty of a sample is a natural number.
LEMMA UncertaintyNat == ASSUME wall \in Int, NEW s \in Sample PROVE uncertainty(s) \in Nat
<1>1. s.rtt \in Nat /\ s.age \in Nat /\ s.wall \in Int
  BY DEF Sample
<1>2. PICK p \in Nat : p = s.age * DRIFT_ALLOWANCE
  BY <1>1, ClockConstants
<1>3. PICK q \in Nat : q = Magnitude(wall - s.wall)
  BY <1>1 DEF Magnitude
<1> QED BY <1>1, <1>2, <1>3, ClockConstants DEF uncertainty

\* sample() finds the sample with the least uncertainty.
LEMMA BestValid == ASSUME ClockIInv, Valid(kept) # {} PROVE best(kept) \in Valid(kept)
<1>1. kept \in Seq(Sample) /\ wall \in Int
  BY KeptTrue DEF ClockIInv, ClockTypeOK
<1>2. \A s \in Valid(kept) : s \in Sample
  BY <1>1 DEF Valid, ToSet
<1> DEFINE V == Valid(kept)
           f == [s \in V |-> uncertainty(s)]
<1>3. \A s \in V : f[s] \in Nat
  BY <1>1, <1>2, UncertaintyNat
<1>4. \E s \in V : \A o \in V : f[s] <= f[o]
  <2> HIDE DEF V, f
  <2> QED BY <1>3, LeastExists DEF V
<1>5. \E s \in Valid(kept) : \A o \in Valid(kept) : uncertainty(s) <= uncertainty(o)
  BY <1>4
<1> QED BY <1>5 DEF best

\* The error of a sample that is true: its own, and what the wall clock moved.
LEMMA ErrorBound ==
    ASSUME ClockIInv, NEW s \in Sample, s.age <= MAX_SAMPLE_AGE, SampleTrue(s)
    PROVE  Error(s) <= uncertainty(s) + s.shift
<1>1. /\ s.off \in Int /\ s.rtt \in Nat /\ s.age \in Nat /\ s.wall \in Int /\ s.shift \in Nat
      /\ wall \in Int /\ slip \in Int
  BY DEF ClockIInv, ClockTypeOK, Sample
<1>2. PICK p \in Nat : p = s.age * DRIFT_ALLOWANCE
  BY <1>1, ClockConstants
<1>3. Magnitude(2 * (s.wall + slip) + s.off) <= s.rtt + 2 * (SERVER_TIME_RESOLUTION + p) + s.shift
  BY <1>2 DEF SampleTrue
<1>4. Magnitude(2 * (wall + slip) + s.off)
        <= s.rtt + 2 * (SERVER_TIME_RESOLUTION + p + Magnitude(wall - s.wall)) + s.shift
  BY <1>1, <1>2, <1>3, ClockConstants DEF Magnitude
<1> QED BY <1>2, <1>4 DEF Error, uncertainty

\* The inductive invariant gives the property.
LEMMA ClockIInvTrue == ClockIInv => ClockTrue
<1> SUFFICES ASSUME ClockIInv PROVE ClockTrue
  OBVIOUS
<1>1. ASSUME ClockPasses PROVE Error(best(kept)) <= uncertainty(best(kept)) + best(kept).shift
  <2>1. best(kept) \in Valid(kept)
    BY <1>1, BestValid DEF ClockPasses
  <2>2. PICK s : s = best(kept)
    OBVIOUS
  <2>3. kept \in Seq(Sample) /\ \A i \in DOMAIN kept : SampleTrue(kept[i])
    BY KeptTrue
  <2>4. s \in Sample /\ s.age <= MAX_SAMPLE_AGE /\ SampleTrue(s)
    BY <2>1, <2>2, <2>3 DEF Valid, ToSet
  <2>5. Error(s) <= uncertainty(s) + s.shift
    BY <2>4, ErrorBound
  <2> QED BY <2>2, <2>5
<1>2. RefusalTrue
  BY DEF ClockIInv
<1> QED BY <1>1, <1>2 DEF ClockTrue, RefusalTrue

\* Every step of the clock.
LEMMA ClockKeeps == ClockIInv /\ [ClockNext]_clockVars => ClockIInv'
<1> SUFFICES ASSUME ClockIInv, [ClockNext]_clockVars PROVE ClockIInv'
  OBVIOUS
<1>1. CASE begin_cycle
  BY <1>1, BeginKeeps
<1>2. CASE start_probe
  BY <1>2, StartKeeps
<1>3. CASE ProbeFails
  BY <1>3, FailKeeps
<1>4. CASE ReadClock
  BY <1>4, ReadClockKeeps
<1>5. CASE \E fraction \in 0..SERVER_TIME_RESOLUTION : VenueStamps(fraction)
  BY <1>5, StampKeeps
<1>6. CASE \E answered \in BOOLEAN : finish_probe(answered)
  BY <1>6, FinishKeeps
<1>7. CASE \E to \in -MaxWall..MaxWall : WallMoves(to)
  BY <1>7, MoveKeeps
<1>8. CASE \E drift \in -DRIFT_ALLOWANCE..DRIFT_ALLOWANCE : TimePasses(drift)
  BY <1>8, PassKeeps
<1>9. CASE UNCHANGED clockVars
  <2>1. UNCHANGED <<wall, slip, samples, anchor, epochs, backward, probe, refusal, moves>>
    BY <1>9 DEF clockVars
  <2>2. \A i \in DOMAIN samples' : SampleTrue(samples[i])'
    BY <2>1 DEF ClockIInv, SampleTrue
  <2> QED BY <2>1, <2>2 DEF ClockIInv, ClockTypeOK, StampTrue, RefusalTrue
<1> QED BY <1>1, <1>2, <1>3, <1>4, <1>5, <1>6, <1>7, <1>8, <1>9 DEF ClockNext

\* The corrected clock is as true as it says (clock_reference.py: now, sample,
\* finish_probe): for every window, tolerance, resolution, drift and bound on the
\* wall clock's moves, an uncertainty that passes evaluate_clock bounds the error
\* of the corrected time, and a refusal as inconsistent is never the doing of
\* undisturbed measurements alone.
THEOREM ClockSound == ClockSpec => []ClockTrue
<1>1. ClockInit => ClockIInv
  BY ClockStarts
<1>2. ClockIInv /\ [ClockNext]_clockVars => ClockIInv'
  BY ClockKeeps
<1>3. ClockIInv => ClockTrue
  BY ClockIInvTrue
<1> QED BY <1>1, <1>2, <1>3, PTL DEF ClockSpec

-----------------------------------------------------------------------------
(* The inference slot of the local review.                                 *)

Verdicts == {"none", "OK", "TIMEOUT", "UNAVAILABLE", "raised"}

\* What a call of review_finalists holds.
Reviewing ==
    [caller : {"none", "starting", "waiting", "back"},
     worker : {"none", "created", "asking", "posting", "done"},
     late : BOOLEAN, cancelled : BOOLEAN, released : BOOLEAN, tries : Nat,
     last : Answers \cup {"none"}, outcome : Verdicts, result : Verdicts]

\* A call has the slot exactly while its worker may still use it and has not
\* given it back, and a caller who still waits has no result.
CallOK(call, held) ==
    /\ held <=> call.worker \in {"created", "asking", "posting"} /\ ~call.released
    /\ call.worker \in {"asking", "posting"} => ~call.released
    /\ call.caller \in {"starting", "waiting"} => call.result = "none"
    /\ call.result = "OK" => ~call.late

SlotIInv ==
    /\ slot \in Calls \cup {0} /\ calls \in [Calls -> Reviewing]
    /\ \A c \in Calls : CallOK(calls[c], slot = c)

\* One call changes, and with it the slot, which only that call may take or
\* give back.
LEMMA OneCallChanges ==
    ASSUME SlotIInv, NEW c \in Calls, NEW n \in Reviewing, calls' = [calls EXCEPT ![c] = n],
           slot' = slot \/ (slot = c /\ slot' = 0) \/ (slot = 0 /\ slot' = c), CallOK(n, slot' = c)
    PROVE  SlotIInv'
<1>1. 0 \notin Calls
  BY QwenAssumption DEF QwenAssumption
<1>2. slot' \in Calls \cup {0} /\ calls' \in [Calls -> Reviewing]
  BY DEF SlotIInv
<1>3. ASSUME NEW d \in Calls PROVE CallOK(calls[d], slot = d)'
  <2>1. CASE d = c
    <3>1. calls'[d] = n
      BY <2>1 DEF SlotIInv
    <3> QED BY <2>1, <3>1 DEF CallOK
  <2>2. CASE d # c
    <3>1. calls'[d] = calls[d] /\ (slot' = d <=> slot = d)
      BY <1>1, <2>2 DEF SlotIInv
    <3> QED BY <3>1 DEF SlotIInv, CallOK
  <2> QED BY <2>1, <2>2
<1> QED BY <1>2, <1>3 DEF SlotIInv

\* A call that was forgotten.
LEMMA NoCallOK == NoCall \in Reviewing /\ CallOK(NoCall, FALSE)
BY DEF NoCall, Reviewing, CallOK, Verdicts, Answers

\* review_finalists begins.
LEMMA ReviewBegins ==
    ASSUME SlotIInv, NEW c \in Calls, NEW profile \in BOOLEAN, review_Begins(c, profile)
    PROVE  SlotIInv'
<1>1. 0 \notin Calls /\ calls[c] = NoCall /\ slot # c
  BY QwenAssumption DEF QwenAssumption, review_Begins, SlotIInv, CallOK, NoCall
<1>2. CASE ~profile \/ slot # 0
  <2>1. PICK n : n = [NoCall EXCEPT !.caller = "back", !.result = "UNAVAILABLE"]
    OBVIOUS
  <2>2. n \in Reviewing /\ CallOK(n, FALSE)
    BY <2>1 DEF NoCall, Reviewing, CallOK, Verdicts, Answers
  <2>3. calls' = [calls EXCEPT ![c] = n] /\ slot' = slot
    BY <1>2, <2>1 DEF review_Begins
  <2>4. CallOK(n, slot' = c)
    BY <1>1, <2>2, <2>3 DEF CallOK
  <2> QED BY <2>2, <2>3, <2>4, OneCallChanges
<1>3. CASE ~(~profile \/ slot # 0)
  <2>1. PICK n : n = [NoCall EXCEPT !.caller = "starting", !.worker = "created"]
    OBVIOUS
  <2>2. n \in Reviewing /\ CallOK(n, TRUE)
    BY <2>1 DEF NoCall, Reviewing, CallOK, Verdicts, Answers
  <2>3. calls' = [calls EXCEPT ![c] = n] /\ slot' = c /\ slot = 0
    BY <1>3, <2>1 DEF review_Begins
  <2>4. CallOK(n, slot' = c)
    BY <2>2, <2>3 DEF CallOK
  <2> QED BY <2>2, <2>3, <2>4, OneCallChanges
<1> QED BY <1>2, <1>3

\* The call an action is about.
LEMMA ThisCall ==
    ASSUME SlotIInv, NEW c \in Calls
    PROVE  calls[c] \in Reviewing /\ CallOK(calls[c], slot = c) /\ 0 \notin Calls /\ c # 0
BY QwenAssumption DEF QwenAssumption, SlotIInv

\* What keeps the worker and what it gave back keeps the slot.
LEMMA CallerMoves ==
    ASSUME SlotIInv, NEW c \in Calls, NEW n \in Reviewing, calls' = [calls EXCEPT ![c] = n],
           UNCHANGED slot, n.worker = calls[c].worker, n.released = calls[c].released,
           n.caller \in {"starting", "waiting"} => n.result = "none",
           n.result = "OK" => ~n.late
    PROVE  SlotIInv'
<1>1. CallOK(calls[c], slot = c)
  BY ThisCall
<1>2. CallOK(n, slot' = c)
  BY <1>1 DEF CallOK
<1> QED BY <1>2, OneCallChanges

\* StartReturns
LEMMA StartReturnsKeeps == ASSUME SlotIInv, NEW c \in Calls, StartReturns(c) PROVE SlotIInv'
<1>1. PICK k \in Reviewing : k = calls[c] /\ CallOK(k, slot = c) /\ k.caller = "starting"
  BY ThisCall DEF StartReturns
<1>2. PICK n : n = [k EXCEPT !.caller = "waiting"]
  OBVIOUS
<1>3. n \in Reviewing
  BY <1>2 DEF Reviewing
<1>4. n.worker = k.worker /\ n.released = k.released /\ n.result = k.result /\ n.late = k.late
  BY <1>2 DEF Reviewing
<1>5. calls' = [calls EXCEPT ![c] = n] /\ UNCHANGED slot
  BY <1>1, <1>2 DEF StartReturns
<1>6. k.result = "none"
  BY <1>1 DEF CallOK
<1> QED BY <1>1, <1>3, <1>4, <1>5, <1>6, CallerMoves

\* CallerRaises: the slot is taken back only from a worker that has not begun.
LEMMA CallerRaisesKeeps == ASSUME SlotIInv, NEW c \in Calls, CallerRaises(c) PROVE SlotIInv'
<1>1. PICK k \in Reviewing : k = calls[c] /\ CallOK(k, slot = c)
  BY ThisCall
<1>2. c # 0
  BY ThisCall
<1>3. CASE k.caller = "starting" /\ may_release(k, TRUE)
  <2>1. PICK n : n = [k EXCEPT !.caller = "back", !.cancelled = TRUE, !.result = "raised", !.released = TRUE]
    OBVIOUS
  <2>2. n \in Reviewing
    BY <2>1 DEF Reviewing, Verdicts
  <2>3. n.worker = k.worker /\ n.released = TRUE /\ n.caller = "back" /\ n.result = "raised"
    BY <2>1 DEF Reviewing
  <2>4. k.worker = "created" /\ ~k.released
    BY <1>3 DEF may_release
  <2>5. slot = c /\ slot' = 0
    BY <1>1, <1>3, <2>4 DEF CallerRaises, CallOK
  <2>6. calls' = [calls EXCEPT ![c] = n]
    BY <1>1, <1>3, <2>1 DEF CallerRaises
  <2>7. CallOK(n, slot' = c)
    BY <1>2, <2>3, <2>4, <2>5 DEF CallOK
  <2> QED BY <2>2, <2>5, <2>6, <2>7, OneCallChanges
<1>4. CASE ~(k.caller = "starting" /\ may_release(k, TRUE))
  <2>1. PICK n : n = [k EXCEPT !.caller = "back", !.cancelled = TRUE, !.result = "raised", !.released = @ \/ FALSE]
    OBVIOUS
  <2>2. n.worker = k.worker /\ n.caller = "back" /\ n.result = "raised"
    BY <2>1 DEF Reviewing
  <2>3. n.released = k.released
    BY <2>1 DEF Reviewing
  <2>4. n \in Reviewing
    BY <2>1 DEF Reviewing, Verdicts
  <2>5. calls' = [calls EXCEPT ![c] = n] /\ UNCHANGED slot
    BY <1>1, <1>4, <2>1 DEF CallerRaises
  <2> QED BY <1>1, <2>2, <2>3, <2>4, <2>5, CallerMoves
<1> QED BY <1>3, <1>4

\* WorkerStarts: it begins only while the call has the slot.
LEMMA WorkerStartsKeeps == ASSUME SlotIInv, NEW c \in Calls, WorkerStarts(c) PROVE SlotIInv'
<1>1. PICK k \in Reviewing : k = calls[c] /\ CallOK(k, slot = c) /\ k.worker = "created"
  BY ThisCall DEF WorkerStarts
<1>2. CASE k.released
  <2>1. PICK m : m = [k EXCEPT !.worker = "none"]
    OBVIOUS
  <2>2. m \in Reviewing /\ m.worker = "none" /\ m.caller = k.caller /\ m.result = k.result /\ m.late = k.late
    BY <2>1 DEF Reviewing
  <2>3. CallOK(m, FALSE)
    BY <1>1, <2>2 DEF CallOK
  <2>4. PICK n \in Reviewing : n = Settled(m) /\ CallOK(n, FALSE)
    BY <2>2, <2>3, NoCallOK DEF Settled
  <2>5. calls' = [calls EXCEPT ![c] = n] /\ UNCHANGED slot
    BY <1>1, <1>2, <2>1, <2>4 DEF WorkerStarts
  <2>6. slot # c
    BY <1>1, <1>2 DEF CallOK
  <2>7. CallOK(n, slot' = c)
    BY <2>4, <2>5, <2>6 DEF CallOK
  <2> QED BY <2>5, <2>7, OneCallChanges
<1>3. CASE ~k.released
  <2>1. PICK n : n = [k EXCEPT !.worker = "asking"]
    OBVIOUS
  <2>2. n \in Reviewing /\ n.worker = "asking" /\ n.caller = k.caller /\ n.result = k.result /\ n.late = k.late
    BY <2>1 DEF Reviewing
  <2>3. n.released = k.released
    BY <2>1 DEF Reviewing
  <2>4. CallOK(n, slot = c)
    BY <1>1, <1>3, <2>2, <2>3 DEF CallOK
  <2>5. Settled(n) = n
    BY <2>2 DEF Settled
  <2>6. calls' = [calls EXCEPT ![c] = n] /\ UNCHANGED slot
    BY <1>1, <1>3, <2>1, <2>5 DEF WorkerStarts
  <2>7. CallOK(n, slot' = c)
    BY <2>4, <2>6 DEF CallOK
  <2> QED BY <2>2, <2>6, <2>7, OneCallChanges
<1> QED BY <1>2, <1>3

\* WorkerEnds gives back the slot of its own call.
LEMMA WorkerEndsKeeps ==
    ASSUME SlotIInv, NEW c \in Calls, NEW outcome \in Verdicts,
           calls[c].worker \in {"asking", "posting"}, WorkerEnds(c, calls[c], outcome)
    PROVE  SlotIInv'
<1>1. PICK k \in Reviewing : k = calls[c] /\ CallOK(k, slot = c) /\ k.worker \in {"asking", "posting"}
  BY ThisCall
<1>2. ~k.released /\ slot = c /\ c # 0
  BY <1>1, ThisCall DEF CallOK
<1>3. PICK w \in {"none", "done"} : w = IF k.caller = "none" THEN "none" ELSE "done"
  OBVIOUS
<1>4. PICK m : m = [k EXCEPT !.worker = w, !.outcome = outcome, !.released = @ \/ TRUE]
  OBVIOUS
<1>5. m \in Reviewing /\ m.worker = w /\ m.caller = k.caller /\ m.result = k.result /\ m.late = k.late
  BY <1>3, <1>4 DEF Reviewing
<1>6. CallOK(m, FALSE)
  BY <1>1, <1>3, <1>5 DEF CallOK
<1>7. PICK n \in Reviewing : n = Settled(m) /\ CallOK(n, FALSE)
  BY <1>5, <1>6, NoCallOK DEF Settled
<1>8. may_release(k, FALSE)
  BY <1>2 DEF may_release
<1>9. slot' = 0
  BY <1>1, <1>8 DEF WorkerEnds
<1>10. calls' = [calls EXCEPT ![c] = n]
  BY <1>1, <1>3, <1>4, <1>7, <1>8 DEF WorkerEnds
<1>11. CallOK(n, slot' = c)
  BY <1>2, <1>7, <1>9 DEF CallOK
<1> QED BY <1>2, <1>9, <1>10, <1>11, OneCallChanges

\* A worker that goes on has the slot still.
LEMMA WorkerGoesOn ==
    ASSUME SlotIInv, NEW c \in Calls, NEW n \in Reviewing, calls' = [calls EXCEPT ![c] = n], UNCHANGED slot,
           calls[c].worker \in {"asking", "posting"}, n.worker \in {"asking", "posting"},
           n.released = calls[c].released, n.caller = calls[c].caller, n.result = calls[c].result,
           n.late = calls[c].late
    PROVE  SlotIInv'
<1>1. CallOK(calls[c], slot = c)
  BY ThisCall
<1>2. CallOK(n, slot' = c)
  BY <1>1 DEF CallOK
<1> QED BY <1>2, OneCallChanges

\* WorkerAsks
LEMMA WorkerAsksKeeps == ASSUME SlotIInv, NEW c \in Calls, WorkerAsks(c) PROVE SlotIInv'
<1>1. PICK k \in Reviewing : k = calls[c] /\ k.worker = "asking"
  BY ThisCall DEF WorkerAsks
<1>2. CASE GaveUp(k)
  <2>1. WorkerEnds(c, k, "TIMEOUT") /\ "TIMEOUT" \in Verdicts
    BY <1>1, <1>2 DEF WorkerAsks, Verdicts
  <2> QED BY <1>1, <2>1, WorkerEndsKeeps
<1>3. CASE ~GaveUp(k) /\ k.tries = MaxTries
  <2>1. PICK outcome \in Verdicts : outcome = IF k.last = "timeout" THEN "TIMEOUT" ELSE "UNAVAILABLE"
    BY DEF Verdicts
  <2>2. WorkerEnds(c, k, outcome)
    BY <1>1, <1>3, <2>1 DEF WorkerAsks
  <2> QED BY <1>1, <2>2, WorkerEndsKeeps
<1>4. CASE ~GaveUp(k) /\ k.tries # MaxTries
  <2>0. PICK t \in Nat : t = k.tries + 1
    BY DEF Reviewing
  <2>1. PICK n : n = [k EXCEPT !.tries = t, !.worker = "posting"]
    OBVIOUS
  <2>2. n \in Reviewing /\ n.worker = "posting" /\ n.caller = k.caller /\ n.result = k.result /\ n.late = k.late
    BY <2>1 DEF Reviewing
  <2>3. n.released = k.released
    BY <2>1 DEF Reviewing
  <2>4. calls' = [calls EXCEPT ![c] = n] /\ UNCHANGED slot
    BY <1>1, <1>4, <2>0, <2>1 DEF WorkerAsks
  <2> QED BY <1>1, <2>2, <2>3, <2>4, WorkerGoesOn
<1> QED BY <1>2, <1>3, <1>4

\* PostReturns
LEMMA PostReturnsKeeps ==
    ASSUME SlotIInv, NEW c \in Calls, NEW answer \in Answers, PostReturns(c, answer) PROVE SlotIInv'
<1>1. PICK k \in Reviewing : k = calls[c] /\ k.worker = "posting"
  BY ThisCall DEF PostReturns
<1>2. PICK n : n = [k EXCEPT !.worker = "asking", !.last = answer]
  OBVIOUS
<1>3. n \in Reviewing /\ n.worker = "asking" /\ n.caller = k.caller /\ n.result = k.result /\ n.late = k.late
  BY <1>2 DEF Reviewing
<1>4. n.released = k.released
  BY <1>2 DEF Reviewing
<1>5. CASE calls' = [calls EXCEPT ![c] = n] /\ UNCHANGED slot
  BY <1>1, <1>3, <1>4, <1>5, WorkerGoesOn
<1>6. CASE \E outcome \in Verdicts : WorkerEnds(c, k, outcome)
  BY <1>1, <1>6, WorkerEndsKeeps
<1>7. "raised" \in Verdicts /\ "TIMEOUT" \in Verdicts /\ "OK" \in Verdicts
  BY DEF Verdicts
<1>8. CASE answer = "raises"
  <2>1. WorkerEnds(c, k, "raised")
    BY <1>1, <1>8 DEF PostReturns
  <2> QED BY <1>6, <1>7, <2>1
<1>9. CASE answer \in {"timeout", "error"}
  <2>1. calls' = [calls EXCEPT ![c] = n] /\ UNCHANGED slot
    BY <1>1, <1>2, <1>9 DEF PostReturns
  <2> QED BY <1>5, <2>1
<1>10. CASE answer \in {"invalid", "valid"} /\ GaveUp(k)
  <2>1. WorkerEnds(c, k, "TIMEOUT")
    BY <1>1, <1>10 DEF PostReturns
  <2> QED BY <1>6, <1>7, <2>1
<1>11. CASE answer = "invalid" /\ ~GaveUp(k)
  <2>1. calls' = [calls EXCEPT ![c] = n] /\ UNCHANGED slot
    BY <1>1, <1>2, <1>11 DEF PostReturns
  <2> QED BY <1>5, <2>1
<1>12. CASE answer = "valid" /\ ~GaveUp(k)
  <2>1. WorkerEnds(c, k, "OK")
    BY <1>1, <1>12 DEF PostReturns
  <2> QED BY <1>6, <1>7, <2>1
<1> QED BY <1>8, <1>9, <1>10, <1>11, <1>12 DEF Answers

\* CallerReturns: after the deadline nothing is taken.
LEMMA CallerReturnsKeeps == ASSUME SlotIInv, NEW c \in Calls, CallerReturns(c) PROVE SlotIInv'
<1>1. PICK k \in Reviewing : k = calls[c] /\ k.caller = "waiting"
  BY ThisCall DEF CallerReturns
<1>2. PICK r \in Verdicts : r = returned(k)
  BY DEF returned, Reviewing, Verdicts
<1>3. r = "OK" => ~k.late
  BY <1>2 DEF returned
<1>4. PICK n : n = [k EXCEPT !.caller = "back", !.cancelled = k.late, !.result = r]
  OBVIOUS
<1>5. n \in Reviewing
  BY <1>4 DEF Reviewing
<1>6. n.worker = k.worker /\ n.caller = "back" /\ n.result = r
  BY <1>4 DEF Reviewing
<1>7. n.released = k.released
  BY <1>4 DEF Reviewing
<1>8. n.late = k.late
  BY <1>4 DEF Reviewing
<1>9. calls' = [calls EXCEPT ![c] = n] /\ UNCHANGED slot
  BY <1>1, <1>2, <1>4 DEF CallerReturns
<1> QED BY <1>1, <1>3, <1>5, <1>6, <1>7, <1>8, <1>9, CallerMoves

\* DeadlinePasses: the caller has no result yet.
LEMMA DeadlineKeeps == ASSUME SlotIInv, NEW c \in Calls, DeadlinePasses(c) PROVE SlotIInv'
<1>1. PICK k \in Reviewing : k = calls[c] /\ k.caller \in {"starting", "waiting"} /\ k.result = "none"
  BY ThisCall DEF DeadlinePasses, CallOK
<1>2. PICK n : n = [k EXCEPT !.late = TRUE]
  OBVIOUS
<1>3. n \in Reviewing /\ n.worker = k.worker /\ n.caller = k.caller /\ n.result = k.result
  BY <1>2 DEF Reviewing
<1>4. n.released = k.released
  BY <1>2 DEF Reviewing
<1>5. calls' = [calls EXCEPT ![c] = n] /\ UNCHANGED slot
  BY <1>1, <1>2 DEF DeadlinePasses
<1> QED BY <1>1, <1>3, <1>4, <1>5, CallerMoves

\* ResultTaken: a worker that still runs is left with the slot.
LEMMA TakenKeeps == ASSUME SlotIInv, NEW c \in Calls, ResultTaken(c) PROVE SlotIInv'
<1>1. PICK k \in Reviewing : k = calls[c] /\ CallOK(k, slot = c)
  BY ThisCall
<1>2. CASE k.worker \in {"done", "none"}
  <2>1. calls' = [calls EXCEPT ![c] = NoCall] /\ UNCHANGED slot
    BY <1>1, <1>2 DEF ResultTaken
  <2>2. slot # c
    BY <1>1, <1>2 DEF CallOK
  <2>3. CallOK(NoCall, slot' = c)
    BY <2>1, <2>2, NoCallOK DEF CallOK
  <2> QED BY <2>1, <2>3, NoCallOK, OneCallChanges
<1>3. CASE k.worker \notin {"done", "none"}
  <2>1. PICK n : n = [k EXCEPT !.caller = "none"]
    OBVIOUS
  <2>2. n \in Reviewing /\ n.worker = k.worker /\ n.caller = "none" /\ n.result = k.result /\ n.late = k.late
    BY <2>1 DEF Reviewing
  <2>3. n.released = k.released
    BY <2>1 DEF Reviewing
  <2>4. calls' = [calls EXCEPT ![c] = n] /\ UNCHANGED slot
    BY <1>1, <1>3, <2>1 DEF ResultTaken
  <2>5. n.result = "OK" => ~n.late
    BY <1>1, <2>2 DEF CallOK
  <2> QED BY <1>1, <2>2, <2>3, <2>4, <2>5, CallerMoves
<1> QED BY <1>2, <1>3

\* Init: nobody reviews.
LEMMA SlotStarts == QwenInit => SlotIInv
<1> SUFFICES ASSUME QwenInit PROVE SlotIInv
  OBVIOUS
<1>1. slot = 0 /\ calls = [c \in Calls |-> NoCall] /\ 0 \notin Calls
  BY QwenAssumption DEF QwenAssumption, QwenInit
<1>2. calls \in [Calls -> Reviewing]
  BY <1>1, NoCallOK
<1>3. \A c \in Calls : slot # c /\ calls[c] = NoCall
  BY <1>1
<1>4. \A c \in Calls : CallOK(calls[c], slot = c)
  BY <1>3, NoCallOK DEF CallOK
<1> QED BY <1>1, <1>2, <1>4 DEF SlotIInv

\* Every step of every call.
LEMMA SlotKeeps == SlotIInv /\ [QwenNext]_qwenVars => SlotIInv'
<1> SUFFICES ASSUME SlotIInv, [QwenNext]_qwenVars PROVE SlotIInv'
  OBVIOUS
<1>1. CASE UNCHANGED qwenVars
  BY <1>1 DEF qwenVars, SlotIInv, CallOK
<1>2. CASE QwenNext
  <2>1. PICK c \in Calls :
           \/ \E profile \in BOOLEAN : review_Begins(c, profile)
           \/ ResultTaken(c)
           \/ StartReturns(c) \/ CallerRaises(c) \/ WorkerStarts(c) \/ WorkerAsks(c)
           \/ CallerReturns(c) \/ DeadlinePasses(c)
           \/ \E answer \in Answers : PostReturns(c, answer)
    BY <1>2 DEF QwenNext
  <2> QED BY <2>1, ReviewBegins, TakenKeeps, StartReturnsKeeps, CallerRaisesKeeps, WorkerStartsKeeps,
             WorkerAsksKeeps, CallerReturnsKeeps, DeadlineKeeps, PostReturnsKeeps
<1> QED BY <1>1, <1>2

\* The invariant gives the property.
LEMMA SlotIInvSound == SlotIInv => SlotInv
<1> SUFFICES ASSUME SlotIInv PROVE SlotInv
  OBVIOUS
<1>1. \A c \in Busy : slot = c
  BY DEF SlotIInv, Busy, CallOK
<1>2. Cardinality(Busy) <= 1
  <2>1. Busy \subseteq {slot}
    BY <1>1
  <2>2. IsFiniteSet({slot}) /\ Cardinality({slot}) = 1
    BY FS_Singleton
  <2>3. Cardinality(Busy) <= Cardinality({slot})
    BY <2>1, <2>2, FS_Subset
  <2> QED BY <2>2, <2>3
<1>3. slot # 0 => calls[slot].worker \in {"created", "asking", "posting"}
  BY DEF SlotIInv, CallOK
<1>4. ASSUME NEW c \in Calls, calls[c].result \notin {"none", "raised", "UNAVAILABLE", "TIMEOUT"}
      PROVE  ~calls[c].late
  <2>1. calls[c] \in Reviewing
    BY ThisCall
  <2>2. calls[c].result = "OK"
    BY <1>4, <2>1 DEF Reviewing, Verdicts
  <2> QED BY <2>2, ThisCall DEF CallOK
<1> QED BY <1>1, <1>2, <1>3, <1>4 DEF SlotInv

\* The slot of the local review (_INFERENCE_SLOT, release_slot, _review_batch):
\* for any number of calls and tries.
LEMMA SlotSound == QwenSpec => []SlotInv
<1>1. QwenInit => SlotIInv
  BY SlotStarts
<1>2. SlotIInv /\ [QwenNext]_qwenVars => SlotIInv'
  BY SlotKeeps
<1>3. SlotIInv => SlotInv
  BY SlotIInvSound
<1> QED BY <1>1, <1>2, <1>3, PTL DEF QwenSpec

-----------------------------------------------------------------------------
(* The cycle.                                                              *)

Decisions == {"IGNORE", "SONNET", "FABLE"}

\* Where a cycle is: before the router, or after it.
Early == {"market", "l1", "l2", "l3", "refresh", "seal", "qwen"}
Late == {"record", "paper", "pilot", "alerts", "insert"}

Cycle == [pc : Early \cup Late \cup {"idle", "route"}, full : BOOLEAN, S : SUBSET Scanned, age : Nat,
          again : SUBSET Scanned, againAge : Nat, asked : SUBSET Scanned, status : Results \cup {"SKIPPED"},
          todo : SUBSET Scanned, new : SUBSET Nat, failed : BOOLEAN]
Decided == Seq(Scanned \X Decisions)
ReviewBatch == [finalists : SUBSET Scanned, decisions : Decided, result : Results \cup {"none", "ERROR"}]
Event == [asset : Scanned, run : Nat, open : BOOLEAN, paper : Nat, pilot : Nat]
LogLine == [run : Nat, failed : BOOLEAN]

CycleTypeOK ==
    /\ hb \in Cycle /\ batches \in Seq(ReviewBatch) /\ decided \in Seq(Decided)
    /\ Len(decided) = Len(batches) /\ (hb.pc # "idle" => Run # 0)
    /\ shadow \in [pc : {"none", "review", "ending"}, run : Nat]
    /\ completed \in Seq(Nat) /\ born \in Seq(Event)
    /\ runlog \in SUBSET LogLine /\ runs \in SUBSET Nat

\* The cycle remembers exactly the events it created; where it is tells to whom
\* they were offered, unless it counted a failure.
NewRemembered ==
    /\ hb.pc # "idle" => hb.new = {i \in DOMAIN born : born[i].run = Run}
    /\ hb.pc \in Early => hb.new = {}
    /\ \A i \in DOMAIN born : born[i].run \in 1..Run /\ born[i].paper <= 1 /\ born[i].pilot <= 1

NewOffered ==
    \A i \in DOMAIN born : born[i].run = Run =>
        /\ hb.pc \in {"route", "record", "paper"} => born[i].paper = 0
        /\ hb.pc \in {"route", "record", "paper", "pilot"} => born[i].pilot = 0
        /\ hb.pc \in {"pilot", "alerts", "insert"} /\ ~hb.failed => born[i].paper = 1
        /\ hb.pc \in {"alerts", "insert"} /\ ~hb.failed => born[i].pilot = 1

OneOpen == \A i, j \in DOMAIN born : born[i].open /\ born[j].open /\ born[i].asset = born[j].asset => i = j

\* A line of the run log belongs to a cycle that has offered its events, or
\* says that it has not.
LogTrue ==
    /\ \A record \in runlog :
         /\ record.run \in 1..Run /\ (record.run = Run => hb.pc \in {"insert", "idle"})
         /\ ~record.failed => \A i \in DOMAIN born : born[i].run = record.run => born[i].paper = 1 /\ born[i].pilot = 1
    /\ hb.pc = "insert" => \E record \in runlog : record.run = Run
    /\ runs \subseteq {record.run : record \in runlog}

\* A batch that is whole has the decision of each of its finalists.
Has(list, a) == \E i \in DOMAIN list : list[i][1] = a
Whole(b, list) == b.finalists # {} => b.decisions = list /\ \A a \in b.finalists : Has(list, a)

\* The batches that may still be drained: those of the cycles before, and that
\* of this one once the router has ended.
Drainable(r) == (shadow.pc = "review" /\ r = shadow.run) \/ \E k \in DOMAIN completed : completed[k] = r
BatchesWhole ==
    /\ \A r \in Nat : Drainable(r) => r \in 1..Run /\ (r # Run \/ hb.pc # "route" => Whole(batches[r], decided[r]))
    /\ hb.pc \in Late => Whole(batches[Run], decided[Run])
    /\ hb.pc \in Early => batches[Run].finalists = {}
    /\ hb.pc = "route" => /\ batches[Run].finalists \subseteq hb.S
                          /\ \A a \in hb.S : a \in hb.todo \/ Has(decided[Run], a)

\* A stored review has the decision of its cycle, which decides nothing more.
ReviewsTrue ==
    /\ \A row \in reviews : /\ row.run \in 1..Run /\ (row.run = Run => hb.pc \in Late \cup {"idle"})
                            /\ row.decision # "none" /\ row.decision = DecisionIn(decided[row.run], row.asset)
    /\ \A x, y \in reviews : x.run = y.run /\ x.asset = y.asset => x = y

CycleIInv == CycleTypeOK /\ NewRemembered /\ NewOffered /\ OneOpen /\ LogTrue /\ BatchesWhole /\ ReviewsTrue

\* Before the router nothing of the cycle has left it.
LEMMA EarlyStep ==
    ASSUME CycleIInv, hb.pc \in Early, hb' \in Cycle, hb'.pc \in Early \cup {"route", "record"},
           hb'.new = {}, hb'.pc = "route" => hb'.todo = hb'.S,
           UNCHANGED <<shadow, completed, batches, decided, reviews, born, runlog, runs>>
    PROVE  CycleIInv'
<1>1. hb.pc \notin {"idle", "insert", "route"} /\ hb.pc \notin Late /\ hb'.pc # "idle" /\ hb'.pc # "insert"
  BY DEF Early, Late
<1>2. Run' = Run
  BY DEF Run
<1>3. hb.new = {} /\ \A i \in DOMAIN born : born[i].run # Run
  BY <1>1 DEF CycleIInv, NewRemembered
<1>4. CycleTypeOK'
  BY <1>1, <1>2 DEF CycleIInv, CycleTypeOK
<1>5. NewRemembered' /\ NewOffered' /\ OneOpen'
  BY <1>2, <1>3 DEF CycleIInv, NewRemembered, NewOffered, OneOpen
<1>6. LogTrue'
  BY <1>1, <1>2 DEF CycleIInv, LogTrue
<1>7. BatchesWhole'
  <2>1. \A r \in Nat : Drainable(r)' <=> Drainable(r)
    BY DEF Drainable
  <2>2. batches[Run].finalists = {}
    BY DEF CycleIInv, BatchesWhole
  <2> QED BY <1>1, <1>2, <2>1, <2>2 DEF CycleIInv, BatchesWhole, Whole
<1>8. ReviewsTrue'
  BY <1>1, <1>2 DEF CycleIInv, ReviewsTrue
<1> QED BY <1>4, <1>5, <1>6, <1>7, <1>8 DEF CycleIInv

\* The levels, and the time between them.
LEMMA LevelsKeep ==
    ASSUME CycleIInv, NEW clock \in BOOLEAN, NEW A \in SUBSET Scanned,
           \/ ReadMarket(A) \/ RunL1(clock, A) \/ RunL2(A) \/ RunL3(A) \/ RefreshTickers(A)
           \/ SealEvidence(clock, A) \/ SkipReview(A) \/ StageTakesTime
    PROVE  CycleIInv'
<1>1. hb \in Cycle /\ hb.S \in SUBSET Scanned
  BY DEF CycleIInv, CycleTypeOK, Cycle
<1>2. hb.pc \in Early /\ hb.new = {}
  BY DEF ReadMarket, RunL1, RunL2, RunL3, RefreshTickers, SealEvidence, SkipReview, StageTakesTime,
         Early, CycleIInv, NewRemembered
<1>3. UNCHANGED <<shadow, completed, batches, decided, reviews, born, runlog, runs>>
  BY DEF ReadMarket, RunL1, RunL2, RunL3, RefreshTickers, SealEvidence, SkipReview, StageTakesTime
<1>4. CASE ReadMarket(A)
  <2>1. hb' = [hb EXCEPT !.pc = "l1", !.S = A]
    BY <1>4 DEF ReadMarket
  <2>2. hb' \in Cycle /\ hb'.pc \in Early /\ hb'.pc # "route" /\ hb'.new = {}
    BY <1>1, <1>2, <2>1 DEF Cycle, Early
  <2> QED BY <1>2, <1>3, <2>2, EarlyStep
<1>5. CASE RunL1(clock, A)
  <2>1. PICK T \in SUBSET Scanned : hb' = [hb EXCEPT !.pc = "l2", !.S = T]
    <3>1. PICK T : /\ T \in kSubset(Min({ShortlistSize, Cardinality(consumable(hb.S \cap A, clock))}), consumable(hb.S \cap A, clock))
                   /\ hb' = [hb EXCEPT !.pc = "l2", !.S = T]
      BY <1>5 DEF RunL1
    <3> QED BY <1>1, <3>1 DEF kSubset, consumable
  <2>2. hb' \in Cycle /\ hb'.pc \in Early /\ hb'.pc # "route" /\ hb'.new = {}
    BY <1>1, <1>2, <2>1 DEF Cycle, Early
  <2> QED BY <1>2, <1>3, <2>2, EarlyStep
<1>6. CASE RunL2(A)
  <2>1. CASE hb.full
    <3>1. PICK T \in SUBSET Scanned : T = hb.S \cap A
      BY <1>1
    <3>2. hb' = [hb EXCEPT !.S = T, !.pc = "l3"]
      BY <1>6, <2>1, <3>1 DEF RunL2
    <3>3. hb' \in Cycle /\ hb'.pc \in Early /\ hb'.pc # "route" /\ hb'.new = {}
      BY <1>1, <1>2, <3>2 DEF Cycle, Early
    <3> QED BY <1>2, <1>3, <3>3, EarlyStep
  <2>2. CASE ~hb.full
    <3>1. hb' = [Resting EXCEPT !.pc = "record"]
      BY <1>6, <2>2 DEF RunL2
    <3>2. hb' \in Cycle /\ hb'.pc = "record" /\ hb'.new = {}
      BY <3>1 DEF Resting, Cycle, Late
    <3> QED BY <1>2, <1>3, <3>2, EarlyStep
  <2> QED BY <2>1, <2>2
<1>7. CASE RunL3(A)
  <2>1. hb' = [hb EXCEPT !.S = A, !.pc = "refresh"]
    BY <1>7 DEF RunL3
  <2>2. hb' \in Cycle /\ hb'.pc \in Early /\ hb'.pc # "route" /\ hb'.new = {}
    BY <1>1, <1>2, <2>1 DEF Cycle, Early
  <2> QED BY <1>2, <1>3, <2>2, EarlyStep
<1>8. CASE RefreshTickers(A)
  <2>1. PICK T \in SUBSET Scanned : T = IF hb.age > TickerMaxAge THEN A \cap hb.S ELSE {}
    BY <1>1
  <2>2. hb' = [hb EXCEPT !.pc = "seal", !.againAge = 0, !.again = T]
    BY <1>8, <2>1 DEF RefreshTickers
  <2>3. hb' \in Cycle /\ hb'.pc \in Early /\ hb'.pc # "route" /\ hb'.new = {}
    BY <1>1, <1>2, <2>2 DEF Cycle, Early
  <2> QED BY <1>2, <1>3, <2>3, EarlyStep
<1>9. CASE SealEvidence(clock, A)
  <2>1. PICK T \in SUBSET Scanned : T = {a \in consumable(hb.S \cap A, clock) : seal_tickers(a) <= TickerMaxAge}
    BY <1>1 DEF consumable
  <2>2. hb' = [hb EXCEPT !.pc = "qwen", !.age = 0, !.againAge = 0, !.again = {}, !.S = T]
    BY <1>9, <2>1 DEF SealEvidence
  <2>3. hb' \in Cycle /\ hb'.pc \in Early /\ hb'.pc # "route" /\ hb'.new = {}
    BY <1>1, <1>2, <2>2 DEF Cycle, Early
  <2> QED BY <1>2, <1>3, <2>3, EarlyStep
<1>10. CASE SkipReview(A)
  <2>1. hb' = [hb EXCEPT !.pc = "route", !.todo = hb.S]
    BY <1>10 DEF SkipReview
  <2>2. hb' \in Cycle /\ hb'.pc = "route" /\ hb'.new = {} /\ hb'.todo = hb'.S
    BY <1>1, <1>2, <2>1 DEF Cycle
  <2> QED BY <1>2, <1>3, <2>2, EarlyStep
<1>11. CASE StageTakesTime
  <2>1. PICK x \in Nat, y \in Nat : x = hb.age + 1 /\ y = hb.againAge + 1
    BY <1>1 DEF Cycle
  <2>2. hb' = [hb EXCEPT !.age = x, !.againAge = y] /\ hb.pc # "route"
    BY <1>11, <2>1 DEF StageTakesTime
  <2>3. hb' \in Cycle /\ hb'.pc = hb.pc /\ hb'.new = {}
    BY <1>1, <1>2, <2>2 DEF Cycle
  <2> QED BY <1>2, <1>3, <2>2, <2>3, EarlyStep
<1> QED BY <1>4, <1>5, <1>6, <1>7, <1>8, <1>9, <1>10, <1>11

\* A cycle starts: its batch is the next one.
LEMMA StartCycleKeeps == ASSUME CycleIInv, NEW full \in BOOLEAN, StartCycle(full) PROVE CycleIInv'
<1>1. /\ batches \in Seq(ReviewBatch) /\ decided \in Seq(Decided) /\ Len(decided) = Len(batches)
      /\ hb.pc = "idle" /\ batches' = Append(batches, NoBatch) /\ decided' = Append(decided, <<>>)
      /\ UNCHANGED <<shadow, completed, reviews, born, runlog, runs>>
  BY DEF CycleIInv, CycleTypeOK, StartCycle
<1>2. NoBatch \in ReviewBatch /\ <<>> \in Decided /\ NoBatch.finalists = {}
  BY DEF NoBatch, ReviewBatch, Decided
<1>3. /\ Run \in Nat /\ Run' = Run + 1 /\ Len(decided') = Run + 1
      /\ batches' \in Seq(ReviewBatch) /\ decided' \in Seq(Decided)
      /\ batches'[Run'] = NoBatch
      /\ \A r \in 1..Run : batches'[r] = batches[r] /\ decided'[r] = decided[r]
  BY <1>1, <1>2 DEF Run
<1>4. hb' = [Resting EXCEPT !.pc = "market", !.full = full]
  BY DEF StartCycle
<1>5. hb' \in Cycle /\ hb'.pc = "market" /\ hb'.new = {}
  BY <1>4 DEF Resting, Cycle, Early
<1>6. CycleTypeOK'
  BY <1>1, <1>3, <1>5 DEF CycleIInv, CycleTypeOK, Run
<1>7. \A i \in DOMAIN born : born[i].run \in 1..Run
  BY DEF CycleIInv, NewRemembered
<1>8. NewRemembered' /\ NewOffered' /\ OneOpen'
  BY <1>1, <1>3, <1>5, <1>7 DEF CycleIInv, NewRemembered, NewOffered, OneOpen
<1>9. LogTrue'
  BY <1>1, <1>3, <1>5 DEF CycleIInv, LogTrue
<1>10. BatchesWhole'
  <2>1. \A r \in Nat : Drainable(r)' <=> Drainable(r)
    BY <1>1 DEF Drainable
  <2>2. ASSUME NEW r \in Nat, Drainable(r) PROVE r \in 1..Run' /\ Whole(batches'[r], decided'[r])
    <3>1. r \in 1..Run /\ Whole(batches[r], decided[r])
      BY <1>1, <2>2 DEF CycleIInv, BatchesWhole
    <3> QED BY <1>3, <3>1
  <2>3. hb'.pc \notin Late /\ hb'.pc # "route" /\ batches'[Run'].finalists = {}
    BY <1>2, <1>3, <1>5 DEF Late
  <2> QED BY <2>1, <2>2, <2>3 DEF BatchesWhole
<1>11. ReviewsTrue'
  BY <1>1, <1>3, <1>5 DEF CycleIInv, ReviewsTrue
<1> QED BY <1>6, <1>8, <1>9, <1>10, <1>11 DEF CycleIInv

\* A batch is submitted: of sealed finalists, each of which the router will see.
LEMMA SubmitStep ==
    ASSUME CycleIInv, hb.pc = "qwen", hb' \in Cycle, hb'.pc = "route", hb'.new = hb.new, hb'.todo = hb'.S,
           NEW nb \in ReviewBatch, nb.finalists \subseteq hb'.S, batches' = [batches EXCEPT ![Run] = nb],
           shadow' = shadow \/ shadow' = [pc |-> "review", run |-> Run],
           UNCHANGED <<completed, decided, reviews, born, runlog, runs>>
    PROVE  CycleIInv'
<1>1. /\ batches \in Seq(ReviewBatch) /\ Len(decided) = Len(batches) /\ Run \in Nat /\ Run # 0
      /\ hb.pc \in Early /\ hb.pc \notin Late /\ hb'.pc \notin Early /\ hb'.pc \notin Late
  BY DEF CycleIInv, CycleTypeOK, Run, Early, Late
<1>2. /\ Run' = Run /\ batches' \in Seq(ReviewBatch) /\ batches'[Run] = nb
      /\ \A r \in 1..Run : r # Run => batches'[r] = batches[r]
  BY <1>1 DEF Run
<1>3. shadow' \in [pc : {"none", "review", "ending"}, run : Nat]
  BY <1>1 DEF CycleIInv, CycleTypeOK
<1>4. CycleTypeOK'
  BY <1>1, <1>2, <1>3 DEF CycleIInv, CycleTypeOK, Run
<1>5. hb.new = {} /\ \A i \in DOMAIN born : born[i].run # Run
  BY <1>1 DEF CycleIInv, NewRemembered
<1>6. NewRemembered' /\ NewOffered' /\ OneOpen'
  BY <1>1, <1>2, <1>5 DEF CycleIInv, NewRemembered, NewOffered, OneOpen
<1>7. LogTrue'
  BY <1>1, <1>2 DEF CycleIInv, LogTrue
<1>8. BatchesWhole'
  <2>1. \A r \in Nat : Drainable(r)' => Drainable(r) \/ r = Run
    BY DEF Drainable
  <2>2. ASSUME NEW r \in Nat, Drainable(r)' PROVE r \in 1..Run /\ (r # Run => Whole(batches'[r], decided[r]))
    BY <1>1, <1>2, <2>1, <2>2 DEF CycleIInv, BatchesWhole
  <2> QED BY <1>1, <1>2, <2>2 DEF BatchesWhole
<1>9. ReviewsTrue'
  BY <1>1, <1>2 DEF CycleIInv, ReviewsTrue
<1> QED BY <1>4, <1>6, <1>7, <1>8, <1>9 DEF CycleIInv

\* InlineReview
LEMMA InlineKeeps ==
    ASSUME CycleIInv, NEW A \in SUBSET Scanned, NEW result \in Results, InlineReview(A, result)
    PROVE  CycleIInv'
<1>1. hb \in Cycle /\ hb.S \in SUBSET Scanned /\ A \subseteq hb.S /\ hb.pc = "qwen" /\ Run \in 1..Len(batches)
      /\ batches \in Seq(ReviewBatch)
  BY DEF CycleIInv, CycleTypeOK, Cycle, InlineReview, Run
<1>2. hb' = [hb EXCEPT !.pc = "route", !.todo = hb.S, !.asked = A, !.status = result]
  BY DEF InlineReview
<1>3. hb' \in Cycle /\ hb'.pc = "route" /\ hb'.new = hb.new /\ hb'.todo = hb'.S /\ hb'.S = hb.S
  BY <1>1, <1>2 DEF Cycle
<1>4. PICK b \in ReviewBatch : b = batches[Run]
  BY <1>1
<1>5. PICK nb : nb = [b EXCEPT !.finalists = A, !.result = result]
  OBVIOUS
<1>6. nb \in ReviewBatch /\ nb.finalists = A
  BY <1>5 DEF ReviewBatch
<1>7. batches' = [batches EXCEPT ![Run] = nb] /\ UNCHANGED <<shadow, completed, decided, reviews, born, runlog, runs>>
  BY <1>4, <1>5 DEF InlineReview
<1> QED BY <1>1, <1>3, <1>6, <1>7, SubmitStep

\* ShadowSubmit
LEMMA ShadowSubmitKeeps ==
    ASSUME CycleIInv, NEW A \in SUBSET Scanned, ShadowSubmit(A) PROVE CycleIInv'
<1>1. hb \in Cycle /\ hb.S \in SUBSET Scanned /\ A \subseteq hb.S /\ hb.pc = "qwen" /\ Run \in 1..Len(batches)
      /\ batches \in Seq(ReviewBatch)
  BY DEF CycleIInv, CycleTypeOK, Cycle, ShadowSubmit, Run
<1>2. hb' = [hb EXCEPT !.pc = "route", !.todo = hb.S] /\ UNCHANGED <<completed, decided, reviews, born, runlog, runs>>
  BY DEF ShadowSubmit
<1>3. hb' \in Cycle /\ hb'.pc = "route" /\ hb'.new = hb.new /\ hb'.todo = hb'.S /\ hb'.S = hb.S
  BY <1>1, <1>2 DEF Cycle
<1>4. CASE shadow.pc # "none" \/ inferring
  <2>1. UNCHANGED <<shadow, batches>>
    BY <1>4 DEF ShadowSubmit
  <2>2. hb.pc \in Early /\ hb.new = {}
    BY <1>1 DEF Early, CycleIInv, NewRemembered
  <2> QED BY <1>2, <1>3, <2>1, <2>2, EarlyStep
<1>5. CASE ~(shadow.pc # "none" \/ inferring)
  <2>1. PICK b \in ReviewBatch : b = batches[Run]
    BY <1>1
  <2>2. PICK nb : nb = [b EXCEPT !.finalists = A]
    OBVIOUS
  <2>3. nb \in ReviewBatch /\ nb.finalists = A
    BY <2>2 DEF ReviewBatch
  <2>4. batches' = [batches EXCEPT ![Run] = nb] /\ shadow' = [pc |-> "review", run |-> Run]
    BY <1>5, <2>1, <2>2 DEF ShadowSubmit
  <2> QED BY <1>1, <1>2, <1>3, <2>3, <2>4, SubmitStep
<1> QED BY <1>4, <1>5

\* ShadowPosts: the result changes nothing of who was asked or decided.
LEMMA ShadowPostsKeeps ==
    ASSUME CycleIInv, NEW result \in Results \cup {"ERROR"}, ShadowPosts(result) PROVE CycleIInv'
<1>1. /\ batches \in Seq(ReviewBatch) /\ completed \in Seq(Nat) /\ shadow.run \in Nat /\ shadow.pc = "review"
      /\ shadow \in [pc : {"none", "review", "ending"}, run : Nat]
      /\ UNCHANGED <<hb, decided, reviews, born, runlog, runs>>
      /\ completed' = Append(completed, shadow.run) /\ shadow' = [shadow EXCEPT !.pc = "ending"]
  BY DEF CycleIInv, CycleTypeOK, ShadowPosts
<1>2. shadow.run \in 1..Run
  BY <1>1 DEF CycleIInv, BatchesWhole, Drainable
<1>3. PICK b \in ReviewBatch : b = batches[shadow.run]
  BY <1>1, <1>2 DEF Run
<1>4. PICK nb : nb = [b EXCEPT !.result = result]
  OBVIOUS
<1>5. nb \in ReviewBatch /\ nb.finalists = b.finalists /\ nb.decisions = b.decisions
  BY <1>4 DEF ReviewBatch
<1>6. batches' = [batches EXCEPT ![shadow.run] = nb]
  BY <1>3, <1>4 DEF ShadowPosts
<1>7. /\ batches' \in Seq(ReviewBatch) /\ Len(batches') = Len(batches)
      /\ \A r \in 1..Run : batches'[r].finalists = batches[r].finalists /\ batches'[r].decisions = batches[r].decisions
  BY <1>1, <1>2, <1>3, <1>5, <1>6 DEF Run
<1>8. Run' = Run
  BY <1>7 DEF Run
<1>9. shadow' \in [pc : {"none", "review", "ending"}, run : Nat] /\ shadow'.pc = "ending" /\ completed' \in Seq(Nat)
  <2>1. shadow' \in [pc : {"none", "review", "ending"}, run : Nat] /\ shadow'.pc = "ending"
    BY <1>1
  <2>2. completed' \in Seq(Nat)
    BY <1>1
  <2> QED BY <2>1, <2>2
<1>10. CycleTypeOK'
  BY <1>1, <1>7, <1>8, <1>9 DEF CycleIInv, CycleTypeOK
<1>11. NewRemembered' /\ NewOffered' /\ OneOpen'
  BY <1>1, <1>8 DEF CycleIInv, NewRemembered, NewOffered, OneOpen
<1>12. LogTrue'
  BY <1>1, <1>8 DEF CycleIInv, LogTrue
<1>13. BatchesWhole'
  <2>1. ASSUME NEW r \in Nat, Drainable(r)' PROVE Drainable(r)
    <3>1. PICK k \in DOMAIN completed' : completed'[k] = r
      BY <1>9, <2>1 DEF Drainable
    <3>2. (k \in DOMAIN completed /\ completed[k] = r) \/ r = shadow.run
      BY <1>1, <3>1
    <3> QED BY <1>1, <3>2 DEF Drainable
  <2>2. \A r \in 1..Run : Whole(batches[r], decided[r]) => Whole(batches'[r], decided'[r])
    BY <1>1, <1>7 DEF Whole
  <2>3. hb.pc # "idle" => Run \in 1..Run
    BY DEF CycleIInv, CycleTypeOK, Run
  <2>4. \A r \in Nat : Drainable(r) => r \in 1..Run /\ (r # Run \/ hb.pc # "route" => Whole(batches[r], decided[r]))
    BY DEF CycleIInv, BatchesWhole
  <2>5. \A r \in Nat : Drainable(r)' => r \in 1..Run' /\ (r # Run' \/ hb'.pc # "route" => Whole(batches'[r], decided'[r]))
    BY <1>1, <1>8, <2>1, <2>2, <2>4
  <2>6. hb.pc \in Late \cup Early \cup {"route"} => hb.pc # "idle"
    BY DEF Late, Early
  <2>7. hb'.pc \in Late => Whole(batches'[Run'], decided'[Run'])
    BY <1>1, <1>8, <2>2, <2>3, <2>6 DEF CycleIInv, BatchesWhole
  <2>8. hb'.pc \in Early => batches'[Run'].finalists = {}
    BY <1>1, <1>7, <1>8, <2>3, <2>6 DEF CycleIInv, BatchesWhole
  <2>9. hb'.pc = "route" => /\ batches'[Run'].finalists \subseteq hb'.S
                            /\ \A a \in hb'.S : a \in hb'.todo \/ Has(decided'[Run'], a)
    BY <1>1, <1>7, <1>8, <2>3, <2>6 DEF CycleIInv, BatchesWhole
  <2> QED BY <2>5, <2>7, <2>8, <2>9 DEF BatchesWhole
<1>14. ReviewsTrue'
  BY <1>1, <1>8 DEF CycleIInv, ReviewsTrue
<1> QED BY <1>10, <1>11, <1>12, <1>13, <1>14 DEF CycleIInv

\* The thread ends; the transport returns.
LEMMA ThreadEndsKeeps == ASSUME CycleIInv, ShadowEnds \/ InferenceEnds PROVE CycleIInv'
<1>1. /\ UNCHANGED <<hb, completed, batches, decided, reviews, born, runlog, runs>>
      /\ shadow' = shadow \/ shadow' = NoThread
  BY DEF ShadowEnds, InferenceEnds
<1>2. Run' = Run /\ shadow' \in [pc : {"none", "review", "ending"}, run : Nat]
  BY <1>1 DEF Run, CycleIInv, CycleTypeOK, NoThread
<1>3. \A r \in Nat : Drainable(r)' => Drainable(r)
  BY <1>1 DEF Drainable, NoThread
<1>4. CycleTypeOK'
  BY <1>1, <1>2 DEF CycleIInv, CycleTypeOK
<1>5. NewRemembered' /\ NewOffered' /\ OneOpen' /\ LogTrue' /\ ReviewsTrue'
  BY <1>1, <1>2 DEF CycleIInv, NewRemembered, NewOffered, OneOpen, LogTrue, ReviewsTrue
<1>6. BatchesWhole'
  BY <1>1, <1>2, <1>3 DEF CycleIInv, BatchesWhole
<1> QED BY <1>4, <1>5, <1>6 DEF CycleIInv

\* The process ends: nothing of the cycle in memory is left to be drained.
LEMMA AbortKeeps == ASSUME CycleIInv, Abort PROVE CycleIInv'
<1>1. /\ UNCHANGED <<batches, decided, reviews, born, runlog, runs>>
      /\ shadow' = NoThread /\ completed' = <<>> /\ hb' = Resting
  BY DEF Abort
<1>2. Run' = Run /\ hb' \in Cycle /\ hb'.pc = "idle"
  BY <1>1 DEF Run, Resting, Cycle
<1>3. shadow' \in [pc : {"none", "review", "ending"}, run : Nat] /\ shadow'.pc = "none" /\ completed' \in Seq(Nat)
  BY <1>1 DEF NoThread
<1>4. \A r \in Nat : ~Drainable(r)'
  BY <1>1, <1>3 DEF Drainable
<1>5. CycleTypeOK'
  BY <1>1, <1>2, <1>3 DEF CycleIInv, CycleTypeOK
<1>6. hb'.pc \notin Early \cup Late \cup {"route", "insert", "pilot", "alerts", "paper", "record"}
  BY <1>2 DEF Early, Late
<1>7. NewRemembered' /\ NewOffered' /\ OneOpen'
  BY <1>1, <1>2, <1>6 DEF CycleIInv, NewRemembered, NewOffered, OneOpen
<1>8. LogTrue' /\ ReviewsTrue'
  BY <1>1, <1>2, <1>6 DEF CycleIInv, LogTrue, ReviewsTrue
<1>9. BatchesWhole'
  BY <1>4, <1>6 DEF BatchesWhole
<1> QED BY <1>5, <1>7, <1>8, <1>9 DEF CycleIInv

\* The router always decides.
LEMMA RouteDecides == ASSUME NEW c, NEW r PROVE route(c, r, TRUE).decision \in Decisions
BY DEF route, Ignored, Decisions

\* RouteOne: an event of this cycle, for an asset that has no open one.
LEMMA RouteOneKeeps ==
    ASSUME CycleIInv, NEW a \in Scanned, NEW c, NEW r, NEW allowed \in BOOLEAN, RouteOne(a, c, r, allowed)
    PROVE  CycleIInv'
<1>1. /\ hb \in Cycle /\ batches \in Seq(ReviewBatch) /\ decided \in Seq(Decided) /\ Len(decided) = Run
      /\ born \in Seq(Event) /\ Run \in Nat /\ Run # 0 /\ hb.pc = "route"
      /\ UNCHANGED <<shadow, completed, batches, reviews, runlog, runs>>
  BY DEF CycleIInv, CycleTypeOK, Run, RouteOne
<1>2. PICK d \in Decisions : d = route(c, r, TRUE).decision
  BY RouteDecides
<1>3. PICK old \in Decided : old = decided[Run]
  BY <1>1
<1>4. PICK list : list = Append(old, <<a, d>>)
  OBVIOUS
<1>5. list \in Decided /\ Has(list, a) /\ \A x : Has(old, x) => Has(list, x)
  <2>1. old \in Seq(Scanned \X Decisions) /\ <<a, d>> \in Scanned \X Decisions
    BY <1>2, <1>3 DEF Decided
  <2>2. /\ list \in Seq(Scanned \X Decisions) /\ Len(list) = Len(old) + 1 /\ list[Len(old) + 1] = <<a, d>>
        /\ \A i \in 1..Len(old) : list[i] = old[i]
    BY <1>4, <2>1
  <2>3. Len(old) \in Nat /\ DOMAIN old = 1..Len(old) /\ DOMAIN list = 1..(Len(old) + 1)
    BY <2>1, <2>2
  <2>4. <<a, d>>[1] = a
    OBVIOUS
  <2> QED BY <2>2, <2>3, <2>4 DEF Has, Decided
<1>6. decided' = [decided EXCEPT ![Run] = list]
  BY <1>2, <1>3, <1>4 DEF RouteOne
<1>7. /\ Run' = Run /\ decided' \in Seq(Decided) /\ Len(decided') = Run /\ decided'[Run] = list
      /\ \A k \in 1..Run : k # Run => decided'[k] = decided[k]
  <2>1. Run' = Run
    BY <1>1 DEF Run
  <2> QED BY <1>1, <1>5, <1>6, <2>1
<1>8. hb.new = {i \in DOMAIN born : born[i].run = Run}
  BY <1>1 DEF CycleIInv, NewRemembered
<1>9. /\ hb' \in Cycle /\ hb'.pc = "route" /\ hb'.S = hb.S /\ hb'.todo = hb.todo \ {a}
      /\ born' \in Seq(Event) /\ NewRemembered' /\ NewOffered' /\ OneOpen'
      /\ \A record \in runlog : \A i \in DOMAIN born' : born'[i].run = record.run =>
             i \in DOMAIN born /\ born'[i] = born[i]
  <2>0. PICK T \in SUBSET Scanned : T = hb.todo \ {a}
    BY <1>1 DEF Cycle
  <2>1. PICK new \in BOOLEAN : new = (d # "IGNORE" /\ allowed /\ ~OpenEvent(a))
    OBVIOUS
  <2>2. CASE ~new
    <3>1. born' = born /\ hb' = [hb EXCEPT !.todo = T, !.new = hb.new]
      BY <1>2, <2>0, <2>1, <2>2 DEF RouteOne
    <3>2. hb' \in Cycle /\ hb'.pc = "route" /\ hb'.S = hb.S /\ hb'.todo = T /\ hb'.new = hb.new
      BY <1>1, <3>1 DEF Cycle
    <3>3. NewRemembered' /\ NewOffered' /\ OneOpen'
      BY <1>1, <1>7, <3>1, <3>2 DEF CycleIInv, NewRemembered, NewOffered, OneOpen, Early
    <3> QED BY <1>1, <2>0, <3>1, <3>2, <3>3
  <2>3. CASE new
    <3>0. PICK n \in Nat : n = Len(born) /\ DOMAIN born = 1..n
      BY <1>1
    <3>1. PICK e : e = [asset |-> a, run |-> Run, open |-> TRUE, paper |-> 0, pilot |-> 0]
      OBVIOUS
    <3>2. e \in Event /\ e.asset = a /\ e.run = Run /\ e.paper = 0 /\ e.pilot = 0
      BY <1>1, <3>1 DEF Event
    <3>3. born' = Append(born, e) /\ hb' = [hb EXCEPT !.todo = T, !.new = hb.new \cup {n + 1}]
      BY <1>2, <2>0, <2>1, <2>3, <3>0, <3>1 DEF RouteOne
    <3>4. PICK N \in SUBSET Nat : N = hb.new \cup {n + 1}
      <4>1. hb.new \in SUBSET Nat
        BY <1>1 DEF Cycle
      <4>2. n + 1 \in Nat
        BY <3>0
      <4> QED BY <4>1, <4>2
    <3>5. hb' \in Cycle /\ hb'.pc = "route" /\ hb'.S = hb.S /\ hb'.todo = T /\ hb'.new = N
      BY <1>1, <3>3, <3>4 DEF Cycle
    <3>6. /\ born' \in Seq(Event) /\ DOMAIN born' = 1..(n + 1) /\ born'[n + 1] = e
          /\ \A i \in 1..n : born'[i] = born[i]
      BY <1>1, <3>0, <3>2, <3>3
    <3>7. \A i \in DOMAIN born : born[i].asset = a => ~born[i].open
      BY <2>1, <2>3 DEF OpenEvent
    <3>8. NewRemembered'
      <4>1. hb'.new = {i \in DOMAIN born' : born'[i].run = Run}
        BY <1>8, <3>0, <3>2, <3>4, <3>5, <3>6
      <4>2. \A i \in DOMAIN born' : born'[i].run \in 1..Run /\ born'[i].paper <= 1 /\ born'[i].pilot <= 1
        BY <1>1, <3>0, <3>2, <3>6 DEF CycleIInv, NewRemembered
      <4> QED BY <1>7, <3>5, <4>1, <4>2 DEF NewRemembered, Early
    <3>9. NewOffered'
      BY <1>1, <1>7, <3>0, <3>2, <3>5, <3>6 DEF CycleIInv, NewOffered
    <3>10. OneOpen'
      BY <3>0, <3>2, <3>6, <3>7 DEF CycleIInv, OneOpen
    <3>11. ASSUME NEW record \in runlog, NEW i \in DOMAIN born', born'[i].run = record.run
           PROVE  i \in DOMAIN born /\ born'[i] = born[i]
      <4>1. record.run # Run
        BY <1>1 DEF CycleIInv, LogTrue
      <4> QED BY <3>0, <3>2, <3>6, <3>11, <4>1
    <3> QED BY <2>0, <3>5, <3>6, <3>8, <3>9, <3>10, <3>11
  <2> QED BY <2>2, <2>3
<1>10. CycleTypeOK'
  BY <1>1, <1>7, <1>9 DEF CycleIInv, CycleTypeOK, Run
<1>11. LogTrue'
  BY <1>1, <1>7, <1>9 DEF CycleIInv, LogTrue
<1>12. BatchesWhole'
  <2>1. \A k \in Nat : Drainable(k)' <=> Drainable(k)
    BY <1>1 DEF Drainable
  <2>2. hb'.pc \notin Late /\ hb'.pc \notin Early
    BY <1>9 DEF Late, Early
  <2>3. \A k \in Nat : Drainable(k) => k \in 1..Run /\ (k # Run => Whole(batches[k], decided[k]))
    BY DEF CycleIInv, BatchesWhole
  <2>4. \A k \in Nat : Drainable(k)' => k \in 1..Run' /\ (k # Run' \/ hb'.pc # "route" => Whole(batches'[k], decided'[k]))
    BY <1>1, <1>7, <1>9, <2>1, <2>3
  <2>5. /\ batches[Run].finalists \subseteq hb.S
        /\ \A x \in hb.S : x \in hb.todo \/ Has(old, x)
    BY <1>1, <1>3 DEF CycleIInv, BatchesWhole
  <2>6. \A x \in hb'.S : x \in hb'.todo \/ Has(decided'[Run'], x)
    BY <1>5, <1>7, <1>9, <2>5
  <2> QED BY <1>1, <1>7, <1>9, <2>2, <2>4, <2>5, <2>6 DEF BatchesWhole
<1>13. ReviewsTrue'
  <2>1. \A row \in reviews : row.run \in 1..Run /\ row.run # Run
    BY <1>1 DEF CycleIInv, ReviewsTrue, Late
  <2> QED BY <1>1, <1>7, <1>9, <2>1 DEF CycleIInv, ReviewsTrue
<1> QED BY <1>9, <1>10, <1>11, <1>12, <1>13 DEF CycleIInv

\* RouteEnds: the batch learns the decisions, one of each finalist.
LEMMA RouteEndsKeeps == ASSUME CycleIInv, RouteEnds PROVE CycleIInv'
<1>1. /\ hb \in Cycle /\ batches \in Seq(ReviewBatch) /\ decided \in Seq(Decided) /\ Len(decided) = Run
      /\ Run \in Nat /\ Run # 0 /\ hb.pc = "route" /\ hb.todo = {}
      /\ UNCHANGED <<shadow, completed, decided, reviews, born, runlog, runs>>
  BY DEF CycleIInv, CycleTypeOK, Run, RouteEnds
<1>2. hb' = [hb EXCEPT !.pc = "record", !.S = {}, !.asked = {}, !.status = "SKIPPED"]
  BY DEF RouteEnds
<1>3. hb' \in Cycle /\ hb'.pc = "record" /\ hb'.new = hb.new
  BY <1>1, <1>2 DEF Cycle, Late
<1>4. \A x \in batches[Run].finalists : Has(decided[Run], x)
  BY <1>1 DEF CycleIInv, BatchesWhole
<1>5. /\ batches' \in Seq(ReviewBatch) /\ Len(batches') = Run /\ Whole(batches'[Run], decided[Run])
      /\ \A k \in 1..Run : k # Run => batches'[k] = batches[k]
  <2>1. CASE batches[Run].finalists = {}
    <3>1. batches' = batches
      BY <2>1 DEF RouteEnds
    <3> QED BY <1>1, <2>1, <3>1 DEF Whole, Run
  <2>2. CASE batches[Run].finalists # {}
    <3>1. PICK b \in ReviewBatch : b = batches[Run]
      BY <1>1 DEF Run
    <3>2. PICK list \in Decided : list = decided[Run]
      BY <1>1
    <3>3. PICK nb : nb = [b EXCEPT !.decisions = list]
      OBVIOUS
    <3>4. nb \in ReviewBatch /\ nb.finalists = b.finalists /\ nb.decisions = list
      BY <3>3 DEF ReviewBatch
    <3>5. batches' = [batches EXCEPT ![Run] = nb]
      BY <2>2, <3>1, <3>2, <3>3 DEF RouteEnds
    <3>6. batches' \in Seq(ReviewBatch) /\ Len(batches') = Run /\ batches'[Run] = nb
          /\ \A k \in 1..Run : k # Run => batches'[k] = batches[k]
      BY <1>1, <3>4, <3>5 DEF Run
    <3> QED BY <1>4, <3>1, <3>2, <3>4, <3>6 DEF Whole
  <2> QED BY <2>1, <2>2
<1>6. Run' = Run
  BY <1>5 DEF Run
<1>7. CycleTypeOK'
  BY <1>1, <1>3, <1>5, <1>6 DEF CycleIInv, CycleTypeOK, Run
<1>8. NewRemembered' /\ NewOffered' /\ OneOpen'
  BY <1>1, <1>3, <1>6 DEF CycleIInv, NewRemembered, NewOffered, OneOpen, Early
<1>9. LogTrue'
  BY <1>1, <1>3, <1>6 DEF CycleIInv, LogTrue
<1>10. BatchesWhole'
  <2>1. \A k \in Nat : Drainable(k)' <=> Drainable(k)
    BY <1>1 DEF Drainable
  <2>2. \A k \in Nat : Drainable(k) => k \in 1..Run /\ (k # Run => Whole(batches[k], decided[k]))
    BY DEF CycleIInv, BatchesWhole
  <2>3. \A k \in Nat : Drainable(k)' => k \in 1..Run /\ Whole(batches'[k], decided'[k])
    BY <1>1, <1>5, <2>1, <2>2
  <2> QED BY <1>1, <1>3, <1>5, <1>6, <2>3 DEF BatchesWhole, Early
<1>11. ReviewsTrue'
  <2>1. \A row \in reviews : row.run # Run
    BY <1>1 DEF CycleIInv, ReviewsTrue, Late
  <2> QED BY <1>1, <1>6, <2>1 DEF CycleIInv, ReviewsTrue
<1> QED BY <1>7, <1>8, <1>9, <1>10, <1>11 DEF CycleIInv

\* What a decided asset has.
LEMMA DecisionThere ==
    ASSUME NEW list \in Decided, NEW a, Has(list, a) PROVE DecisionIn(list, a) # "none"
<1>1. PICK i : i = CHOOSE j \in DOMAIN list : list[j][1] = a
  OBVIOUS
<1>2. i \in DOMAIN list
  BY <1>1 DEF Has
<1>3. list[i] \in Scanned \X Decisions
  BY <1>2 DEF Decided
<1>4. list[i][2] \in Decisions
  BY <1>3
<1>5. DecisionIn(list, a) = list[i][2]
  BY <1>1 DEF DecisionIn, Has
<1> QED BY <1>4, <1>5 DEF Decisions

\* RecordReviews: what is drained is whole, and a key that is stored is left alone.
LEMMA RecordKeeps ==
    ASSUME CycleIInv, NEW lost, RecordReviews(lost) PROVE CycleIInv'
<1>1. /\ hb \in Cycle /\ batches \in Seq(ReviewBatch) /\ decided \in Seq(Decided) /\ Len(decided) = Run
      /\ Run \in Nat /\ Run # 0 /\ hb.pc = "record" /\ hb.pc \in Late /\ completed \in Seq(Nat)
      /\ UNCHANGED <<shadow, batches, decided, born, runlog, runs>>
      /\ completed' = <<>> /\ hb' = [hb EXCEPT !.pc = "paper"]
  BY DEF CycleIInv, CycleTypeOK, Run, RecordReviews, Late
<1>2. hb' \in Cycle /\ hb'.pc = "paper" /\ hb'.new = hb.new
  BY <1>1 DEF Cycle, Late
<1>3. hb'.failed = hb.failed
  BY <1>1 DEF Cycle
<1>4. Run' = Run
  BY <1>1 DEF Run
<1>5. CycleTypeOK'
  <2>1. completed' \in Seq(Nat)
    BY <1>1
  <2> QED BY <1>1, <1>2, <1>4, <2>1 DEF CycleIInv, CycleTypeOK
<1>6. NewRemembered' /\ NewOffered' /\ OneOpen'
  BY <1>1, <1>2, <1>4 DEF CycleIInv, NewRemembered, NewOffered, OneOpen, Early
<1>7. LogTrue'
  BY <1>1, <1>2, <1>4 DEF CycleIInv, LogTrue
<1>8. BatchesWhole'
  <2>1. \A k \in Nat : Drainable(k)' => Drainable(k)
    BY <1>1 DEF Drainable
  <2> QED BY <1>1, <1>2, <1>4, <2>1 DEF CycleIInv, BatchesWhole, Early
<1>9. ASSUME NEW run \in finished PROVE run \in 1..Run /\ Whole(batches[run], decided[run])
  <2>1. CASE run = Run
    BY <1>1, <2>1 DEF CycleIInv, BatchesWhole
  <2>2. CASE run # Run
    <3>1. PICK k \in DOMAIN completed : run = completed[k]
      BY <2>2 DEF finished
    <3>2. run \in Nat /\ Drainable(run)
      BY <1>1, <3>1 DEF Drainable
    <3> QED BY <1>1, <3>2 DEF CycleIInv, BatchesWhole
  <2> QED BY <2>1, <2>2
<1>10. ASSUME NEW row \in reviews'
       PROVE  \/ row \in reviews
              \/ \E run \in finished, a \in Scanned :
                   /\ a \in batches[run].finalists /\ ~\E old \in reviews : old.run = run /\ old.asset = a
                   /\ row = [run |-> run, asset |-> a, decision |-> DecisionIn(batches[run].decisions, a),
                             status |-> batches[run].result]
  <2>1. CASE row \notin reviews
    <3>1. PICK run \in finished : row \in record_batch(run)
      BY <2>1 DEF RecordReviews
    <3>2. batches[run].finalists \subseteq Scanned
      <4>1. batches[run] \in ReviewBatch
        BY <1>1, <1>9 DEF Run
      <4> QED BY <4>1 DEF ReviewBatch
    <3>3. PICK a \in batches[run].finalists :
             row = [run |-> run, asset |-> a, decision |-> DecisionIn(batches[run].decisions, a),
                    status |-> batches[run].result]
      BY <3>1 DEF record_batch, rows
    <3>4. ~\E old \in reviews : old.run = run /\ old.asset = row.asset
      BY <3>1 DEF record_batch
    <3>5. row.asset = a
      BY <3>3
    <3> QED BY <3>2, <3>3, <3>4, <3>5
  <2> QED BY <2>1
<1>11. ASSUME NEW run \in finished, NEW a \in batches[run].finalists
       PROVE  /\ DecisionIn(batches[run].decisions, a) = DecisionIn(decided[run], a)
              /\ DecisionIn(decided[run], a) # "none"
  <2>1. batches[run].decisions = decided[run] /\ Has(decided[run], a) /\ decided[run] \in Decided
    BY <1>1, <1>9 DEF Whole
  <2> QED BY <2>1, DecisionThere
<1>12. ReviewsTrue'
  <2>1. ASSUME NEW row \in reviews'
        PROVE  /\ row.run \in 1..Run /\ row.decision # "none" /\ row.decision = DecisionIn(decided[row.run], row.asset)
    <3>1. CASE row \in reviews
      BY <3>1 DEF CycleIInv, ReviewsTrue
    <3>2. CASE row \notin reviews
      <4>1. PICK run \in finished, a \in Scanned :
                   /\ a \in batches[run].finalists
                   /\ row = [run |-> run, asset |-> a, decision |-> DecisionIn(batches[run].decisions, a),
                             status |-> batches[run].result]
        BY <1>10, <3>2
      <4>2. row.run = run /\ row.asset = a /\ row.decision = DecisionIn(batches[run].decisions, a)
        BY <4>1
      <4> QED BY <1>9, <1>11, <4>1, <4>2
    <3> QED BY <3>1, <3>2
  <2>2. ASSUME NEW x \in reviews', NEW y \in reviews', x.run = y.run, x.asset = y.asset PROVE x = y
    <3> DEFINE Fresh(z) == \E run \in finished, a \in Scanned :
                 /\ a \in batches[run].finalists /\ ~\E old \in reviews : old.run = run /\ old.asset = a
                 /\ z = [run |-> run, asset |-> a, decision |-> DecisionIn(batches[run].decisions, a),
                         status |-> batches[run].result]
    <3>1. (x \in reviews \/ Fresh(x)) /\ (y \in reviews \/ Fresh(y))
      BY <1>10
    <3>2. ASSUME NEW z, Fresh(z)
          PROVE  /\ ~\E old \in reviews : old.run = z.run /\ old.asset = z.asset
                 /\ z = [run |-> z.run, asset |-> z.asset,
                         decision |-> DecisionIn(batches[z.run].decisions, z.asset), status |-> batches[z.run].result]
      <4>1. PICK run \in finished, a \in Scanned :
                 /\ ~\E old \in reviews : old.run = run /\ old.asset = a
                 /\ z = [run |-> run, asset |-> a, decision |-> DecisionIn(batches[run].decisions, a),
                         status |-> batches[run].result]
        BY <3>2
      <4>2. z.run = run /\ z.asset = a
        BY <4>1
      <4> QED BY <4>1, <4>2
    <3> HIDE DEF Fresh
    <3>3. CASE x \in reviews /\ y \in reviews
      BY <2>2, <3>3 DEF CycleIInv, ReviewsTrue
    <3>4. CASE Fresh(x) /\ Fresh(y)
      BY <2>2, <3>2, <3>4
    <3>5. CASE x \in reviews /\ Fresh(y)
      BY <2>2, <3>2, <3>5
    <3>6. CASE Fresh(x) /\ y \in reviews
      BY <2>2, <3>2, <3>6
    <3> QED BY <3>1, <3>3, <3>4, <3>5, <3>6
  <2>3. hb'.pc \in Late
    BY <1>2 DEF Late
  <2> QED BY <1>1, <1>4, <2>1, <2>2, <2>3 DEF ReviewsTrue
<1> QED BY <1>5, <1>6, <1>7, <1>8, <1>12 DEF CycleIInv

\* The events are written: only what `Offered' says changes.
LEMMA OfferShape ==
    ASSUME CycleIInv, NEW nb \in Seq(Event), born' = nb, hb' \in Cycle, hb.pc \in Late, hb'.pc \in Late \ {"insert"},
           hb'.new = hb.new, UNCHANGED <<shadow, completed, batches, decided, reviews, runlog, runs>>,
           DOMAIN born' = DOMAIN born, hb.pc # "insert",
           \A i \in DOMAIN born : /\ born'[i].run = born[i].run /\ born'[i].asset = born[i].asset
                                  /\ (born'[i].open <=> born[i].open)
                                  /\ (born[i].run # Run => born'[i] = born[i])
                                  /\ born'[i].paper <= 1 /\ born'[i].pilot <= 1,
           NewOffered'
    PROVE  CycleIInv'
<1>1. Run' = Run /\ hb.pc # "idle" /\ hb'.pc # "idle" /\ hb'.pc \notin Early /\ hb.pc \notin Early /\ hb'.pc # "route"
      /\ hb.pc # "route" /\ hb'.pc # "insert"
  BY DEF Run, Early, Late
<1>2. CycleTypeOK'
  BY <1>1 DEF CycleIInv, CycleTypeOK
<1>3. NewRemembered'
  BY <1>1 DEF CycleIInv, NewRemembered
<1>4. OneOpen'
  BY DEF CycleIInv, OneOpen
<1>5. LogTrue'
  <2>1. \A record \in runlog : record.run # Run
    BY <1>1 DEF CycleIInv, LogTrue
  <2> QED BY <1>1, <2>1 DEF CycleIInv, LogTrue
<1>6. BatchesWhole'
  <2>1. \A k \in Nat : Drainable(k)' <=> Drainable(k)
    BY DEF Drainable
  <2> QED BY <1>1, <2>1 DEF CycleIInv, BatchesWhole
<1>7. ReviewsTrue'
  BY <1>1 DEF CycleIInv, ReviewsTrue
<1> QED BY <1>2, <1>3, <1>4, <1>5, <1>6, <1>7 DEF CycleIInv

\* OfferPaper
LEMMA OfferPaperKeeps ==
    ASSUME CycleIInv, NEW taken, OfferPaper(taken) PROVE CycleIInv'
<1>1. /\ hb \in Cycle /\ born \in Seq(Event) /\ hb.pc = "paper" /\ hb.pc \in Late /\ taken \subseteq hb.new
      /\ UNCHANGED <<shadow, completed, batches, decided, reviews, runlog, runs>>
      /\ hb.new = {i \in DOMAIN born : born[i].run = Run} /\ Run' = Run
  BY DEF CycleIInv, CycleTypeOK, OfferPaper, Late, NewRemembered, Run
<1>2. born' = [i \in DOMAIN born |-> IF i \in taken THEN [born[i] EXCEPT !.paper = @ + 1] ELSE born[i]]
  BY DEF OfferPaper
<1>3. PICK f \in BOOLEAN : f = (hb.failed \/ taken # hb.new)
  OBVIOUS
<1>4. hb' = [hb EXCEPT !.pc = "pilot", !.failed = f]
  BY <1>3 DEF OfferPaper
<1>5. hb' \in Cycle /\ hb'.pc = "pilot" /\ hb'.new = hb.new /\ hb'.failed = f
  BY <1>1, <1>4 DEF Cycle, Late
<1>6. ASSUME NEW i \in DOMAIN born
      PROVE  /\ born'[i] \in Event /\ born'[i].run = born[i].run /\ born'[i].asset = born[i].asset
             /\ (born'[i].open <=> born[i].open)
             /\ born'[i].pilot = born[i].pilot
             /\ (i \in taken => born'[i].paper = born[i].paper + 1)
             /\ (i \notin taken => born'[i] = born[i])
             /\ born[i].run \in Nat
  <2>1. PICK e \in Event : e = born[i]
    BY <1>1
  <2>2. CASE i \in taken
    <3>1. PICK p \in Nat : p = e.paper + 1
      BY DEF Event
    <3>2. born'[i] = [e EXCEPT !.paper = p]
      BY <1>2, <2>1, <2>2, <3>1
    <3>3. born'[i] \in Event /\ born'[i].run = e.run /\ born'[i].asset = e.asset /\ born'[i].pilot = e.pilot
          /\ born'[i].paper = p
      BY <3>2 DEF Event
    <3>4. born'[i].open = e.open
      BY <3>2 DEF Event
    <3>5. e.run \in Nat
      BY DEF Event
    <3> QED BY <2>1, <2>2, <3>1, <3>3, <3>4, <3>5
  <2>3. CASE i \notin taken
    BY <1>2, <2>1, <2>3 DEF Event
  <2> QED BY <2>2, <2>3
<1>7. born' \in Seq(Event) /\ DOMAIN born' = DOMAIN born
  <2>1. PICK n \in Nat : DOMAIN born = 1..n
    BY <1>1
  <2>2. DOMAIN born' = 1..n /\ born' = [i \in 1..n |-> born'[i]]
    BY <1>2, <2>1
  <2> QED BY <1>6, <2>1, <2>2
<1>8. \A i \in DOMAIN born : i \in taken => born[i].run = Run /\ born[i].paper = 0
  BY <1>1 DEF CycleIInv, NewOffered
<1>9. \A i \in DOMAIN born : born'[i].paper <= 1 /\ born'[i].pilot <= 1 /\ (born[i].run # Run => born'[i] = born[i])
  BY <1>6, <1>8 DEF CycleIInv, NewRemembered
<1>10. NewOffered'
  <2>1. ASSUME NEW i \in DOMAIN born, born[i].run = Run
        PROVE  born'[i].pilot = 0 /\ (~f => born'[i].paper = 1)
    <3>1. born[i].pilot = 0 /\ born[i].paper = 0 /\ i \in hb.new
      BY <1>1, <2>1 DEF CycleIInv, NewOffered
    <3>2. born'[i].pilot = 0
      BY <1>6, <3>1
    <3>3. CASE f
      BY <3>2, <3>3
    <3>4. CASE ~f
      <4>1. taken = hb.new
        BY <1>3, <3>4, Zenon
      <4>2. born'[i].paper = born[i].paper + 1
        BY <1>6, <3>1, <4>1
      <4> QED BY <3>1, <3>2, <4>2
    <3> QED BY <3>3, <3>4
  <2> QED BY <1>1, <1>5, <1>6, <1>7, <2>1 DEF NewOffered
<1>11. hb'.pc \in Late \ {"insert"} /\ hb.pc # "insert"
  BY <1>1, <1>5 DEF Late
<1> QED BY <1>1, <1>5, <1>6, <1>7, <1>9, <1>10, <1>11, OfferShape

\* OfferPilot
LEMMA OfferPilotKeeps ==
    ASSUME CycleIInv, NEW taken, OfferPilot(taken) PROVE CycleIInv'
<1>1. /\ hb \in Cycle /\ born \in Seq(Event) /\ hb.pc = "pilot" /\ hb.pc \in Late /\ taken \subseteq hb.new
      /\ UNCHANGED <<shadow, completed, batches, decided, reviews, runlog, runs>>
      /\ hb.new = {i \in DOMAIN born : born[i].run = Run} /\ Run' = Run
  BY DEF CycleIInv, CycleTypeOK, OfferPilot, Late, NewRemembered, Run
<1>2. born' = [i \in DOMAIN born |-> IF i \in taken THEN [born[i] EXCEPT !.pilot = @ + 1] ELSE born[i]]
  BY DEF OfferPilot
<1>3. PICK f \in BOOLEAN : f = (hb.failed \/ taken # hb.new)
  OBVIOUS
<1>4. hb' = [hb EXCEPT !.pc = "alerts", !.failed = f]
  BY <1>3 DEF OfferPilot
<1>5. hb' \in Cycle /\ hb'.pc = "alerts" /\ hb'.new = hb.new /\ hb'.failed = f
  BY <1>1, <1>4 DEF Cycle, Late
<1>6. ASSUME NEW i \in DOMAIN born
      PROVE  /\ born'[i] \in Event /\ born'[i].run = born[i].run /\ born'[i].asset = born[i].asset
             /\ (born'[i].open <=> born[i].open)
             /\ born'[i].paper = born[i].paper
             /\ (i \in taken => born'[i].pilot = born[i].pilot + 1)
             /\ (i \notin taken => born'[i] = born[i])
             /\ born[i].run \in Nat
  <2>1. PICK e \in Event : e = born[i]
    BY <1>1
  <2>2. CASE i \in taken
    <3>1. PICK p \in Nat : p = e.pilot + 1
      BY DEF Event
    <3>2. born'[i] = [e EXCEPT !.pilot = p]
      BY <1>2, <2>1, <2>2, <3>1
    <3>3. born'[i] \in Event /\ born'[i].run = e.run /\ born'[i].asset = e.asset /\ born'[i].paper = e.paper
          /\ born'[i].pilot = p
      BY <3>2 DEF Event
    <3>4. born'[i].open = e.open
      BY <3>2 DEF Event
    <3>5. e.run \in Nat
      BY DEF Event
    <3> QED BY <2>1, <2>2, <3>1, <3>3, <3>4, <3>5
  <2>3. CASE i \notin taken
    BY <1>2, <2>1, <2>3 DEF Event
  <2> QED BY <2>2, <2>3
<1>7. born' \in Seq(Event) /\ DOMAIN born' = DOMAIN born
  <2>1. PICK n \in Nat : DOMAIN born = 1..n
    BY <1>1
  <2>2. DOMAIN born' = 1..n /\ born' = [i \in 1..n |-> born'[i]]
    BY <1>2, <2>1
  <2> QED BY <1>6, <2>1, <2>2
<1>8. \A i \in DOMAIN born : i \in taken => born[i].run = Run /\ born[i].pilot = 0
  BY <1>1 DEF CycleIInv, NewOffered
<1>9. \A i \in DOMAIN born : born'[i].paper <= 1 /\ born'[i].pilot <= 1 /\ (born[i].run # Run => born'[i] = born[i])
  BY <1>6, <1>8 DEF CycleIInv, NewRemembered
<1>10. NewOffered'
  <2>1. ASSUME NEW i \in DOMAIN born, born[i].run = Run
        PROVE  (~f => born'[i].paper = 1) /\ (~f => born'[i].pilot = 1)
    <3>1. born[i].pilot = 0 /\ (~hb.failed => born[i].paper = 1) /\ i \in hb.new
      BY <1>1, <2>1 DEF CycleIInv, NewOffered
    <3>2. CASE f
      BY <3>2
    <3>3. CASE ~f
      <4>1. taken = hb.new /\ ~hb.failed
        BY <1>3, <3>3, Zenon
      <4>2. born'[i].pilot = born[i].pilot + 1 /\ born'[i].paper = born[i].paper
        BY <1>6, <3>1, <4>1
      <4>3. born[i].paper = 1 /\ born[i].pilot = 0
        BY <3>1, <4>1, Zenon
      <4> QED BY <4>2, <4>3
    <3> QED BY <3>2, <3>3
  <2> QED BY <1>1, <1>5, <1>6, <1>7, <2>1 DEF NewOffered
<1>11. hb'.pc \in Late \ {"insert"} /\ hb.pc # "insert"
  BY <1>1, <1>5 DEF Late
<1> QED BY <1>1, <1>5, <1>6, <1>7, <1>9, <1>10, <1>11, OfferShape

\* WriteRecord: the line of this cycle.
LEMMA WriteRecordKeeps == ASSUME CycleIInv, WriteRecord PROVE CycleIInv'
<1>1. /\ hb \in Cycle /\ hb.pc = "alerts" /\ Run' = Run /\ Run \in Nat /\ Run # 0
      /\ UNCHANGED <<shadow, completed, batches, decided, reviews, born, runs>>
      /\ hb' = [hb EXCEPT !.pc = "insert"]
  BY DEF CycleIInv, CycleTypeOK, WriteRecord, Run
<1>2. hb' \in Cycle /\ hb'.pc = "insert" /\ hb'.new = hb.new
  BY <1>1 DEF Cycle, Late
<1>3. hb'.failed = hb.failed /\ hb.failed \in BOOLEAN
  BY <1>1 DEF Cycle
<1>4. PICK line \in LogLine : line = [run |-> Run, failed |-> hb.failed]
  BY <1>1, <1>3 DEF LogLine
<1>5. runlog' = runlog \cup {line} /\ line.run = Run
  BY <1>4 DEF WriteRecord
<1>6. line.failed = hb.failed
  BY <1>4
<1>7. CycleTypeOK'
  <2>1. runlog' \in SUBSET LogLine
    BY <1>5 DEF CycleIInv, CycleTypeOK
  <2> QED BY <1>1, <1>2, <2>1 DEF CycleIInv, CycleTypeOK
<1>8. NewRemembered' /\ OneOpen'
  BY <1>1, <1>2 DEF CycleIInv, NewRemembered, OneOpen, Early
<1>9. NewOffered'
  BY <1>1, <1>2, <1>3 DEF CycleIInv, NewOffered
<1>10. LogTrue'
  <2>1. ~line.failed => \A i \in DOMAIN born : born[i].run = Run => born[i].paper = 1 /\ born[i].pilot = 1
    BY <1>1, <1>6 DEF CycleIInv, NewOffered
  <2>2. \A record \in runlog' :
           /\ record.run \in 1..Run
           /\ ~record.failed => \A i \in DOMAIN born : born[i].run = record.run => born[i].paper = 1 /\ born[i].pilot = 1
    BY <1>1, <1>5, <2>1 DEF CycleIInv, LogTrue
  <2>3. runs \subseteq {record.run : record \in runlog'}
    BY <1>5 DEF CycleIInv, LogTrue
  <2> QED BY <1>1, <1>2, <1>5, <2>2, <2>3 DEF LogTrue
<1>11. BatchesWhole'
  <2>1. \A k \in Nat : Drainable(k)' <=> Drainable(k)
    BY <1>1 DEF Drainable
  <2> QED BY <1>1, <1>2, <2>1 DEF CycleIInv, BatchesWhole, Early, Late
<1>12. ReviewsTrue'
  BY <1>1, <1>2 DEF CycleIInv, ReviewsTrue, Late
<1> QED BY <1>7, <1>8, <1>9, <1>10, <1>11, <1>12 DEF CycleIInv

\* InsertRun: the row after its line.
LEMMA InsertRunKeeps == ASSUME CycleIInv, InsertRun PROVE CycleIInv'
<1>1. /\ hb.pc = "insert" /\ Run' = Run /\ Run \in Nat
      /\ UNCHANGED <<shadow, completed, batches, decided, reviews, born, runlog>>
      /\ hb' = Resting /\ runs' = runs \cup {Run}
  BY DEF CycleIInv, CycleTypeOK, InsertRun, Run
<1>2. hb' \in Cycle /\ hb'.pc = "idle"
  BY <1>1 DEF Resting, Cycle
<1>3. CycleTypeOK'
  BY <1>1, <1>2 DEF CycleIInv, CycleTypeOK
<1>4. NewRemembered' /\ NewOffered' /\ OneOpen'
  BY <1>1, <1>2 DEF CycleIInv, NewRemembered, NewOffered, OneOpen, Early
<1>5. LogTrue'
  BY <1>1, <1>2 DEF CycleIInv, LogTrue
<1>6. BatchesWhole'
  <2>1. \A k \in Nat : Drainable(k)' <=> Drainable(k)
    BY <1>1 DEF Drainable
  <2> QED BY <1>1, <1>2, <2>1 DEF CycleIInv, BatchesWhole, Early, Late
<1>7. ReviewsTrue'
  BY <1>1, <1>2 DEF CycleIInv, ReviewsTrue
<1> QED BY <1>3, <1>4, <1>5, <1>6, <1>7 DEF CycleIInv

\* BridgeCloses: one event less is open.
LEMMA BridgeClosesKeeps ==
    ASSUME CycleIInv, NEW i \in DOMAIN born, BridgeCloses(i) PROVE CycleIInv'
<1>1. /\ born \in Seq(Event) /\ Run' = Run /\ UNCHANGED <<hb, shadow, completed, batches, decided, reviews, runlog, runs>>
  BY DEF CycleIInv, CycleTypeOK, BridgeCloses, Run
<1>2. PICK e \in Event : e = born[i]
  BY <1>1
<1>3. PICK n : n = [e EXCEPT !.open = FALSE]
  OBVIOUS
<1>4. n \in Event /\ n.run = e.run /\ n.asset = e.asset /\ n.paper = e.paper /\ n.pilot = e.pilot
  BY <1>3 DEF Event
<1>5. ~n.open
  BY <1>3 DEF Event
<1>6. born' = [born EXCEPT ![i] = n]
  BY <1>2, <1>3 DEF BridgeCloses
<1>7. /\ born' \in Seq(Event) /\ DOMAIN born' = DOMAIN born /\ born'[i] = n
      /\ \A j \in DOMAIN born : j # i => born'[j] = born[j]
  BY <1>1, <1>4, <1>6
<1>8. \A j \in DOMAIN born : /\ born'[j].run = born[j].run /\ born'[j].asset = born[j].asset
                             /\ born'[j].paper = born[j].paper /\ born'[j].pilot = born[j].pilot
                             /\ (born'[j].open => born[j].open)
  BY <1>2, <1>4, <1>5, <1>7
<1>9. CycleTypeOK'
  BY <1>1, <1>7 DEF CycleIInv, CycleTypeOK
<1>10. NewRemembered' /\ NewOffered' /\ OneOpen'
  BY <1>1, <1>7, <1>8 DEF CycleIInv, NewRemembered, NewOffered, OneOpen
<1>11. LogTrue' /\ ReviewsTrue'
  BY <1>1, <1>7, <1>8 DEF CycleIInv, LogTrue, ReviewsTrue
<1>12. BatchesWhole'
  <2>1. \A k \in Nat : Drainable(k)' <=> Drainable(k)
    BY <1>1 DEF Drainable
  <2> QED BY <1>1, <2>1 DEF CycleIInv, BatchesWhole
<1> QED BY <1>9, <1>10, <1>11, <1>12 DEF CycleIInv

\* Init: no cycle has run.
LEMMA CycleStarts == HeartbeatInit => CycleIInv
<1> SUFFICES ASSUME HeartbeatInit PROVE CycleIInv
  OBVIOUS
<1>1. /\ hb = Resting /\ shadow = NoThread /\ completed = <<>> /\ batches = <<>> /\ decided = <<>>
      /\ reviews = {} /\ born = <<>> /\ runlog = {} /\ runs = {}
  BY DEF HeartbeatInit
<1>2. hb \in Cycle /\ hb.pc = "idle"
  BY <1>1 DEF Resting, Cycle
<1>3. shadow \in [pc : {"none", "review", "ending"}, run : Nat] /\ shadow.pc = "none"
  BY <1>1 DEF NoThread
<1>4. batches \in Seq(ReviewBatch) /\ decided \in Seq(Decided) /\ completed \in Seq(Nat) /\ born \in Seq(Event)
  BY <1>1
<1>5. Len(decided) = Len(batches) /\ DOMAIN born = {} /\ DOMAIN completed = {}
  BY <1>1
<1>6. CycleTypeOK
  BY <1>1, <1>2, <1>3, <1>4, <1>5 DEF CycleTypeOK
<1>7. NewRemembered /\ NewOffered /\ OneOpen
  BY <1>2, <1>5 DEF NewRemembered, NewOffered, OneOpen, Early
<1>8. LogTrue /\ ReviewsTrue
  BY <1>1, <1>2 DEF LogTrue, ReviewsTrue
<1>9. BatchesWhole
  BY <1>2, <1>3, <1>5 DEF BatchesWhole, Drainable, Early, Late
<1> QED BY <1>6, <1>7, <1>8, <1>9 DEF CycleIInv

\* Every step of the cycle, its threads and the bridge.
LEMMA CycleKeeps == CycleIInv /\ [HeartbeatNext]_heartbeatVars => CycleIInv'
<1> SUFFICES ASSUME CycleIInv, [HeartbeatNext]_heartbeatVars PROVE CycleIInv'
  OBVIOUS
<1>1. CASE UNCHANGED heartbeatVars
  <2>1. UNCHANGED <<hb, shadow, completed, batches, decided, reviews, born, runlog, runs>> /\ Run' = Run
    BY <1>1 DEF heartbeatVars, Run
  <2>2. CycleTypeOK'
    BY <2>1 DEF CycleIInv, CycleTypeOK
  <2>3. NewRemembered' /\ NewOffered' /\ OneOpen' /\ LogTrue' /\ ReviewsTrue'
    BY <2>1 DEF CycleIInv, NewRemembered, NewOffered, OneOpen, LogTrue, ReviewsTrue
  <2>4. BatchesWhole'
    BY <2>1 DEF CycleIInv, BatchesWhole, Drainable
  <2> QED BY <2>2, <2>3, <2>4 DEF CycleIInv
<1>2. CASE \E full \in BOOLEAN : StartCycle(full)
  BY <1>2, StartCycleKeeps
<1>3. CASE \E clock \in BOOLEAN, A \in SUBSET Scanned : RunL1(clock, A) \/ SealEvidence(clock, A)
  BY <1>3, LevelsKeep
<1>4. CASE \E A \in SUBSET Scanned : ReadMarket(A) \/ RunL2(A) \/ RunL3(A) \/ RefreshTickers(A) \/ SkipReview(A) \/ ShadowSubmit(A)
  <2>1. PICK A \in SUBSET Scanned : ReadMarket(A) \/ RunL2(A) \/ RunL3(A) \/ RefreshTickers(A) \/ SkipReview(A) \/ ShadowSubmit(A)
    BY <1>4
  <2>2. TRUE \in BOOLEAN
    OBVIOUS
  <2> QED BY <2>1, <2>2, LevelsKeep, ShadowSubmitKeeps
<1>5. CASE \E A \in SUBSET Scanned, result \in Results : InlineReview(A, result)
  BY <1>5, InlineKeeps
<1>6. CASE \E result \in Results \cup {"ERROR"} : ShadowPosts(result)
  BY <1>6, ShadowPostsKeeps
<1>7. CASE ShadowEnds \/ InferenceEnds
  BY <1>7, ThreadEndsKeeps
<1>8. CASE \E a \in Scanned, c \in CycleContexts, r \in CycleReviews \cup {NoReview}, allowed \in BOOLEAN : RouteOne(a, c, r, allowed)
  BY <1>8, RouteOneKeeps
<1>9. CASE RouteEnds
  BY <1>9, RouteEndsKeeps
<1>10. CASE \E lost \in SUBSET (1..MaxCycles) : RecordReviews(lost)
  BY <1>10, RecordKeeps
<1>11. CASE \E taken \in SUBSET (1..MaxBorn) : OfferPaper(taken) \/ OfferPilot(taken)
  BY <1>11, OfferPaperKeeps, OfferPilotKeeps
<1>12. CASE WriteRecord \/ InsertRun \/ Abort
  BY <1>12, WriteRecordKeeps, InsertRunKeeps, AbortKeeps
<1>13. CASE StageTakesTime
  <2>1. TRUE \in BOOLEAN /\ {} \in SUBSET Scanned
    OBVIOUS
  <2> QED BY <1>13, <2>1, LevelsKeep
<1>14. CASE \E i \in DOMAIN born : BridgeCloses(i)
  BY <1>14, BridgeClosesKeeps
<1> QED BY <1>1, <1>2, <1>3, <1>4, <1>5, <1>6, <1>7, <1>8, <1>9, <1>10, <1>11, <1>12, <1>13, <1>14 DEF HeartbeatNext

\* The invariant gives the property.
LEMMA CycleIInvSound == CycleIInv => CycleInv
BY DEF CycleIInv, CycleInv, NewRemembered, OneOpen, LogTrue, ReviewsTrue

\* A cycle and its local review (run_heartbeat, qwen.py, QwenShadow,
\* record_batch), for every universe, every number of cycles, calls and crashes
\* and every router input: one inference at a time and no answer after its
\* deadline; an event is offered to the paper game and to the pilot at most
\* once, and exactly once by a cycle that logged no failure; a stored review
\* has the decision its own cycle acted on; a run has its line in the log.
THEOREM CycleSafe == QwenSpec /\ HeartbeatSpec => []CycleSound
<1>1. HeartbeatInit => CycleIInv
  BY CycleStarts
<1>2. CycleIInv /\ [HeartbeatNext]_heartbeatVars => CycleIInv'
  BY CycleKeeps
<1>3. CycleIInv => CycleInv
  BY CycleIInvSound
<1>4. HeartbeatSpec => []CycleInv
  BY <1>1, <1>2, <1>3, PTL DEF HeartbeatSpec
<1>5. SlotInv /\ CycleInv => CycleSound
  BY DEF CycleSound
<1> QED BY <1>4, <1>5, SlotSound, PTL
=============================================================================
