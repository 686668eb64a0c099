----------------------------- MODULE MCPlayback -----------------------------
(***************************************************************************)
(* The stations of the sound behind the banks, each on its own: the blocks *)
(* of a live, the meters and the auto gain, the limiter, the recordings    *)
(* and the ring to the device; and the data directory the plugins are      *)
(* started with.  A behaviour is of one of them; the others stand still.   *)
(***************************************************************************)
EXTENDS AudioOutput, LiveTimeline, Meters, MasterLimiter, CaptureTaps, DataHome, TLC

CONSTANTS p1, p2

MCProcesses == {p1, p2}
MCBankOf == (0 :> 0) @@ (1 :> 1)
MCMinGain == -2
MCLevels == {-3, 1}

VARIABLE part

Init ==
  /\ part \in {"timeline", "meters", "limiter", "capture", "output", "home"}
  /\ LiveInit /\ LimiterInit /\ CaptureInit
  /\ IF part = "meters" THEN MeterInit ELSE MeterInit /\ follows = "peak"
  /\ IF part = "output" THEN OutputInit ELSE OutputInit /\ multiplier = 1
  /\ IF part = "home" THEN HomeInit ELSE HomeInit /\ patches /\ \A p \in Places : tree[p] = "none"

Next ==
  /\ UNCHANGED part
  /\ \/ part = "timeline" /\ LiveNext /\ UNCHANGED <<meterVars, limiterVars, captureVars, outputVars, homeVars>>
     \/ part = "meters" /\ MeterNext /\ UNCHANGED <<timelineVars, limiterVars, captureVars, outputVars, homeVars>>
     \/ part = "limiter" /\ LimiterNext /\ UNCHANGED <<timelineVars, meterVars, captureVars, outputVars, homeVars>>
     \/ part = "capture" /\ CaptureNext /\ UNCHANGED <<timelineVars, meterVars, limiterVars, outputVars, homeVars>>
     \/ part = "output" /\ OutputNext /\ UNCHANGED <<timelineVars, meterVars, limiterVars, captureVars, homeVars>>
     \/ part = "home" /\ HomeNext /\ UNCHANGED <<timelineVars, meterVars, limiterVars, captureVars, outputVars>>

Spec == Init /\ [][Next]_<<part, timelineVars, meterVars, limiterVars, captureVars, outputVars, homeVars>>
=============================================================================
