-------------------------- MODULE DeviceResponses --------------------------
(***************************************************************************)
(* How a device type reacts to the write of a parameter                    *)
(* (internal/deviceresponses).  A table names the response of each         *)
(* parameter it lists; ComputeEvents says what a response reports.         *)
(***************************************************************************)
EXTENDS ParamValues

CONSTANT Matches  \* device type -> entries of the table: the equal one, then
                  \* the prefixes of the type, the longest first; case is not
                  \* looked at

Named(params, response) == [p \in params |-> response]

stateWithWorking    == "STATE" :> "state and working"
bsmResponses        == stateWithWorking @@
  Named({"POWER", "ENERGY_COUNTER", "VOLTAGE", "CURRENT", "FREQUENCY"}, "echo")
levelToLevelReal    == "LEVEL" :> "echo"
levelWithActivity   == "LEVEL" :> "level and activity"
blindLevel          == "LEVEL" :> "level, slats and activity" @@ "LEVEL_2" :> "echo"
blindLevelLevelOnly == "LEVEL" :> "level and slats"
thermostatSetpointOnly == "SET_POINT_TEMPERATURE" :> "set point and mode"
bwthResponses       == thermostatSetpointOnly @@ Named({"ACTUAL_TEMPERATURE", "HUMIDITY"}, "echo")
thermostatSetpointWithControlMode == thermostatSetpointOnly @@ "CONTROL_MODE" :> "echo"
rtdnSetpointAndMode == Named({"SET_TEMPERATURE", "CONTROL_MODE"}, "echo")
smokeDetectorTest   == "SMOKE_DETECTOR_COMMAND" :> "test result" @@
  Named({"SMOKE_DETECTOR_ALARM_STATUS", "LOW_BAT"}, "echo")
motionSensor        == Named({"MOTION", "CURRENT_ILLUMINATION", "LOW_BAT"}, "echo")
concentrationSensor == "CONCENTRATION" :> "echo"
windowState         == Named({"STATE", "LOW_BAT"}, "echo")
lockTargetLevel     == "LOCK_TARGET_LEVEL" :> "lock state"

\* deviceResponseMappings.
deviceResponseMappings ==
  Named({"HmIP-PS", "HmIP-PSM", "HmIP-FSM", "HmIP-PCBS", "HM-LC-Sw"}, stateWithWorking) @@
  Named({"HmIP-BDT", "HmIP-PDT", "HmIP-FDT"}, levelWithActivity) @@
  Named({"HM-LC-Dim", "HM-LC-Bl1"}, levelToLevelReal) @@
  Named({"HmIP-BROLL", "HmIP-BBL", "HmIP-FBL"}, blindLevel) @@
  Named({"HmIP-HEATING", "HmIP-WTH", "HmIP-STH"}, thermostatSetpointOnly) @@
  Named({"HmIP-SWDO", "HmIP-SRH"}, windowState) @@
  "HmIP-BSM" :> bsmResponses                       @@ "HmIP-FROLL" :> blindLevelLevelOnly @@
  "HmIP-eTRV" :> thermostatSetpointWithControlMode @@ "HmIP-BWTH" :> bwthResponses        @@
  "HM-CC-RT-DN" :> rtdnSetpointAndMode             @@ "HmIP-SWSD" :> smokeDetectorTest    @@
  "HmIP-SMI" :> motionSensor                       @@ "HmIP-DLD" :> lockTargetLevel       @@
  "HmIP-SCTH230" :> concentrationSensor

\* Mapping: the first entry that lists the parameter, "echo" when none does.
Mapping(type, p) ==
  LET listed == SelectSeq(Matches[type], LAMBDA k : p \in DOMAIN deviceResponseMappings[k])
  IN IF listed = <<>> THEN "echo" ELSE deviceResponseMappings[listed[1]][p]

\* isZero.
IsZero(v) == v.type \in {"bool", "int", "real"} /\ v.of = 0

\* What a response may report besides the parameter itself.
Reported == {"WORKING", "ACTIVITY_STATE", "CONTROL_MODE", "SMOKE_DETECTOR_ALARM_STATUS",
             "SMOKE_DETECTOR_TEST_RESULT", "LOCK_STATE"}

\* ComputeEvents.  current holds what is stored of the paramset.
ComputeEvents(type, p, v, current) ==
  LET own == Named({p}, v)
      active == Over(own, Named({"ACTIVITY_STATE"}, Integer(0)))
      kept(q) == Restrict(current, DOMAIN current \cap {q})
      response == Mapping(type, p)
  IN
  CASE response = "state and working"         -> Over(own, Named({"WORKING"}, Bool(FALSE)))
    [] response = "level and activity"        -> active
    [] response = "level, slats and activity" -> Over(active, kept("LEVEL_2"))
    [] response = "level and slats"           -> Over(own, kept("LEVEL_2"))
    [] response = "set point and mode"        ->
         Over(own, Over(kept("CONTROL_MODE"), Named({"CONTROL_MODE"}, Integer(1))))
    [] response = "test result"               ->
         Named({"SMOKE_DETECTOR_ALARM_STATUS", "SMOKE_DETECTOR_TEST_RESULT"}, Integer(0))
    [] response = "lock state"                ->
         Named({"LOCK_STATE"}, Integer(IF IsZero(v) THEN 1 ELSE 2))
    [] OTHER                                  -> own
=============================================================================
