--------------------------- MODULE MCReleaseTools ---------------------------
(***************************************************************************)
(* The release tools in one run: a behaviour is one of the controller's    *)
(* campaign (ReleaseCampaign), of one case's workers (SamplingRun), of the *)
(* regression gate (RegressionGate) or of the A-B-B-A report (AbbaReport), *)
(* and tool says of which.  They share the sampling contract and no        *)
(* variable; those of the others stay as they are.                         *)
(*                                                                         *)
(* The campaign has a latency case and a throughput case; the workers run  *)
(* one case of every profile and two hotspot scenarios.                    *)
(***************************************************************************)
EXTENDS ReleaseCampaign

CONSTANTS CaseWallPace, CaseTimedPace, Foreign, Subjects, Paces, MaxPaces,
          Limit, StreamCases, GatePaces, MaxEdits, MaxOptions,
          Groups, Lengths, Means, Threshold

VARIABLES tool,
          subject, runMode, count, batch, proc, pending, obs, exit, affinity, home, layout,
          log, offset, journal, kept, rehearsed, outcome, runUpsets,
          flags, rows, truth, edits,
          campaign, present, abbaPc, json, md, ended, abbaEdits

Run == INSTANCE SamplingRun
    WITH WallPace <- CaseWallPace, TimedPace <- CaseTimedPace,
         mode <- runMode, upsets <- runUpsets
Gate == INSTANCE RegressionGate WITH Paces <- GatePaces
Abba == INSTANCE AbbaReport WITH pc <- abbaPc, edits <- abbaEdits

ASSUME Run!MachineAssumption
ASSUME GateFits == Gate!GateAssumption
ASSUME AbbaFits == Abba!AbbaAssumption

runVars == <<subject, runMode, count, batch, proc, pending, obs, exit, affinity, home, layout,
             log, offset, journal, kept, rehearsed, outcome, runUpsets>>
gateVars == <<flags, rows, truth, edits>>
abbaVars == <<campaign, present, abbaPc, json, md, ended, abbaEdits>>

MCInit ==
  /\ tool \in {"campaign", "run", "gate", "abba"}
  /\ Init /\ Run!Init /\ Gate!Init /\ Abba!Init
  /\ tool # "campaign" => mode = CHOOSE m \in Modes : TRUE
  /\ tool # "campaign" \/ Qualifying => candidate = CHOOSE l \in CandidateLevels : TRUE
  /\ tool # "run" => subject = CHOOSE s \in Subjects : TRUE
  /\ tool # "gate" => flags = CHOOSE f \in Gate!Commands : Gate!Options(f) = {}

MCNext ==
  \/ tool = "campaign" /\ Next /\ UNCHANGED <<tool, runVars, gateVars, abbaVars>>
  \/ tool = "run" /\ Run!Next /\ UNCHANGED <<tool, vars, gateVars, abbaVars>>
  \/ tool = "gate" /\ Gate!Next /\ UNCHANGED <<tool, vars, runVars, abbaVars>>
  \/ tool = "abba" /\ Abba!Next /\ UNCHANGED <<tool, vars, runVars, gateVars>>

MCSpec == MCInit /\ [][MCNext]_<<tool, vars, runVars, gateVars, abbaVars>>

(* The invariants of SamplingRun, RegressionGate and AbbaReport, in the    *)
(* behaviours about them; each is stated and explained there.              *)
AcceptedMeansMeasured == tool = "run" => Run!AcceptedMeansMeasured
PassedMeansComparable == tool = "gate" => Gate!PassedMeansComparable
AttributionEarned == tool = "abba" => Abba!AttributionEarned

(* No false alarm: the controller refuses a campaign only for something    *)
(* that changed or a level that regressed (ReleaseCampaign), and the replay*)
(* refuses a case only for a record that breaks its contract (SamplingRun).*)
RefusalsHaveCause == RefusalHasCause /\ Run!RefusedForCause

----------------------------------------------------------------------------
Of(op) == [operation |-> op, data |-> 2, parity |-> 1, size |-> 3]
Hotspot(name, missing, required) ==
  [operation |-> "hotspot", name |-> name, data |-> 2, parity |-> 1, size |-> 3,
   missing |-> missing, required |-> required]
OneShape == {[data |-> 2, parity |-> 1, size |-> 3]}

Hot == Hotspot("data", {0, 2}, {})
TwoHotspots == {Hot, Hotspot("some", {0, 1}, {1})}

CampaignProfiles == <<[profile |-> "small_file", case |-> Of("verify_with_buffer")],
                      [profile |-> "hotspot", case |-> Hot]>>
CampaignWallPace == [small_file |-> 90, hotspot |-> 1200]
CampaignTimedPace == [small_file |-> 20, hotspot |-> 80]

FiveSubjects == {[profile |-> "smoke", case |-> Of("update")],
                 [profile |-> "small_file", case |-> Of("verify_with_buffer")],
                 [profile |-> "stream", case |-> Of("encode_stream")]}
                \cup {[profile |-> "hotspot", case |-> c] : c \in TwoHotspots}
FourWallPaces == [smoke |-> 90, small_file |-> 7, stream |-> 90, hotspot |-> 1200]
FourTimedPaces == [smoke |-> 7, small_file |-> 3, stream |-> 7, hotspot |-> 80]

TwoLimits == [encode |-> 10, encode_stream |-> 12]
=============================================================================
