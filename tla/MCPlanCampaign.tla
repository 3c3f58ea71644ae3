--------------------------- MODULE MCPlanCampaign ---------------------------
(***************************************************************************)
(* Model checking PlanCampaign and the supervisor of its workers           *)
(* (OwnedProcess).  A campaign takes from the supervisor how a worker      *)
(* ended, and in one run either of them moves: CampaignSpec is about the   *)
(* campaign, WorkerSpec about one supervised worker.                       *)
(*                                                                         *)
(* The campaign has two files read one after the other, so that one can be *)
(* replaced between the reads, and two stages, so that there is a gap      *)
(* between stages.                                                         *)
(***************************************************************************)
EXTENDS PlanCampaign

CONSTANTS Workers, Leader

VARIABLES proc, stubborn, code, darwin, mode, env, place, site, sig, status,
          view, stops, outcome, stray

Owned == INSTANCE OwnedProcess WITH pc <- place

ownedVars == <<proc, stubborn, code, darwin, mode, env, place, site, sig, status,
               view, stops, outcome, stray>>

CampaignSpec ==
  /\ Init /\ Owned!Init /\ stubborn = {} /\ darwin = FALSE /\ mode = "execute"
  /\ [][Next /\ UNCHANGED ownedVars]_<<vars, ownedVars>>
  /\ WF_vars(Controller) /\ WF_vars(TimesOut) /\ WF_vars(Tick)

WorkerSpec ==
  /\ Owned!Init /\ Init /\ compatible = TRUE
  /\ [][Owned!Next /\ UNCHANGED vars]_<<vars, ownedVars>>
  /\ WF_ownedVars(Owned!Supervisor) /\ WF_ownedVars(Owned!Expire)
  /\ SF_ownedVars(Owned!Deadline \/ Owned!GiveUp)

(* The properties of OwnedProcess, stated and explained there. *)
ReapedMeansGone == Owned!ReapedMeansGone
OwnGroupSignalled == Owned!OwnGroupSignalled
AcceptedExitIsOwn == Owned!AcceptedExitIsOwn
SupervisorReturns == Owned!SupervisorReturns

TwoMembers == <<"manifest", "binary">>

TwoStages == <<"A1", "B1">>
=============================================================================
