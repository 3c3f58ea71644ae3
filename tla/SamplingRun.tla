---------------------------- MODULE SamplingRun ----------------------------
(***************************************************************************)
(* One case of the release sampler, from its first calibration worker to   *)
(* the replay of what was kept: the measuring process                      *)
(* (scripts/release-sampling/engine.rs), the controller that starts it     *)
(* with a growing iteration count until a rehearsal fills its windows and  *)
(* then once with the count frozen (control/sampling.rs run_profile, the   *)
(* calibration and first phase of control/capture.rs qualify), and the     *)
(* analyses of SamplingContract over the records the process printed.      *)
(*                                                                         *)
(* The worker shares its machine: its thread's CPU mask may be changed     *)
(* while it measures and changed back, its retained buffers may lie        *)
(* elsewhere in one worker or move under it, an observation may run off    *)
(* its pace, and the process may die anywhere.  Each of these is an upset; *)
(* MaxUpsets and MaxPaces bound them.                                      *)
(***************************************************************************)
EXTENDS SamplingWorker

CONSTANTS Foreign,            \* a CPU outside the reservation
          Home, Elsewhere,    \* two addresses of the worker's first buffer
          Subjects,           \* the (profile, case) pairs to run
          Paces,              \* percentages of a duration; 100 is the usual one
          MaxUpsets,          \* upsets of any kind
          MaxPaces            \* observations off the pace, when nothing else happens

(* What the constants have to satisfy. *)
MachineAssumption ==
  /\ Reserved # {} /\ Foreign \notin Reserved /\ 100 \in Paces
  /\ valid_page_size(PageSize) /\ MaxUpsets \in Nat /\ MaxPaces \in Nat

VARIABLES
  subject,    \* the case being run
  mode,       \* calibrate or sample
  count, batch,
  proc,       \* the worker: none, begin, timing, exporting or exited
  pending,    \* the observation being timed
  obs,        \* the observations the worker completed
  exit,       \* its exit code
  affinity,   \* the CPU its measuring thread may run on
  home, layout, \* where its first buffer was prepared, and where it is
  log,        \* the lines of the phase's log
  offset,     \* where the current worker's lines begin
  journal,    \* started and ended workers of the phase
  kept,       \* calibration records, then the records of the sample worker
  rehearsed,  \* the calibration: its records, journal, and what it settled on
  outcome,
  upsets

vars == <<subject, mode, count, batch, proc, pending, obs, exit, affinity, home, layout, log,
          offset, journal, kept, rehearsed, outcome, upsets>>

Profile == subject.profile
Case == subject.case
Revision == "measured"
HasFixture == fixture_contract(Profile, Case) # Null
NoRehearsal == [records |-> <<>>, journal |-> <<>>, log |-> <<>>, count |-> 0]

Allowed(upset) ==
  LET all == upsets \cup {upset}
  IN  \/ Cardinality(all) <= MaxUpsets
      \/ Cardinality(all) <= MaxPaces /\ \A u \in all : u[1] = "pace"
WorkerId == <<mode, batch>>

Init ==
  /\ subject \in Subjects
  /\ mode = "calibrate" /\ count = 1 /\ batch = 1
  /\ proc = "none" /\ pending = [pace |-> 100, cpu |-> MeasuringCpu] /\ obs = <<>> /\ exit = 0
  /\ affinity = MeasuringCpu /\ home = Home /\ layout = Home
  /\ log = <<>> /\ offset = 0 /\ journal = <<>> /\ kept = <<>>
  /\ rehearsed = NoRehearsal /\ outcome = "running" /\ upsets = {}

-----------------------------------------------------------------------------
(* The worker as SamplingWorker describes it.                              *)

Worker == [profile |-> Profile, case |-> Case, mode |-> mode, count |-> count, batch |-> batch,
           home |-> home, revision |-> Revision]

SampleLines ==
  LET rs == SampleRecords(Worker, obs)
  IN  [i \in DOMAIN rs |-> [tag |-> "RSE_SAMPLE", record |-> rs[i]]]

-----------------------------------------------------------------------------
(* The measuring process.                                                  *)

(* run_profile starts a worker; it prepares its case, starts its pool on   *)
(* the whole reservation and then pins its own thread.                     *)
Launch ==
  /\ outcome = "running" /\ proc = "none"
  /\ \E place \in {Home, Elsewhere} :
       /\ place # Home => Allowed(<<"placed", WorkerId>>) /\ HasFixture
       /\ home' = place /\ layout' = place
       /\ upsets' = IF place = Home THEN upsets ELSE upsets \cup {<<"placed", WorkerId>>}
  /\ proc' = "begin" /\ obs' = <<>> /\ exit' = 0 /\ affinity' = MeasuringCpu
  /\ offset' = Len(log)
  /\ journal' = Append(journal, [event |-> "start", mode |-> mode, iterations |-> count,
                                 batch |-> batch, exit |-> 0])
  /\ UNCHANGED <<subject, mode, count, batch, pending, log, kept, rehearsed, outcome>>

(* The mask is checked before an observation is timed. *)
Begin ==
  /\ proc = "begin"
  /\ IF affinity # MeasuringCpu
     THEN proc' = "exporting" /\ exit' = 1 /\ UNCHANGED <<pending, upsets>>
     ELSE /\ proc' = "timing" /\ exit' = exit
          /\ \E pace \in Paces :
               LET upset == <<"pace", WorkerId, Len(obs)>> IN
               /\ pace # 100 => Allowed(upset)
               /\ pending' = [pace |-> pace, cpu |-> affinity]
               /\ upsets' = IF pace = 100 THEN upsets ELSE upsets \cup {upset}
  /\ UNCHANGED <<subject, mode, count, batch, obs, affinity, home, layout, log, offset, journal,
                 kept, rehearsed, outcome>>

(* Mutant: the mask after the timer is not read. *)
FinishUnchecked ==
  /\ proc = "timing"
  /\ LET o == [pace |-> pending.pace, before |-> pending.cpu, after |-> MeasuringCpu,
               checked |-> TRUE, at |-> affinity]
     IN  IF HasFixture /\ layout # home
         THEN proc' = "exporting" /\ exit' = 1 /\ UNCHANGED <<obs, log>>
         ELSE /\ obs' = Append(obs, o)
              /\ log' = Append(log, TimingLine(Worker, o, Len(obs)))
              /\ proc' = IF Len(obs') = Width THEN "exporting" ELSE "begin"
              /\ exit' = exit
  /\ UNCHANGED <<subject, mode, count, batch, pending, affinity, home, layout, offset, journal,
                 kept, rehearsed, outcome, upsets>>

(* The operation has run: the retained layout is compared around it, the   *)
(* mask is read again, the row is kept even when the mask is wrong, and    *)
(* the worker goes no further then.                                        *)
Finish ==
  /\ proc = "timing"
  /\ LET o == [pace |-> pending.pace, before |-> pending.cpu, after |-> affinity,
               checked |-> affinity = MeasuringCpu, at |-> affinity]
     IN  IF HasFixture /\ layout # home
         THEN proc' = "exporting" /\ exit' = 1 /\ UNCHANGED <<obs, log>>
         ELSE /\ obs' = Append(obs, o)
              /\ log' = Append(log, TimingLine(Worker, o, Len(obs)))
              /\ proc' = IF ~o.checked \/ Len(obs') = Width THEN "exporting" ELSE "begin"
              /\ exit' = IF o.checked THEN exit ELSE 1
  /\ UNCHANGED <<subject, mode, count, batch, pending, affinity, home, layout, offset, journal,
                 kept, rehearsed, outcome, upsets>>

(* Completed observations are exported, also those before a panic. *)
Export ==
  /\ proc = "exporting"
  /\ log' = log \o SampleLines
  /\ proc' = "exited"
  /\ UNCHANGED <<subject, mode, count, batch, pending, obs, exit, affinity, home, layout, offset,
                 journal, kept, rehearsed, outcome, upsets>>

-----------------------------------------------------------------------------
(* The machine under it.                                                   *)

Migrate ==
  LET upset == <<"strayed", WorkerId, Len(obs), proc>> IN
  /\ proc \in {"begin", "timing"} /\ affinity = MeasuringCpu /\ Allowed(upset)
  /\ affinity' = Foreign /\ upsets' = upsets \cup {upset}
  /\ UNCHANGED <<subject, mode, count, batch, proc, pending, obs, exit, home, layout, log, offset,
                 journal, kept, rehearsed, outcome>>

Return ==
  /\ proc \in {"begin", "timing"} /\ affinity = Foreign
  /\ affinity' = MeasuringCpu
  /\ UNCHANGED <<subject, mode, count, batch, proc, pending, obs, exit, home, layout, log, offset,
                 journal, kept, rehearsed, outcome, upsets>>

Move ==
  LET upset == <<"moved", WorkerId, Len(obs)>> IN
  /\ proc \in {"begin", "timing"} /\ HasFixture /\ layout = Home /\ Allowed(upset)
  /\ layout' = Elsewhere /\ upsets' = upsets \cup {upset}
  /\ UNCHANGED <<subject, mode, count, batch, proc, pending, obs, exit, affinity, home, log,
                 offset, journal, kept, rehearsed, outcome>>

(* The process dies; what it had printed stays in the log. *)
Die ==
  LET upset == <<"died", WorkerId, Len(obs), proc>> IN
  /\ proc \in {"begin", "timing", "exporting"} /\ Allowed(upset)
  /\ \E n \in 0..Len(obs) :
       /\ n > 0 => proc = "exporting"
       /\ log' = log \o SubSeq(SampleLines, 1, n)
  /\ proc' = "exited" /\ exit' = 1 /\ upsets' = upsets \cup {upset}
  /\ UNCHANGED <<subject, mode, count, batch, pending, obs, affinity, home, layout, offset,
                 journal, kept, rehearsed, outcome>>

-----------------------------------------------------------------------------
(* The controller.                                                         *)

(* The records the last worker appended to the log. *)
Current ==
  LET lines == SelectSeq(SubSeq(log, offset + 1, Len(log)), LAMBDA l : l.tag = "RSE_SAMPLE")
  IN  [i \in DOMAIN lines |-> lines[i].record]

Ended == Append(journal, [event |-> "end", mode |-> mode, iterations |-> count,
                          batch |-> batch, exit |-> exit])

(* A worker that failed, or that printed nothing, ends the run. *)
WorkerFailed ==
  /\ proc = "exited" /\ (exit # 0 \/ Current = <<>>)
  /\ proc' = "none" /\ journal' = Ended /\ outcome' = "refused"
  /\ UNCHANGED <<subject, mode, count, batch, pending, obs, exit, affinity, home, layout, log,
                 offset, kept, rehearsed, upsets>>

(* A calibration worker ended well: try a larger count, or settle on this  *)
(* one when the replay of all records agrees.                              *)
Calibrated ==
  /\ proc = "exited" /\ exit = 0 /\ Current # <<>> /\ mode = "calibrate"
  /\ proc' = "none"
  /\ LET following == calibration(Current, count, batch)
         records == kept \o Current
         settled == counts(records, Profile, Revision, Reserved, PageSize)
     IN  \/ /\ following \notin {Complete, Refused} /\ batch < MaxBatches
            /\ count' = following /\ batch' = batch + 1 /\ kept' = records
            /\ journal' = Ended /\ UNCHANGED <<mode, log, rehearsed, outcome>>
         \/ /\ following = Complete /\ settled # Refused
            /\ rehearsed' = [records |-> records, journal |-> Ended, log |-> log,
                             count |-> settled]
            /\ mode' = "sample" /\ count' = settled /\ batch' = 0
            /\ kept' = <<>> /\ log' = <<>> /\ journal' = <<>> /\ UNCHANGED outcome
         \/ /\ \/ following = Refused
               \/ following # Complete /\ batch = MaxBatches
               \/ following = Complete /\ settled = Refused
            /\ outcome' = "refused" /\ journal' = Ended
            /\ UNCHANGED <<mode, count, batch, kept, log, rehearsed>>
  /\ UNCHANGED <<subject, pending, obs, exit, affinity, home, layout, offset, upsets>>

Reference(rs) == rs[CHOOSE i \in DOMAIN rs : rs[i].complete]

(* The frozen worker ended well: it counts when its rows match the         *)
(* calibration, its samples fill their windows, it was prepared alike and  *)
(* its distribution is central.                                            *)
Sampled ==
  /\ proc = "exited" /\ exit = 0 /\ Current # <<>> /\ mode = "sample"
  /\ proc' = "none" /\ kept' = Current /\ journal' = Ended
  /\ outcome' = IF /\ observations_ref(Current, Reference(rehearsed.records))
                   /\ validate_groups(Current, Profile, Revision, count, Reserved, PageSize)
                   /\ select(Current, Profile, FALSE) # Null
                   /\ catalog(Preparation(Current, FALSE))
                        = catalog(Preparation(rehearsed.records, TRUE))
                   /\ ~Unstable(Current, Profile)
                THEN "accepted" ELSE "refused"
  /\ UNCHANGED <<subject, mode, count, batch, pending, obs, exit, affinity, home, layout, log,
                 offset, rehearsed, upsets>>

(* The kept evidence is replayed: both journals and the frozen worker's    *)
(* own log have to agree with the records.                                 *)
Replay ==
  /\ outcome = "accepted"
  /\ outcome' =
       IF /\ journal_execute(rehearsed.journal, Preparation(rehearsed.records, TRUE).starts,
                             "calibrate")
          /\ journal_execute(journal, Preparation(kept, FALSE).starts, "sample")
          /\ replay_validate(log, kept, Profile, Revision, count, Reserved, PageSize,
                             catalog(Preparation(rehearsed.records, TRUE)),
                             Reference(rehearsed.records))
       THEN "replayed" ELSE "replay_refused"
  /\ UNCHANGED <<subject, mode, count, batch, proc, pending, obs, exit, affinity, home, layout,
                 log, offset, journal, kept, rehearsed, upsets>>

Over == outcome \in {"refused", "replayed", "replay_refused"} /\ UNCHANGED vars

Next == \/ Launch \/ Begin \/ Finish \/ Export \/ Migrate \/ Return \/ Move \/ Die
        \/ WorkerFailed \/ Calibrated \/ Sampled \/ Replay \/ Over

Spec == Init /\ [][Next]_vars

-----------------------------------------------------------------------------
(* Properties.                                                             *)

Measured == (Warmups + 1)..Width

(* A worker whose numbers are accepted (control/capture.rs qualify) really *)
(* was measured: each of its observations began and ended on the measuring *)
(* CPU, its buffers lay where the last rehearsal had them, its count is one*)
(* whose rehearsal filled the target windows, every sample filled the      *)
(* minimum ones, and the sample that stands for it is within a tenth of all*)
(* samples but one on either side.                                         *)
AcceptedMeansMeasured ==
  outcome \in {"accepted", "replayed", "replay_refused"} =>
    /\ Len(obs) = Width
    /\ \A i \in 1..Width : obs[i].before = MeasuringCpu /\ obs[i].at = MeasuringCpu
    /\ HasFixture => /\ layout = home
                     /\ Fixture(Worker) = rehearsed.records[Len(rehearsed.records)].fixture
    /\ LET last == Chunk(rehearsed.records, Len(rehearsed.records) \div Width)
       IN  \A i \in Measured : /\ last[i].iterations = count
                               /\ last[i].wall >= TargetWall /\ last[i].timed >= TargetTimed
    /\ \A i \in Measured : Wall(Worker, obs[i]) >= MinimumWall /\ Timed(Worker, obs[i]) >= MinimumTimed
    /\ LET pace == obs[MedianIndex(kept, Profile)].pace
           off(i) == 10 * Abs(obs[i].pace - pace) > pace
       IN  /\ Cardinality({i \in Measured : off(i) /\ obs[i].pace < pace}) <= 1
           /\ Cardinality({i \in Measured : off(i) /\ obs[i].pace > pace}) <= 1

PaceUpsets(id) == {u \in upsets : u[1] = "pace" /\ u[2] = id}

(* A run is refused, live or when its evidence is replayed, only for a     *)
(* cause: a process that died, a mask or a buffer that moved, a worker     *)
(* prepared elsewhere, two observations off the pace, or one so quick that *)
(* it missed a window (run_profile, calibration_profile::counts and        *)
(* replay::validate judge the same records).                               *)
RefusedForCause ==
  outcome \in {"refused", "replay_refused"} =>
    \/ \E u \in upsets : u[1] \in {"died", "strayed", "moved", "placed"}
    \/ Cardinality({u \in upsets : u[1] = "pace"}) >= 2
    \/ \E i \in Measured : i <= Len(obs) /\ obs[i].pace < 100
=============================================================================
