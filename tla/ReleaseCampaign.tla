-------------------------- MODULE ReleaseCampaign --------------------------
(***************************************************************************)
(* The release evidence of the tools (xtask control/capture.rs and         *)
(* control/release.rs): a campaign calibrates the published baseline and   *)
(* the candidate, measures both in the phases A1, B1, B2, A2 with the      *)
(* common iteration counts, seals a manifest, and approves it only after   *)
(* replaying every original record; `materialize' publishes the inputs of  *)
(* an approved manifest.  `diagnose-complete' runs the same campaign and   *)
(* only reports; `qualify-baseline' repeats the baseline alone.            *)
(*                                                                         *)
(* The measuring processes are those of SamplingRun, here one step each:   *)
(* they end well, at some level and shape of durations, or fail.  While    *)
(* the campaign runs the resource context, a source tree or the tools may  *)
(* change for good, members may be overwritten, and the writes of a        *)
(* publication and of its failure report may fail; MaxUpsets bounds these  *)
(* and the workers off their usual level, and MaxFailures the failing      *)
(* writes besides.  What the slices of the paired-layout supplement show is*)
(* a free choice: they met its limits or not.                              *)
(***************************************************************************)
EXTENDS SamplingWorker

CONSTANTS Profiles,          \* the profiles' order and their case
          Modes,             \* commands to run
          CandidateLevels,   \* usual duration of the candidate, baseline is 100
          Shifts,            \* changes of level a worker may show
          Home, Elsewhere,   \* addresses of the first buffer
          MaxUpsets,
          MaxFailures        \* failing writes besides

ASSUME CampaignAssumption == /\ 0 \in Shifts /\ MaxUpsets \in Nat /\ MaxFailures \in Nat
                             /\ Profiles \in Seq({Profiles[i] : i \in DOMAIN Profiles})
                             /\ \A i \in DOMAIN Profiles :
                                  known_case(Profiles[i].profile, Profiles[i].case)

STAGES == <<"A1", "B1", "B2", "A2">>
RoleOf(phase) == IF phase \in {"A1", "A2", "calibration-baseline"} THEN "baseline" ELSE "candidate"
Calibrating(phase) == phase \in {"calibration-baseline", "calibration-candidate"}

Phases(mode) ==
  IF mode = "qualify-baseline" THEN <<"calibration-baseline", "A1", "A2">>
  ELSE <<"calibration-baseline", "calibration-candidate">> \o STAGES

(* The jobs of a command: every phase measures every profile in order. *)
Jobs(mode) ==
  LET n == Len(Profiles) IN
  [k \in 1..(n * Len(Phases(mode))) |->
     [phase |-> Phases(mode)[((k - 1) \div n) + 1], p |-> ((k - 1) % n) + 1]]

VARIABLES
  mode, candidate,   \* the command, and the candidate's usual level
  world,             \* the context, the source trees and the tools, as versions
  pc, job,           \* the controller's place
  before,            \* the context when the profile began
  contexts,          \* the contexts the manifest records
  ran,               \* what the worker of each job really was
  records,           \* what the workers of each job printed: the originals
  foreign,           \* members overwritten by somebody else
  layoutGate,        \* the paired-layout supplement met its limits
  observed,          \* what a verification, or the layout capture, saw first
  command,           \* capture or materialize
  report,            \* what the command reported last
  limits,            \* a diagnostic found every limit met
  published,         \* which manifest each published file belongs to
  todo,              \* files still to publish
  upsets

vars == <<mode, candidate, world, pc, job, before, contexts, ran, records, foreign, layoutGate, observed,
          command, report, limits, published, todo, upsets>>

taken == <<ran, records>>

Diagnostic == mode = "diagnose-complete"
Qualifying == mode = "qualify-baseline"
Job == Jobs(mode)[job]
JobAt(phase, p) == CHOOSE k \in DOMAIN Jobs(mode) : Jobs(mode)[k] = [phase |-> phase, p |-> p]
ProfileAt(p) == Profiles[p].profile
ProfileNumbers == DOMAIN Profiles

Targets == ({"inputs", "current"} \X ProfileNumbers)
Fresh == [context |-> 0, baseline |-> 0, candidate |-> 0, tool |-> 0, manifest |-> 0]
Unmeasured == [level |-> 0]

Init ==
  /\ mode \in Modes /\ candidate \in CandidateLevels
  /\ world = Fresh /\ pc = "open" /\ job = 1 /\ before = 0 /\ contexts = <<>>
  /\ ran = [k \in DOMAIN Jobs(mode) |-> Unmeasured]
  /\ records = [k \in DOMAIN Jobs(mode) |-> <<>>]
  /\ foreign = {} /\ layoutGate = FALSE /\ observed = Fresh /\ command = "capture"
  /\ report = "none" /\ limits = FALSE
  /\ published = [files |-> [t \in Targets |-> "old"], env |-> "old", evidence |-> "old"]
  /\ todo = <<>> /\ upsets = 0

-----------------------------------------------------------------------------
(* The records of a job, from what its workers were.                       *)

ModeOf(k) == IF Calibrating(Jobs(mode)[k].phase) THEN "calibrate" ELSE "sample"

Describe(k, w, count, batch) ==
  [profile |-> ProfileAt(Jobs(mode)[k].p), case |-> Profiles[Jobs(mode)[k].p].case,
   mode |-> ModeOf(k), count |-> count, batch |-> batch, home |-> w.home,
   revision |-> RoleOf(Jobs(mode)[k].phase)]

(* A wide worker runs two of its samples half as slow again. *)
Observations(w) ==
  [i \in 1..Width |->
     [pace |-> IF w.wide /\ i \in {Warmups + 1, Warmups + 2}
               THEN (3 * w.level) \div 2 ELSE w.level,
      before |-> MeasuringCpu, after |-> MeasuringCpu, checked |-> TRUE]]

Batch(k, w, count, batch) == SampleRecords(Describe(k, w, count, batch), Observations(w))

Start(count, batch) == [iterations |-> count, batch |-> batch]

(* run_profile's loop over the batches of a calibration, each worker with  *)
(* the count that the batch before it asked for: asked[b] is what the      *)
(* first b - 1 batches recorded, the workers they started and the count    *)
(* of the next.                                                            *)
Rehearsals(k, w) ==
  LET asked[b \in 1..(MaxBatches + 1)] ==
        IF b = 1 THEN [records |-> <<>>, starts |-> <<>>, next |-> 1]
        ELSE LET last == asked[b - 1]
                 more == Batch(k, w, last.next, b - 1)
             IN  IF last.next \in {Complete, Refused} THEN last
                 ELSE [records |-> last.records \o more,
                       starts |-> Append(last.starts, Start(last.next, b - 1)),
                       next |-> calibration(more, last.next, b - 1)]
  IN  asked[MaxBatches + 1]

Counted(k) == counts(records[k], ProfileAt(Jobs(mode)[k].p), RoleOf(Jobs(mode)[k].phase),
                     Reserved, PageSize)

Pilot(role, p) == Counted(JobAt(IF role = "baseline" THEN "calibration-baseline"
                                                     ELSE "calibration-candidate", p))

(* Both codecs are measured with the larger of their two counts. *)
Common(p) ==
  IF Qualifying THEN Pilot("baseline", p) ELSE Max({Pilot("baseline", p), Pilot("candidate", p)})

(* What the workers of a job print, and which workers that are. *)
Work(k, w) ==
  LET common == Common(Jobs(mode)[k].p)
  IN  IF Calibrating(Jobs(mode)[k].phase) THEN Rehearsals(k, w)
      ELSE [records |-> Batch(k, w, common, 0), starts |-> <<Start(common, 0)>>]

Prepared(k) == catalog(Preparation(records[k], Calibrating(Jobs(mode)[k].phase)))

FirstComplete(rs) == rs[CHOOSE i \in DOMAIN rs : rs[i].complete]
CompleteRecords(rs) == SelectSeq(rs, LAMBDA r : r.complete)

PilotJob(k) == JobAt(IF RoleOf(Jobs(mode)[k].phase) = "baseline" THEN "calibration-baseline"
                                                     ELSE "calibration-candidate", Jobs(mode)[k].p)

-----------------------------------------------------------------------------
(* The campaign, one profile of one phase after the other.                 *)

Fail(status) == pc' = "over" /\ report' = status

(* A phase records its context when it begins; a profile remembers the     *)
(* context it starts in.                                                   *)
Open ==
  /\ pc = "open"
  /\ before' = world.context
  /\ contexts' = IF Job.p = 1 /\ ~Calibrating(Job.phase)
                 THEN [ph \in DOMAIN contexts \cup {Job.phase} |->
                         IF ph = Job.phase THEN world.context ELSE contexts[ph]]
                 ELSE contexts
  /\ pc' = "run"
  /\ UNCHANGED <<mode, candidate, world, job, taken, foreign, layoutGate, observed, command, report,
                 limits, published, todo, upsets>>

(* The workers of a profile, at a level, a shape and a place of their own; *)
(* a worker that fails ends the command.                                   *)
RunWorkers ==
  /\ pc = "run"
  /\ \E shift \in Shifts, wide \in BOOLEAN, home \in {Home, Elsewhere}, dies \in BOOLEAN :
       LET cost == Cardinality({x \in {<<1, shift # 0>>, <<2, wide>>, <<3, home # Home>>,
                                       <<4, dies>>} : x[2]})
       IN  /\ upsets + cost <= MaxUpsets
           /\ upsets' = upsets + cost
           /\ IF dies THEN Fail("failed") /\ UNCHANGED taken
              ELSE LET w == [level |-> shift + (IF RoleOf(Job.phase) = "baseline" THEN 100
                                                                               ELSE candidate),
                             wide |-> wide, home |-> home, context |-> world.context,
                             source |-> world[RoleOf(Job.phase)], starts |-> <<>>]
                       work == Work(job, w)
                   IN  /\ ran' = [ran EXCEPT ![job] = [w EXCEPT !.starts = work.starts]]
                       /\ records' = [records EXCEPT ![job] = work.records]
                       /\ pc' = "close" /\ report' = report
  /\ UNCHANGED <<mode, candidate, world, job, before, contexts, foreign, layoutGate, observed,
                 command, limits, published, todo>>

(* Sources and tools are still the ones the campaign began with. *)
unchanged == world.baseline = 0 /\ (Qualifying \/ world.candidate = 0) /\ world.tool = 0

(* What a profile's records have to show before the campaign goes on.  The *)
(* phases of a campaign do not know the reservation yet; its replay does.  *)
ProfileHolds ==
  LET k == job
      rs == records[k]
      profile == ProfileAt(Job.p)
      reserved == IF Qualifying THEN Reserved ELSE {}
      page == IF Qualifying THEN PageSize ELSE 0
  IN  IF Calibrating(Job.phase)
      THEN /\ Counted(k) # Refused
           /\ observations_ref(CompleteRecords(rs),
                               FirstComplete(records[JobAt("calibration-baseline", Job.p)]))
      ELSE /\ observations_ref(rs, FirstComplete(records[PilotJob(k)]))
           /\ validate_groups(rs, profile, RoleOf(Job.phase), Common(Job.p), reserved, page)
           /\ select(rs, profile, Diagnostic) # Null
           /\ Qualifying => Prepared(k) = Prepared(PilotJob(k))

PhaseUnstable == \E p \in ProfileNumbers : Unstable(records[JobAt(Job.phase, p)], ProfileAt(p))

Close ==
  /\ pc = "close"
  /\ IF \/ world.context # before \/ ~ProfileHolds
        \/ Qualifying /\ ~(unchanged /\ world.context = 0)
     THEN Fail("failed") /\ job' = job
     ELSE IF Job.p = Len(Profiles) /\ ~Calibrating(Job.phase) /\ ~Diagnostic /\ PhaseUnstable
     THEN Fail("refused") /\ job' = job
     ELSE /\ job' = IF job = Len(ran) THEN job ELSE job + 1
          /\ pc' = IF job < Len(ran) THEN "open" ELSE IF Qualifying THEN "repeats" ELSE "after"
          /\ report' = report
  /\ UNCHANGED <<mode, candidate, world, before, contexts, taken, foreign, layoutGate, observed,
                 command, limits, published, todo, upsets>>

-----------------------------------------------------------------------------
(* The judgement of a campaign's evidence.                                 *)

Selected(phase, p) == select(records[JobAt(phase, p)], ProfileAt(p), TRUE)

(* The metric moved by more than 5% between two phases of one codec. *)
Drifted(first, second, p) ==
  LET a == Selected(first, p)
      b == Selected(second, p)
  IN  IF HigherIsBetter(ProfileAt(p)) THEN 100 * Abs(a.interval - b.interval) > 5 * b.interval
                                      ELSE 100 * Abs(b.ns - a.ns) > 5 * a.ns

(* The regression checkers' limit of 12% for these cases. *)
Regressed(a, b, p) ==
  LET old == Selected(a, p)
      new == Selected(b, p)
  IN  IF HigherIsBetter(ProfileAt(p)) THEN 100 * (new.interval - old.interval) > 12 * new.interval
                                      ELSE 100 * (new.ns - old.ns) > 12 * old.ns

SameContexts == \A ph \in DOMAIN contexts : contexts[ph] = contexts["A1"]

(* The manifest binds the sources and tools that are seen now.  It has no  *)
(* digest of its own: somebody else's is refused because it does not bind  *)
(* this capture's members, sources and counts.                             *)
Bound(seen) == seen.baseline = 0 /\ seen.candidate = 0 /\ seen.tool = 0 /\ seen.manifest = 0

Originals == {<<k, what>> : k \in DOMAIN Jobs(mode), what \in {"samples", "summary"}}

(* Mutant: the random input has to replay the calibration's at any count.  *)
LikePilotAlways(k) ==
  LET now == Prepared(k)
      pilot == Prepared(PilotJob(k))
  IN  now.workload = pilot.workload /\ now.fixture = pilot.fixture /\ now.trace = pilot.trace

(* A phase was prepared like its codec's final calibration; its random     *)
(* input replays it when both ran the same count.                          *)
LikePilot(k) ==
  LET now == Prepared(k)
      pilot == Prepared(PilotJob(k))
  IN  /\ now.workload = pilot.workload /\ now.fixture = pilot.fixture
      /\ Counted(PilotJob(k)) = Common(Jobs(mode)[k].p) => now.trace = pilot.trace

LikeFirst(k) == Prepared(k) = Prepared(JobAt("A1", Jobs(mode)[k].p))

(* The journal of a job: a start and an end for every worker it started.   *)
JournalOf(k) ==
  LET starts == ran[k].starts
  IN  [i \in 1..(2 * Len(starts)) |->
         [event |-> IF i % 2 = 1 THEN "start" ELSE "end", mode |-> ModeOf(k),
          iterations |-> starts[(i + 1) \div 2].iterations,
          batch |-> starts[(i + 1) \div 2].batch, exit |-> 0]]

(* Every original record is read again and judged by the same contracts. *)
Replayed ==
  /\ foreign \cap Originals = {}
  /\ \A p \in ProfileNumbers :
       /\ Pilot("baseline", p) # Refused /\ Pilot("candidate", p) # Refused
       /\ observations_ref(CompleteRecords(records[JobAt("calibration-candidate", p)]),
                           FirstComplete(records[JobAt("calibration-baseline", p)]))
       /\ \A s \in DOMAIN STAGES :
            LET k == JobAt(STAGES[s], p)
                rs == records[k]
            IN  /\ validate_groups(rs, ProfileAt(p), RoleOf(STAGES[s]), Common(p), Reserved, PageSize)
                /\ select(rs, ProfileAt(p), Diagnostic) # Null
                /\ observations_ref(rs, FirstComplete(records[PilotJob(k)]))
                /\ LikePilot(k) /\ LikeFirst(k)
  /\ Diagnostic =>
       /\ <<0, "journal">> \notin foreign
       /\ \A k \in DOMAIN Jobs(mode) :
            journal_execute(JournalOf(k),
                            Preparation(records[k], Calibrating(Jobs(mode)[k].phase)).starts,
                            ModeOf(k))

SomeUnstable == \E p \in ProfileNumbers, s \in DOMAIN STAGES :
  Unstable(records[JobAt(STAGES[s], p)], ProfileAt(p))
SomeShort == \E p \in ProfileNumbers, s \in DOMAIN STAGES :
  ShortSamples(records[JobAt(STAGES[s], p)]) # {}
SomeDrift == \E p \in ProfileNumbers : Drifted("A1", "A2", p) \/ Drifted("B1", "B2", p)

(* Mutant: only the first phase of each codec is compared. *)
SomeRegressionFirst == \E p \in ProfileNumbers : Regressed("A1", "B1", p)

SomeRegression == \E p \in ProfileNumbers, a \in {"A1", "A2"}, b \in {"B1", "B2"} : Regressed(a, b, p)

(* What profiles_bound answers for the sources and tools it has seen. *)
Judgement(seen) ==
  IF ~(Bound(seen) /\ SameContexts /\ Replayed) THEN "failed"
  ELSE IF Diagnostic THEN "verified"
  ELSE IF SomeUnstable \/ SomeDrift \/ SomeRegression THEN "refused" ELSE "verified"

WithAfter == [ph \in DOMAIN contexts \cup {"after"} |->
                IF ph = "after" THEN world.context ELSE contexts[ph]]

(* After the last phase: the context is recorded, sources and tools are    *)
(* compared, and a formal campaign judges its profiles already.            *)
After ==
  /\ pc = "after"
  /\ contexts' = WithAfter
  /\ IF ~unchanged THEN Fail("failed")
     ELSE /\ pc' = "judge" /\ report' = report
  /\ UNCHANGED <<mode, candidate, world, job, before, taken, foreign, layoutGate, observed, command,
                 limits, published, todo, upsets>>

Judge ==
  /\ pc = "judge"
  /\ LET verdict == Judgement(world) IN
     IF ~Diagnostic /\ verdict # "verified" THEN Fail(verdict)
     ELSE pc' = "layout" /\ report' = report
  /\ UNCHANGED <<mode, candidate, world, job, before, contexts, taken, foreign, layoutGate, observed,
                 command, limits, published, todo, upsets>>

(* The paired-layout supplement: every slice records the sources, the tools*)
(* and the context it begins in.                                           *)
LayoutOpen ==
  /\ pc = "layout"
  /\ observed' = world
  /\ pc' = "slices"
  /\ UNCHANGED <<mode, candidate, world, job, before, contexts, taken, foreign, layoutGate, command,
                 report, limits, published, todo, upsets>>

(* Its worker may fail, and what it began in has to be the same at its end;*)
(* a formal campaign stops at slices that do not meet their limits, a      *)
(* diagnostic one records that.                                            *)
Layout ==
  /\ pc = "slices"
  /\ \E dies \in BOOLEAN, good \in BOOLEAN :
       LET cost == Cardinality({x \in {<<1, dies>>, <<2, ~good>>} : x[2]})
       IN  /\ upsets + cost <= MaxUpsets /\ upsets' = upsets + cost
           /\ layoutGate' = (good /\ ~dies)
           /\ IF dies \/ world # observed THEN Fail("failed")
              ELSE IF ~good /\ ~Diagnostic THEN Fail("refused")
              ELSE pc' = "seal" /\ report' = report
  /\ UNCHANGED <<mode, candidate, world, job, before, contexts, taken, foreign, observed, command,
                 limits, published, todo>>

Seal ==
  /\ pc = "seal"
  /\ contexts' = WithAfter
  /\ IF world.context # contexts["A1"] \/ ~unchanged THEN Fail("failed")
     ELSE pc' = "observe" /\ report' = report
  /\ UNCHANGED <<mode, candidate, world, job, before, taken, foreign, layoutGate, observed, command,
                 limits, published, todo, upsets>>

-----------------------------------------------------------------------------
(* verify_observed: look, judge, look again.                               *)

(* The manifest is read once; its shape and the digest of the supplement's *)
(* manifest are checked at once, the rest of it against what is seen now.  *)
Observe ==
  /\ pc = "observe"
  /\ LET other == <<0, "manifest">> \in foreign IN
     /\ observed' = [world EXCEPT !.manifest = IF other THEN 1 ELSE 0]
     /\ \/ (other \/ <<0, "layout">> \in foreign) /\ Fail("failed")
        \/ <<0, "layout">> \notin foreign /\ pc' = "verify" /\ report' = report
  /\ UNCHANGED <<mode, candidate, world, job, before, contexts, taken, foreign, layoutGate, command,
                 limits, published, todo, upsets>>

(* The profiles are judged, then the supplement is read again, with its    *)
(* slices, and its gate.                                                   *)
Verify ==
  /\ pc = "verify"
  /\ LET verdict == Judgement(observed) IN
     IF verdict # "verified" THEN Fail(verdict) /\ limits' = limits
     ELSE IF foreign \cap {<<0, "layout">>, <<0, "slices">>} # {} THEN Fail("failed") /\ limits' = limits
     ELSE IF ~Diagnostic /\ ~layoutGate THEN Fail("refused") /\ limits' = limits
     ELSE /\ limits' = (Diagnostic /\ layoutGate /\ ~SomeUnstable /\ ~SomeShort /\ ~SomeDrift
                          /\ ~SomeRegression)
          /\ pc' = "reobserve" /\ report' = report
  /\ UNCHANGED <<mode, candidate, world, job, before, contexts, taken, foreign, layoutGate, observed,
                 command, published, todo, upsets>>

(* The context is not looked at again: it is the capture's, not the        *)
(* verifying machine's.                                                    *)
Reobserve ==
  /\ pc = "reobserve"
  /\ IF \E what \in {"baseline", "candidate", "tool"} : observed[what] # world[what]
     THEN Fail("failed")
     ELSE IF command = "materialize" THEN pc' = "bind" /\ report' = report
     ELSE Fail(IF Diagnostic THEN "diagnostic_complete" ELSE "passed")
  /\ UNCHANGED <<mode, candidate, world, job, before, contexts, taken, foreign, layoutGate, observed,
                 command, limits, published, todo, upsets>>

(* The end of qualify-baseline: both phases of the baseline repeat. *)
Repeats ==
  /\ pc = "repeats"
  /\ IF ~(unchanged /\ world.context = 0) THEN Fail("failed")
     ELSE IF \E p \in ProfileNumbers : Drifted("A1", "A2", p) THEN Fail("refused")
     ELSE Fail("passed")
  /\ UNCHANGED <<mode, candidate, world, job, before, contexts, taken, foreign, layoutGate, observed,
                 command, limits, published, todo, upsets>>

-----------------------------------------------------------------------------
(* materialize: verify, bind every byte, then publish.                     *)

(* No command runs, and the manifest of a passed capture is there to be    *)
(* published, for the first time or again.                                 *)
Publishable ==
  /\ pc = "over" /\ mode = "capture"
  /\ report \in IF command = "capture" THEN {"passed"} ELSE {"passed", "reported", "unreported"}

Materialize ==
  /\ Publishable
  /\ command' = "materialize" /\ pc' = "observe" /\ report' = "none"
  /\ UNCHANGED <<mode, candidate, world, job, before, contexts, taken, foreign, layoutGate, observed,
                 limits, published, todo, upsets>>

Order ==
  [i \in 1..(2 * Len(Profiles)) |->
     <<IF i % 2 = 1 THEN "inputs" ELSE "current", (i + 1) \div 2>>]

Bind ==
  /\ pc = "bind"
  /\ IF \E p \in ProfileNumbers : {<<JobAt("A1", p), "summary">>, <<JobAt("B2", p), "summary">>}
                                    \cap foreign # {}
     THEN Fail("failed") /\ todo' = todo
     ELSE pc' = "publish" /\ todo' = Order \o <<<<"env">>, <<"evidence">>>> /\ report' = report
  /\ UNCHANGED <<mode, candidate, world, job, before, contexts, taken, foreign, layoutGate, observed,
                 command, limits, published, upsets>>

Write(target, value) ==
  published' = CASE target = <<"env">> -> [published EXCEPT !.env = value]
                 [] target = <<"evidence">> -> [published EXCEPT !.evidence = value]
                 [] OTHER -> [published EXCEPT !.files[target] = value]

(* One file is written, or its write fails and the command ends: the file  *)
(* could not be opened, or was truncated already.                          *)
Publish ==
  /\ pc = "publish" /\ todo # <<>>
  /\ \/ /\ Write(todo[1], "new")
        /\ todo' = Tail(todo)
        /\ IF todo' = <<>> THEN Fail("passed") ELSE pc' = pc /\ report' = report
        /\ upsets' = upsets
     \/ /\ upsets < MaxUpsets + MaxFailures /\ upsets' = upsets + 1
        /\ UNCHANGED published \/ Write(todo[1], "torn")
        /\ Fail("failed") /\ UNCHANGED todo
  /\ UNCHANGED <<mode, candidate, world, job, before, contexts, taken, foreign, layoutGate, observed,
                 command, limits>>

(* Mutant: a failed command leaves the journal of the last one. *)
ReportFailureKept ==
  /\ pc = "over" /\ command = "materialize" /\ report \in {"failed", "refused"}
  /\ report' = "reported"
  /\ UNCHANGED <<mode, candidate, world, pc, job, before, contexts, taken, foreign, layoutGate,
                 observed, command, limits, published, todo, upsets>>

(* cli: a materialization that failed replaces the journal by its failure, *)
(* with a write of the same file, which may fail as well.                  *)
ReportFailure ==
  /\ pc = "over" /\ command = "materialize" /\ report \in {"failed", "refused"}
  /\ \/ /\ published' = [published EXCEPT !.evidence = "failed"]
        /\ report' = "reported" /\ upsets' = upsets
     \/ /\ upsets < MaxUpsets + MaxFailures /\ upsets' = upsets + 1
        /\ UNCHANGED published \/ published' = [published EXCEPT !.evidence = "torn"]
        /\ report' = "unreported"
  /\ UNCHANGED <<mode, candidate, world, pc, job, before, contexts, taken, foreign, layoutGate,
                 observed, command, limits, todo>>

-----------------------------------------------------------------------------
(* The machine and the repository under the campaign.                      *)

Change(what) ==
  /\ pc # "over" /\ upsets < MaxUpsets /\ world[what] = 0
  /\ world' = [world EXCEPT ![what] = 1] /\ upsets' = upsets + 1
  /\ UNCHANGED <<mode, candidate, pc, job, before, contexts, taken, foreign, layoutGate, observed,
                 command, report, limits, published, todo>>

(* Somebody overwrites a member that exists already. *)
Overwrite ==
  /\ pc # "over" \/ Publishable
  /\ upsets < MaxUpsets
  /\ \E m \in {<<k, what>> : k \in {j \in DOMAIN ran : j < job}, what \in {"samples", "summary"}}
               \cup (IF Diagnostic /\ job > 1 THEN {<<0, "journal">>} ELSE {})
               \cup (IF pc \in {"observe", "verify", "reobserve", "bind", "over"} /\ ~Qualifying
                     THEN {<<0, "manifest">>, <<0, "layout">>, <<0, "slices">>} ELSE {}) :
       m \notin foreign /\ foreign' = foreign \cup {m}
  /\ upsets' = upsets + 1
  /\ UNCHANGED <<mode, candidate, world, pc, job, before, contexts, taken, layoutGate, observed,
                 command, report, limits, published, todo>>

Over == /\ pc = "over" /\ UNCHANGED vars

Next == \/ Open \/ RunWorkers \/ Close \/ After \/ Judge \/ LayoutOpen \/ Layout \/ Seal
        \/ Observe \/ Verify \/ Reobserve \/ Repeats
        \/ Materialize \/ Bind \/ Publish \/ ReportFailure
        \/ \E what \in {"context", "baseline", "candidate", "tool"} : Change(what)
        \/ Overwrite \/ Over

Spec == Init /\ [][Next]_vars

-----------------------------------------------------------------------------
(* Properties.                                                             *)

Approved == \/ report = "passed" /\ command = "capture"
            \/ report = "diagnostic_complete" /\ limits
            \/ pc \in {"bind", "publish"}

Level(phase, p) == ran[JobAt(phase, p)].level
StageJobs == {k \in DOMAIN ran : ~Calibrating(Jobs(mode)[k].phase)}
Near(a, b, percent) == 100 * Abs(a - b) <= percent * Max({a, b})

(* An approved campaign (release::verify, qualify) measured what it claims:*)
(* every phase ran in one resource context and every worker on the recorded*)
(* sources, with buffers that lay alike; no phase's distribution was wide; *)
(* each codec repeated itself within 5%; and in no pairing of phases is the*)
(* candidate more than 12% slower than the baseline.                       *)
ApprovedMeansMeasured ==
  Approved =>
    /\ \A k \in DOMAIN ran : ran[k].level > 0 /\ ran[k].source = 0
    /\ \A k, l \in StageJobs : ran[k].context = ran[l].context
    /\ \A k, l \in DOMAIN ran :
         /\ Jobs(mode)[k].p = Jobs(mode)[l].p /\ ProfileAt(Jobs(mode)[k].p) # "hotspot"
         => ran[k].home = ran[l].home
    /\ \A k \in StageJobs : ~ran[k].wide
    /\ \A p \in ProfileNumbers : Near(Level("A1", p), Level("A2", p), 5)
    /\ ~Qualifying =>
         \A p \in ProfileNumbers :
           /\ Near(Level("B1", p), Level("B2", p), 5)
           /\ \A a \in {"A1", "A2"}, b \in {"B1", "B2"} :
                Level(b, p) > Level(a, p) => Near(Level(a, p), Level(b, p), 12)

(* A command that fails or refuses has a cause outside its own bookkeeping:*)
(* an upset, or a candidate that really is slower; calibrating the two     *)
(* codecs to different counts is not one (the campaign replays its own     *)
(* manifest before it reports).                                            *)
RefusalHasCause ==
  report \in {"failed", "refused"} =>
    upsets > 0 \/ (~Qualifying /\ candidate > 100 /\ ~Near(100, candidate, 12))

(* When no command is running, a success journal speaks for every published*)
(* input: all of them, and the environment file, come from its manifest    *)
(* (materialize_verified, cli).  A command that failed still runs until it *)
(* has reported that.  The one exception is a command that could not even  *)
(* write its failure report: it exits with that error, but what its        *)
(* publication has left may stand beside the journal of an earlier one.    *)
PublishedTogether ==
  pc = "over" /\ report \notin {"failed", "refused", "unreported"} =>
    \/ published.evidence = "failed"
    \/ /\ published.env = published.evidence
       /\ \A t \in Targets : published.files[t] = published.evidence
=============================================================================
