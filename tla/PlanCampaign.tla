---------------------------- MODULE PlanCampaign ----------------------------
(***************************************************************************)
(* The functional benchmark campaign of the tools (xtask plan_bench): two  *)
(* frozen capsules (a manifest, a source archive and a benchmark binary,   *)
(* each bound by a SHA-256 pin) are installed into four stage directories, *)
(* the four workers A1, B1, B2, A2 run one after the other inside one      *)
(* monotonic window, every stage leaves a receipt and a link of a digest   *)
(* chain, and the campaign is judged by replaying what is on disk.         *)
(*                                                                         *)
(* While it runs somebody else may overwrite any file (a rebuild, a full   *)
(* disk, a second campaign), and the controller may crash between any two  *)
(* steps.  Bytes are abstracted to their owner: a file is absent, holds    *)
(* the controller's (or the worker's) own bytes, or holds foreign ones.    *)
(* A digest tells own from foreign bytes; foreign bytes are never          *)
(* well-formed evidence.  A file's own bytes are those the plan pins for   *)
(* its place: which of the two capsules a stage is given and pinned to     *)
(* (Plan::pin, and the choice in capture's loop) is taken as right and not *)
(* told apart.                                                             *)
(***************************************************************************)
EXTENDS Naturals, Sequences, SequencesExt

CONSTANTS Capsule,       \* the members of a frozen capsule, in reading order
          Stages,        \* the stages' directories (the code: A1, B1, B2, A2)
          StageBudget, WindowBudget, GapBudget,   \* the plan's three budgets
          MaxClock,      \* bound on the monotonic clock
          MaxForeign     \* bound on foreign writes

ASSUME BudgetAssumption ==
  /\ StageBudget \in Nat \ {0} /\ WindowBudget \in Nat \ {0}
  /\ GapBudget \in Nat \ {0} /\ StageBudget <= WindowBudget
  /\ MaxClock \in Nat /\ MaxForeign \in Nat

ASSUME CapsuleAssumption ==
  /\ Capsule \in Seq(STRING) /\ "binary" \in ToSet(Capsule) /\ "manifest" \in ToSet(Capsule)

ASSUME StagesAssumption == Stages \in Seq(STRING) /\ Stages # <<>>

STAGES == 1..Len(Stages)
Dir(i) == Stages[i]

Sources == {<<d, m>> : d \in {"A", "B"}, m \in ToSet(Capsule)}
StageFiles == {<<Dir(i), m>> : i \in STAGES,
                 m \in ToSet(Capsule) \cup {"start", "stdout", "stderr", "receipt", "end"}}
Names == Sources \cup StageFiles \cup {<<"plan">>, <<"campaign">>}

(* The members that are decoded, and not only hashed, when they are read.  *)
Decoded == {n \in Names : Last(n) \in {"manifest", "start", "receipt", "end", "plan", "campaign"}}

VARIABLES
  disk,        \* what every file holds
  foreign,     \* foreign writes so far
  compatible,  \* the two manifests agree on compiler, features and catalog
  pc, stage,   \* the controller's place and the stage it is in
  snap,        \* the snapshot being read or re-read
  kept,        \* the members a snapshot keeps across the worker's run
  clock,       \* monotonic time since the window opened
  docs,        \* what the journal entries of the stages say
  ended,       \* the receipt's ended_ns
  failure,     \* the receipt names a failure
  verdict,     \* what the capture, and then a replay, answered
  ran,         \* what the worker of a stage really was, and when it ran
  whole        \* all evidence was right at once when its re-reading began

vars == <<disk, foreign, compatible, pc, stage, snap, kept, clock, docs, ended,
          failure, verdict, ran, whole>>

truth == <<ran, whole>>

files == <<disk, foreign, compatible>>
journal == <<docs, ended, failure>>

Idle == [phase |-> "idle", left |-> <<>>, held |-> <<>>, then |-> "", fail |-> ""]
NotRun == [binary |-> "none", outcome |-> "none", complete |-> FALSE, from |-> 0, to |-> 0]

Init ==
  /\ disk = [n \in Names |-> IF n \in Sources THEN "own" ELSE "absent"]
  /\ foreign = 0 /\ compatible \in BOOLEAN
  /\ pc = "load" /\ stage = 1 /\ snap = Idle /\ kept = <<>> /\ clock = 0
  /\ docs = <<>> /\ ended = 0 /\ failure = FALSE
  /\ verdict = [capture |-> "none", replay |-> "none"]
  /\ ran = [i \in STAGES |-> NotRun] /\ whole = FALSE

-----------------------------------------------------------------------------
(* The rest of the world. *)

Finished == pc = "done" /\ (verdict.replay # "none" \/ disk[<<"campaign">>] = "absent")

ForeignWrite(n) ==
  /\ foreign < MaxForeign /\ disk[n] = "own" /\ ~Finished
  /\ disk' = [disk EXCEPT ![n] = "foreign"]
  /\ foreign' = foreign + 1
  /\ UNCHANGED <<compatible, pc, stage, snap, kept, clock, journal, verdict, truth>>

(* Time matters where the controller reads the clock: between two stages,  *)
(* while the worker runs and while the stage is wound up.                  *)
Tick ==
  /\ pc \in {"admit", "work", "stageend", "finish"} /\ clock < MaxClock
  /\ clock' = clock + 1
  /\ UNCHANGED <<files, pc, stage, snap, kept, journal, verdict, truth>>

(* Nothing is published before the campaign's receipt is saved; a crash    *)
(* later than that leaves files that somebody may still replay.            *)
Crash ==
  /\ pc \notin {"done", "crashed"} /\ verdict.capture = "none"
  /\ disk[<<"campaign">>] # "absent"
  /\ pc' = "crashed" /\ snap' = Idle /\ kept' = <<>>
  /\ verdict' = [verdict EXCEPT !.capture = "lost"]
  /\ UNCHANGED <<files, stage, clock, journal, truth>>

-----------------------------------------------------------------------------
(* Snapshot: every member is read once and its digest compared with the    *)
(* expected one; at the end all of them are read again.                    *)

Members(prefix, pins) == [k \in 1..Len(Capsule) |-> <<<<prefix, Capsule[k]>>, pins>>]

ReadAll(list, then, fail) ==
  snap' = [phase |-> "read", left |-> list, held |-> <<>>, then |-> then, fail |-> fail]

(* finish: the members held are read once more. *)
ReadAgain(list, then, fail) ==
  snap' = [phase |-> "recheck", left |-> list, held |-> <<>>, then |-> then, fail |-> fail]

Bound(n, pin) == disk[n] = pin /\ (n \in Decoded => disk[n] = "own")

bind ==
  /\ snap.phase = "read"
  /\ LET e == Head(snap.left) IN
       IF Bound(e[1], e[2])
         THEN IF Len(snap.left) > 1
                THEN /\ snap' = [snap EXCEPT !.left = Tail(@), !.held = Append(@, e)]
                     /\ UNCHANGED <<pc, kept>>
                ELSE pc' = snap.then /\ kept' = Append(snap.held, e) /\ snap' = Idle
         ELSE pc' = snap.fail /\ snap' = Idle /\ UNCHANGED kept
  /\ UNCHANGED <<files, stage, clock, journal, verdict, truth>>

unchanged ==
  /\ snap.phase = "recheck"
  /\ LET e == Head(snap.left) IN
       IF disk[e[1]] = e[2]
         THEN IF Len(snap.left) > 1
                THEN snap' = [snap EXCEPT !.left = Tail(@)] /\ UNCHANGED pc
                ELSE pc' = snap.then /\ snap' = Idle
         ELSE pc' = snap.fail /\ snap' = Idle
  /\ kept' = <<>>
  /\ UNCHANGED <<files, stage, clock, journal, verdict, truth>>

At(label) == pc = label /\ snap.phase = "idle"

-----------------------------------------------------------------------------
(* campaign::capture, before the window opens. *)

load ==
  /\ At("load")
  /\ ReadAll(Members("A", "own") \o Members("B", "own"), "install", "error")
  /\ UNCHANGED <<files, pc, stage, kept, clock, journal, verdict, truth>>

(* The stages are written from the bytes held in memory; the sources are   *)
(* then read again.  Incompatible manifests end the capture.               *)
install ==
  /\ At("install")
  /\ IF compatible
       THEN /\ disk' = [n \in Names |-> IF n \in {<<Dir(i), m>> : i \in STAGES, m \in ToSet(Capsule)}
                                          THEN "own" ELSE disk[n]]
            /\ ReadAgain(kept, "plan", "error") /\ UNCHANGED pc
       ELSE pc' = "error" /\ UNCHANGED <<disk, snap>>
  /\ UNCHANGED <<foreign, compatible, stage, kept, clock, journal, verdict, truth>>

savePlan ==
  /\ At("plan")
  /\ disk' = [disk EXCEPT ![<<"plan">>] = "own"]
  /\ pc' = "admit"
  /\ UNCHANGED <<foreign, compatible, stage, snap, kept, clock, journal, verdict, truth>>

-----------------------------------------------------------------------------
(* One stage. *)

previousEnd == IF docs = <<>> THEN 0 ELSE docs[Len(docs)].ended

\* Mutant: the stage's own budget is left to the worker's deadline.
intervalUnstaged(start, end, previous) ==
  /\ previous <= start /\ start <= end
  /\ end <= WindowBudget
  /\ start - previous <= GapBudget

interval(start, end, previous) ==
  /\ previous <= start /\ start <= end
  /\ end <= WindowBudget
  /\ start - previous <= GapBudget
  /\ end - start <= StageBudget

NewDoc(t) == [started |-> t, ended |-> t, outcome |-> "none", complete |-> FALSE,
              stdout |-> "absent", stderr |-> "absent", unchanged |-> FALSE,
              receipt |-> "absent", captured |-> FALSE, accepted |-> FALSE]

Record(f, v) == docs' = [docs EXCEPT ![Len(docs)] = [@ EXCEPT ![f] = v]]

(* The deadline and the gap are checked, the start is journalled, and the  *)
(* installed capsule is read before its binary runs (load_verified).       *)
admit ==
  /\ At("admit")
  /\ \/ /\ ~interval(clock, clock, previousEnd)
        /\ failure' = TRUE /\ pc' = "finish"
        /\ UNCHANGED <<disk, docs, snap>>
     \/ /\ interval(clock, clock, previousEnd)
        /\ docs' = Append(docs, NewDoc(clock))
        /\ disk' = [disk EXCEPT ![<<Dir(stage), "start">>] = "own"]
        /\ ReadAll(Members(Dir(stage), "own"), "spawn", "captureerror")
        /\ UNCHANGED <<failure, pc>>
  /\ UNCHANGED <<foreign, compatible, stage, kept, clock, ended, verdict, truth>>

(* The worker is the binary the file holds at that moment. *)
spawn ==
  /\ At("spawn")
  /\ ran' = [ran EXCEPT ![stage].binary = disk[<<Dir(stage), "binary">>], ![stage].from = clock]
  /\ disk' = [disk EXCEPT ![<<Dir(stage), "stdout">>] = "own", ![<<Dir(stage), "stderr">>] = "own"]
  /\ pc' = "work"
  /\ UNCHANGED <<foreign, compatible, stage, snap, kept, clock, journal, verdict, whole>>

Deadline == docs[Len(docs)].started
            + (IF WindowBudget - docs[Len(docs)].started < StageBudget
                 THEN WindowBudget - docs[Len(docs)].started ELSE StageBudget)

\* Mutant: the supervisor waits for the worker without a deadline.
executeUnbounded(outcome, complete) ==
  /\ At("work")
  /\ outcome # "timeout"
  /\ ran' = [ran EXCEPT ![stage].outcome = outcome, ![stage].complete = complete,
                        ![stage].to = clock]
  /\ docs' = [docs EXCEPT ![Len(docs)].outcome = outcome,
                          ![Len(docs)].complete = complete]
  /\ pc' = "logs"
  /\ UNCHANGED <<files, stage, snap, kept, clock, ended, failure, verdict, whole>>

(* run::execute: the worker exits, with every case of the catalog reported *)
(* successful or not, fails in one of the other ways, or reaches the       *)
(* deadline.  The supervisor itself is module OwnedProcess.                *)
execute(outcome, complete) ==
  /\ At("work")
  /\ outcome = "timeout" <=> clock >= Deadline
  /\ ran' = [ran EXCEPT ![stage].outcome = outcome, ![stage].complete = complete,
                        ![stage].to = clock]
  /\ docs' = [docs EXCEPT ![Len(docs)].outcome = outcome,
                          ![Len(docs)].complete = complete]
  /\ pc' = "logs"
  /\ UNCHANGED <<files, stage, snap, kept, clock, ended, failure, verdict, whole>>

(* The logs are hashed as they are found, one after the other, and refused *)
(* when they outgrow a member; then the capsule is read again.             *)
boundedLog(f, then) ==
  /\ At(IF f = "stdout" THEN "logs" ELSE "logs2")
  /\ \/ pc' = "captureerror" /\ UNCHANGED <<docs, snap>>
     \/ /\ Record(f, disk[<<Dir(stage), f>>])
        /\ IF then = "" THEN pc' = "logs2" /\ UNCHANGED snap
                        ELSE ReadAgain(kept, then, "changed") /\ UNCHANGED pc
  /\ UNCHANGED <<files, stage, kept, clock, ended, failure, verdict, truth>>

writeReceipt ==
  /\ pc \in {"same", "changed"} /\ snap.phase = "idle"
  /\ Record("unchanged", pc = "same")
  /\ disk' = [disk EXCEPT ![<<Dir(stage), "receipt">>] = "own"]
  /\ pc' = "pin"
  /\ UNCHANGED <<foreign, compatible, stage, snap, kept, clock, ended, failure, verdict, truth>>

(* The receipt's pin is the digest of the file read back, and the stage is *)
(* verified from disk with it.                                             *)
StageMembers(i) == Members(Dir(i), "own")
  \o <<<<<<Dir(i), "receipt">>, docs[i].receipt>>,
       <<<<Dir(i), "stdout">>, docs[i].stdout>>, <<<<Dir(i), "stderr">>, docs[i].stderr>>>>

pinReceipt ==
  /\ At("pin")
  /\ Record("receipt", disk[<<Dir(stage), "receipt">>])
  /\ pc' = "check"
  /\ UNCHANGED <<files, stage, snap, kept, clock, ended, failure, verdict, truth>>

checkStage ==
  /\ At("check")
  /\ ReadAll(StageMembers(stage), "recheck", "captureerror")
  /\ UNCHANGED <<files, pc, stage, kept, clock, journal, verdict, truth>>

recheckStage ==
  /\ At("recheck")
  /\ ReadAgain(kept, "checked", "captureerror")
  /\ UNCHANGED <<files, pc, stage, kept, clock, journal, verdict, truth>>

(* verify_snapshot's verdict on a stage whose members are all bound. *)
StageAccepted(d) ==
  /\ d.stdout = "own" /\ d.complete
  /\ d.outcome = "zero" /\ d.unchanged

captured ==
  /\ pc \in {"checked", "captureerror"} /\ snap.phase = "idle"
  /\ docs' = [docs EXCEPT ![Len(docs)].captured = (pc = "checked"),
                          ![Len(docs)].accepted = (pc = "checked" /\ StageAccepted(docs[Len(docs)]))]
  /\ pc' = "stageend"
  /\ UNCHANGED <<files, stage, snap, kept, clock, ended, failure, verdict, truth>>

(* The end of the stage is journalled; a refused stage ends the campaign.  *)
endStage ==
  /\ At("stageend")
  /\ LET d == docs[Len(docs)]
         passed == d.accepted /\ interval(d.started, clock,
                     IF Len(docs) = 1 THEN 0 ELSE docs[Len(docs) - 1].ended)
     IN /\ Record("ended", clock)
        /\ failure' = ~passed
        /\ IF passed /\ stage < Len(Stages) THEN stage' = stage + 1 /\ pc' = "admit"
                                  ELSE UNCHANGED stage /\ pc' = "finish"
  /\ disk' = [disk EXCEPT ![<<Dir(stage), "end">>] = "own"]
  /\ UNCHANGED <<foreign, compatible, snap, kept, clock, ended, verdict, truth>>

finish ==
  /\ At("finish")
  /\ ended' = clock
  /\ disk' = [disk EXCEPT ![<<"campaign">>] = "own"]
  /\ pc' = "verify"
  /\ UNCHANGED <<foreign, compatible, stage, snap, kept, clock, docs, failure, verdict, truth>>

-----------------------------------------------------------------------------
(* campaign::verify, at the end of the capture and in any later replay: one*)
(* snapshot over the plan, the receipt and, stage by stage, the journal and*)
(* the stage's own evidence.                                               *)

LinkMembers(i) ==
  <<<<<<Dir(i), "start">>, "own">>, <<<<Dir(i), "end">>, "own">>>>
  \o (IF docs[i].captured THEN StageMembers(i) ELSE <<>>)

CampaignMembers == <<<<<<"plan">>, "own">>, <<<<"campaign">>, "own">>>>
                   \o FlattenSeq([i \in 1..Len(docs) |-> LinkMembers(i)])

CampaignAccepted ==
  /\ Len(docs) = Len(Stages) /\ ~failure
  /\ \A i \in STAGES :
       /\ docs[i].captured /\ StageAccepted(docs[i])
       /\ interval(docs[i].started, docs[i].ended, IF i = 1 THEN 0 ELSE docs[i - 1].ended)
  /\ previousEnd <= ended /\ ended <= WindowBudget /\ ended - previousEnd <= GapBudget

verify ==
  /\ At("verify")
  /\ ReadAll(CampaignMembers, "verifyagain", "error")
  /\ UNCHANGED <<files, pc, stage, kept, clock, journal, verdict, truth>>

AllRight(members) == \A k \in 1..Len(members) : disk[members[k][1]] = members[k][2]

\* Mutant: what was read is judged without being read again.
verifyOnce ==
  /\ At("verifyagain")
  /\ pc' = "judge" /\ whole' = AllRight(kept)
  /\ UNCHANGED <<files, stage, snap, kept, clock, journal, verdict, ran>>

verifyAgain ==
  /\ At("verifyagain")
  /\ ReadAgain(kept, "judge", "error")
  /\ whole' = AllRight(kept)
  /\ UNCHANGED <<files, pc, stage, kept, clock, journal, verdict, ran>>

Answer(v) == verdict' = IF verdict.capture = "none" THEN [verdict EXCEPT !.capture = v]
                                                    ELSE [verdict EXCEPT !.replay = v]

judge ==
  /\ At("judge")
  /\ Answer(IF CampaignAccepted THEN "accepted" ELSE "refused")
  /\ pc' = "done"
  /\ UNCHANGED <<files, stage, snap, kept, clock, journal, truth>>

error ==
  /\ At("error")
  /\ Answer("error") /\ pc' = "done"
  /\ UNCHANGED <<files, stage, snap, kept, clock, journal, truth>>

(* replay: the published pins are judged again, by anybody, later.  They   *)
(* are published as soon as the campaign's receipt is saved.               *)
replay ==
  /\ pc \in {"done", "crashed"} /\ verdict.replay = "none"
  /\ disk[<<"campaign">>] # "absent"
  /\ pc' = "verify" /\ kept' = <<>>
  /\ UNCHANGED <<files, stage, snap, clock, journal, verdict, truth>>

WorkerEnds == execute("zero", TRUE) \/ execute("zero", FALSE) \/ execute("failed", TRUE)
TimesOut == execute("timeout", FALSE)

Controller ==
  \/ bind \/ unchanged
  \/ load \/ install \/ savePlan \/ admit \/ spawn
  \/ boundedLog("stdout", "") \/ boundedLog("stderr", "same")
  \/ writeReceipt \/ pinReceipt \/ checkStage \/ recheckStage
  \/ captured \/ endStage \/ finish \/ verify \/ verifyAgain \/ judge \/ error
  \/ replay

Stopped == Finished /\ UNCHANGED vars

Next == Controller \/ WorkerEnds \/ TimesOut \/ Tick \/ Crash \/ (\E n \in Names : ForeignWrite(n)) \/ Stopped

(* The controller keeps going and time passes; the worker need not end by  *)
(* itself.                                                                 *)
Spec ==
  /\ Init /\ [][Next]_vars
  /\ WF_vars(Controller) /\ WF_vars(TimesOut) /\ WF_vars(Tick)

-----------------------------------------------------------------------------
(* An accepted campaign, now or in a replay, really was the planned one:   *)
(* each of the four workers was the pinned binary, reported every case and *)
(* ended with status zero, they ran one after the other in the order       *)
(* the plan lists, and each stayed inside its stage, the window and the    *)
(* gaps, whoever wrote to the directories meanwhile.                       *)
AcceptedRanAsPlanned ==
  "accepted" \in {verdict.capture, verdict.replay} =>
    \A i \in STAGES :
      /\ ran[i].binary = "own" /\ ran[i].outcome = "zero" /\ ran[i].complete
      /\ ran[i].from <= ran[i].to /\ docs[i].ended - ran[i].from <= StageBudget
      /\ docs[i].ended <= WindowBudget
      /\ i > 1 => ran[i - 1].to <= ran[i].from /\ docs[i].started - docs[i - 1].ended <= GapBudget

(* A verdict is passed on evidence that existed: there was a moment, after *)
(* everything was read, at which every file together held the bytes that   *)
(* are judged ("Earlier stages cannot change unnoticed during replay").    *)
JudgedAtOneMoment ==
  At("done") /\ (verdict.replay \in {"accepted", "refused"}
                 \/ (verdict.replay = "none" /\ verdict.capture \in {"accepted", "refused"})) => whole

(* A capture ends unless it is killed: a worker that never exits runs into *)
(* its deadline, and no file that is missing or replaced is waited for.    *)
CaptureEnds == <>(pc \in {"done", "crashed"})
=============================================================================
