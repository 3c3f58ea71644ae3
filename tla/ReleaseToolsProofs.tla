------------------------- MODULE ReleaseToolsProofs -------------------------
(***************************************************************************)
(* Proofs about the release tools, for any profiles, cases, paces, means   *)
(* and bounds: the inputs a campaign publishes belong together, the A-B-B-A*)
(* report permits an attribution exactly when it was earned, and a         *)
(* regression gate passes exactly what is comparable and no slower.        *)
(***************************************************************************)
EXTENDS MCReleaseTools, SequenceTheorems, FiniteSetTheorems, TLAPS

-----------------------------------------------------------------------------
(***************************************************************************)
(* What materialize publishes, and in which order.                         *)
(***************************************************************************)
Everything == Targets \cup {<<"env">>, <<"evidence">>}
Full == Order \o <<<<"env">>, <<"evidence">>>>
Versions == {"old", "new", "torn"}
Publications == [files : [Targets -> Versions], env : Versions, evidence : Versions \cup {"failed"}]

Holds(t) == IF t = <<"env">> THEN published.env
            ELSE IF t = <<"evidence">> THEN published.evidence ELSE published.files[t]

LEMMA TargetsDiffer ==
  /\ <<"env">> # <<"evidence">>
  /\ \A t \in Targets : t # <<"env">> /\ t # <<"evidence">>
<1>1. <<"env">> # <<"evidence">>
  <2>1. <<"env">>[1] # <<"evidence">>[1]
    OBVIOUS
  <2> QED BY <2>1
<1>2. ASSUME NEW t \in Targets PROVE t # <<"env">> /\ t # <<"evidence">>
  <2>1. PICK d \in {"inputs", "current"}, p \in ProfileNumbers : t = <<d, p>>
    BY DEF Targets
  <2>2. t[1] \in {"inputs", "current"}
    BY <2>1
  <2>3. <<"env">>[1] = "env" /\ <<"evidence">>[1] = "evidence"
    OBVIOUS
  <2> QED BY <2>2, <2>3
<1> QED BY <1>1, <1>2

LEMMA ProfilesCounted == Len(Profiles) \in Nat /\ ProfileNumbers = 1 .. Len(Profiles)
BY CampaignAssumption, LenProperties DEF ProfileNumbers

(* Every target comes before the environment file, and that before the     *)
(* journal.                                                                *)
LEMMA FullOrder ==
  /\ Full \in Seq(Everything)
  /\ Len(Full) = 2 * Len(Profiles) + 2
  /\ \A t \in Everything : \E i \in 1 .. Len(Full) : Full[i] = t
<1> DEFINE n == 2 * Len(Profiles)
           last == <<<<"env">>, <<"evidence">>>>
<1>1. n \in Nat /\ Len(Profiles) \in Nat /\ ProfileNumbers = 1 .. Len(Profiles)
  BY ProfilesCounted
<1>2. Order \in Seq(Everything)
  <2>1. ASSUME NEW i \in 1 .. n PROVE (i + 1) \div 2 \in 1 .. Len(Profiles)
    BY <1>1
  <2>2. ASSUME NEW i \in 1 .. n PROVE Order[i] \in Everything
    BY <1>1, <2>1 DEF Order, Everything, Targets
  <2>3. Order = [i \in 1 .. n |-> Order[i]]
    BY DEF Order
  <2> HIDE DEF n
  <2> QED BY <1>1, <2>2, <2>3
<1>3. Len(Order) = n /\ DOMAIN Order = 1 .. n
  BY <1>1, <1>2, LenProperties DEF Order
<1>4. last \in Seq(Everything) /\ Len(last) = 2 /\ last[1] = <<"env">> /\ last[2] = <<"evidence">>
  BY DEF Everything
<1>5. Full = Order \o last
  BY DEF Full
<1>6. Full \in Seq(Everything) /\ Len(Full) = n + 2
  <2> HIDE DEF last, n
  <2>1. Order \o last \in Seq(Everything) /\ Len(Order \o last) = Len(Order) + Len(last)
    BY <1>2, <1>4, ConcatProperties, Zenon
  <2> QED BY <1>3, <1>4, <1>5, <2>1
<1>7. /\ \A i \in 1 .. n : Full[i] = Order[i]
      /\ Full[n + 1] = <<"env">> /\ Full[n + 2] = <<"evidence">>
  <2> HIDE DEF last, n
  <2>1. \A i \in 1 .. Len(Order) + Len(last) : (Order \o last)[i] =
          IF i <= Len(Order) THEN Order[i] ELSE last[i - Len(Order)]
    BY <1>2, <1>4, ConcatProperties, Zenon
  <2>2. \A i \in 1 .. n + 2 : Full[i] = IF i <= n THEN Order[i] ELSE last[i - n]
    BY <1>3, <1>4, <1>5, <2>1
  <2>3. Full[n + 1] = last[1] /\ Full[n + 2] = last[2]
    BY <1>1, <2>2
  <2>4. \A i \in 1 .. n : Full[i] = Order[i]
    BY <1>1, <2>2
  <2> QED BY <1>4, <2>3, <2>4
<1>8. ASSUME NEW d \in {"inputs", "current"}, NEW p \in ProfileNumbers
      PROVE \E i \in 1 .. n : Full[i] = <<d, p>>
  <2>1. p \in 1 .. Len(Profiles)
    BY <1>1
  <2>2. CASE d = "inputs"
    <3>1. 2 * p - 1 \in 1 .. n /\ (2 * p - 1) % 2 = 1 /\ ((2 * p - 1) + 1) \div 2 = p
      BY <1>1, <2>1
    <3>2. Order[2 * p - 1] = <<"inputs", p>>
      BY <3>1 DEF Order
    <3> QED BY <1>7, <2>2, <3>1, <3>2
  <2>3. CASE d = "current"
    <3>1. 2 * p \in 1 .. n /\ (2 * p) % 2 # 1 /\ (2 * p + 1) \div 2 = p
      BY <1>1, <2>1
    <3>2. Order[2 * p] = <<"current", p>>
      BY <3>1 DEF Order
    <3> QED BY <1>7, <2>3, <3>1, <3>2
  <2> QED BY <2>2, <2>3
<1>9. ASSUME NEW t \in Everything PROVE \E i \in 1 .. n + 2 : Full[i] = t
  <2>1. CASE t \in Targets
    <3>1. PICK d \in {"inputs", "current"}, p \in ProfileNumbers : t = <<d, p>>
      BY <2>1 DEF Targets
    <3>2. PICK i \in 1 .. n : Full[i] = <<d, p>>
      BY <1>8
    <3> HIDE DEF n
    <3> QED BY <1>1, <3>1, <3>2
  <2>2. CASE t = <<"env">> \/ t = <<"evidence">>
    <3> HIDE DEF n
    <3>1. n + 1 \in 1 .. n + 2 /\ n + 2 \in 1 .. n + 2
      BY <1>1
    <3> QED BY <1>7, <2>2, <3>1
  <2> QED BY <2>1, <2>2 DEF Everything
<1> QED BY <1>6, <1>9

-----------------------------------------------------------------------------
(***************************************************************************)
(* The campaign's publication.                                             *)
(***************************************************************************)
AllHold(version) == \A t \in Everything : Holds(t) = version

(* Nothing is published before materialize; while it publishes, whatever is*)
(* not yet new is still to be written; once it is over it failed, reported *)
(* its failure or could not, or has written everything.                    *)
PublishInv ==
  /\ published \in Publications /\ command \in {"capture", "materialize"}
  /\ command = "capture" => AllHold("old") /\ pc \notin {"bind", "publish"}
  /\ command = "materialize" =>
       /\ pc \in {"observe", "verify", "reobserve", "bind", "publish", "over"}
       /\ pc = "over" => \/ report \in {"failed", "refused"}
                         \/ report = "reported" /\ published.evidence = "failed"
                         \/ report = "unreported"
                         \/ report = "passed" /\ AllHold("new")
  /\ pc = "publish" => /\ todo \in Seq(Everything)
                       /\ \A t \in Everything : Holds(t) = "new" \/ \E i \in 1 .. Len(todo) : todo[i] = t

LEMMA PublishInit == Init => PublishInv
<1> SUFFICES ASSUME Init PROVE PublishInv
  OBVIOUS
<1>1. published = [files |-> [t \in Targets |-> "old"], env |-> "old", evidence |-> "old"]
  BY DEF Init
<1>2. published \in Publications
  BY <1>1 DEF Publications, Versions
<1>3. AllHold("old")
  BY <1>1 DEF AllHold, Holds, Everything
<1> QED BY <1>2, <1>3 DEF Init, PublishInv

(* A step that leaves the publication alone keeps the invariant when its   *)
(* place and its report do.                                                *)
LEMMA PublicationKept ==
  ASSUME PublishInv, UNCHANGED <<published, command, todo>>,
         command = "capture" => pc' \notin {"bind", "publish"},
         command = "materialize" => pc' \in {"observe", "verify", "reobserve", "bind", "over"},
         command = "materialize" /\ pc' = "over" => report' \in {"failed", "refused"}
  PROVE  PublishInv'
<1>1. \A t : Holds(t)' = Holds(t)
  BY DEF Holds
<1>2. AllHold("old")' = AllHold("old")
  BY <1>1 DEF AllHold, Everything
<1> QED BY <1>2 DEF PublishInv

(* The controller's steps before it publishes. *)
LEMMA CaptureKeeps ==
  ASSUME PublishInv,
         Open \/ RunWorkers \/ Close \/ After \/ Judge \/ LayoutOpen \/ Layout \/ Seal \/ Repeats
  PROVE  PublishInv'
<1>1. pc \in {"open", "run", "close", "after", "judge", "layout", "slices", "seal", "repeats"}
  BY DEF Open, RunWorkers, Close, After, Judge, LayoutOpen, Layout, Seal, Repeats
<1>2. command = "capture"
  BY <1>1 DEF PublishInv
<1>3. UNCHANGED <<published, command, todo>>
  BY DEF Open, RunWorkers, Close, After, Judge, LayoutOpen, Layout, Seal, Repeats
<1>4. pc' \notin {"bind", "publish"}
  <2>1. CASE Open
    BY <2>1 DEF Open
  <2>2. CASE RunWorkers
    BY <2>2 DEF RunWorkers, Fail
  <2>3. CASE Close
    <3>1. pc' \in {"over", "open", "repeats", "after"}
      BY <2>3 DEF Close, Fail
    <3> QED BY <3>1
  <2>4. CASE After \/ Judge \/ LayoutOpen \/ Layout \/ Seal \/ Repeats
    BY <2>4 DEF After, Judge, LayoutOpen, Layout, Seal, Repeats, Fail
  <2> QED BY <2>1, <2>2, <2>3, <2>4
<1> QED BY <1>2, <1>3, <1>4, PublicationKept

LEMMA VerifyKeeps == ASSUME PublishInv, Observe \/ Verify \/ Reobserve PROVE PublishInv'
<1>1. UNCHANGED <<published, command, todo>>
  BY DEF Observe, Verify, Reobserve
<1>2. CASE Observe
  <2>1. (pc' = "over" /\ report' = "failed") \/ pc' = "verify"
    BY <1>2 DEF Observe, Fail
  <2> QED BY <1>1, <2>1, PublicationKept
<1>3. CASE Verify
  <2>1. Judgement(observed) \in {"failed", "refused", "verified"}
    BY DEF Judgement
  <2>2. (pc' = "over" /\ report' \in {"failed", "refused"}) \/ pc' = "reobserve"
    BY <1>3, <2>1 DEF Verify, Fail
  <2> QED BY <1>1, <2>2, PublicationKept
<1>4. CASE Reobserve
  <2>1. \/ pc' = "over" /\ report' = "failed"
        \/ command = "materialize" /\ pc' = "bind"
        \/ command # "materialize" /\ pc' = "over"
    BY <1>4 DEF Reobserve, Fail
  <2> QED BY <1>1, <2>1, PublicationKept
<1> QED BY <1>2, <1>3, <1>4

LEMMA MaterializeKeeps == ASSUME PublishInv, Materialize PROVE PublishInv'
<1>1. \A t : Holds(t)' = Holds(t)
  BY DEF Holds, Materialize
<1> QED BY DEF PublishInv, Materialize, Publishable

LEMMA BindKeeps == ASSUME PublishInv, Bind PROVE PublishInv'
<1>1. command = "materialize" /\ UNCHANGED <<published, command>>
  BY DEF PublishInv, Bind
<1>2. CASE pc' = "over" /\ report' = "failed"
  BY <1>1, <1>2 DEF PublishInv, Bind
<1>3. CASE pc' = "publish" /\ todo' = Full
  <2>1. \A t \in Everything : \E i \in 1 .. Len(todo') : todo'[i] = t
    BY <1>3, FullOrder
  <2> QED BY <1>1, <1>3, <2>1, FullOrder DEF PublishInv, Everything
<1> QED BY <1>2, <1>3 DEF Bind, Fail, Full

(* A write sets its target and leaves the others.                          *)
LEMMA WriteSets ==
  ASSUME published \in Publications, NEW target \in Everything, NEW value \in Versions,
         Write(target, value)
  PROVE  /\ published' \in Publications
         /\ \A t \in Everything : Holds(t)' = IF t = target THEN value ELSE Holds(t)
<1>1. CASE target = <<"env">>
  <2>1. published' = [published EXCEPT !.env = value]
    BY <1>1 DEF Write
  <2> QED BY <1>1, <2>1, TargetsDiffer DEF Publications, Holds, Everything
<1>2. CASE target = <<"evidence">>
  <2>1. published' = [published EXCEPT !.evidence = value]
    BY <1>2, TargetsDiffer DEF Write
  <2> QED BY <1>2, <2>1, TargetsDiffer DEF Publications, Holds, Everything
<1>3. CASE target \in Targets
  <2>1. published' = [published EXCEPT !.files[target] = value]
    BY <1>3, TargetsDiffer DEF Write
  <2> QED BY <1>3, <2>1, TargetsDiffer DEF Publications, Holds, Everything
<1> QED BY <1>1, <1>2, <1>3 DEF Everything

LEMMA PublishKeeps == ASSUME PublishInv, Publish PROVE PublishInv'
<1>1. /\ pc = "publish" /\ command = "materialize" /\ command' = command /\ todo # <<>>
      /\ todo \in Seq(Everything) /\ published \in Publications
  BY DEF PublishInv, Publish
<1>2. CASE (UNCHANGED published \/ Write(todo[1], "torn")) /\ Fail("failed")
  <2>1. todo[1] \in Everything
    BY <1>1, EmptySeq, LenProperties
  <2>2. published' \in Publications
    BY <1>1, <1>2, <2>1, WriteSets DEF Versions
  <2> QED BY <1>1, <1>2, <2>2 DEF PublishInv, Fail
<1>3. CASE /\ Write(todo[1], "new") /\ todo' = Tail(todo)
           /\ IF todo' = <<>> THEN Fail("passed") ELSE pc' = pc /\ report' = report
  <2>1. todo[1] \in Everything /\ Len(todo) \in Nat \ {0}
    BY <1>1, EmptySeq, LenProperties
  <2>2. /\ published' \in Publications
        /\ \A t \in Everything : Holds(t)' = IF t = todo[1] THEN "new" ELSE Holds(t)
    BY <1>1, <1>3, <2>1, WriteSets DEF Versions
  <2>3. /\ todo' \in Seq(Everything) /\ Len(todo') = Len(todo) - 1
        /\ \A i \in 1 .. Len(todo') : todo'[i] = todo[i + 1]
    BY <1>1, <1>3, HeadTailProperties
  <2>4. ASSUME NEW t \in Everything
        PROVE  Holds(t)' = "new" \/ \E i \in 1 .. Len(todo') : todo'[i] = t
    <3>1. CASE Holds(t) = "new"
      BY <2>2, <3>1
    <3>2. CASE t = todo[1]
      BY <2>2, <3>2
    <3>3. ASSUME NEW i \in 1 .. Len(todo), todo[i] = t, i # 1
          PROVE  \E j \in 1 .. Len(todo') : todo'[j] = t
      <4>1. i - 1 \in 1 .. Len(todo') /\ todo'[i - 1] = todo[(i - 1) + 1] /\ (i - 1) + 1 = i
        BY <2>1, <2>3, <3>3
      <4> QED BY <3>3, <4>1
    <3> QED BY <1>1, <3>1, <3>2, <3>3 DEF PublishInv
  <2>5. CASE todo' = <<>>
    <3>1. Len(todo') = 0
      BY <2>5
    <3>2. AllHold("new")'
      BY <2>4, <3>1 DEF AllHold, Everything
    <3>3. pc' = "over" /\ report' = "passed"
      BY <1>3, <2>5 DEF Fail
    <3> QED BY <1>1, <2>2, <3>2, <3>3 DEF PublishInv
  <2>6. CASE todo' # <<>>
    <3>1. pc' = "publish"
      BY <1>1, <1>3, <2>6
    <3> QED BY <1>1, <2>2, <2>3, <2>4, <3>1 DEF PublishInv, Everything
  <2> QED BY <2>5, <2>6
<1> QED BY <1>2, <1>3 DEF Publish

LEMMA ReportFailureKeeps == ASSUME PublishInv, ReportFailure PROVE PublishInv'
<1>1. /\ pc = "over" /\ pc' = "over" /\ command = "materialize" /\ command' = command
      /\ \/ published' = [published EXCEPT !.evidence = "failed"] /\ report' = "reported"
         \/ published' = published /\ report' = "unreported"
         \/ published' = [published EXCEPT !.evidence = "torn"] /\ report' = "unreported"
  BY DEF ReportFailure
<1>2. /\ published' \in Publications
      /\ report' = "reported" => published'.evidence = "failed"
  BY <1>1 DEF PublishInv, Publications, Versions
<1> QED BY <1>1, <1>2 DEF PublishInv

(* What happens around the campaign. *)
LEMMA WorldKeeps ==
  ASSUME PublishInv, (\E what : Change(what)) \/ Overwrite \/ UNCHANGED vars
  PROVE  PublishInv'
<1>1. UNCHANGED <<published, command, todo, pc, report>>
  BY DEF Change, Overwrite, vars
<1>2. \A t : Holds(t)' = Holds(t)
  BY <1>1 DEF Holds
<1>3. \A v : AllHold(v)' = AllHold(v)
  BY <1>2 DEF AllHold, Everything
<1> QED BY <1>1, <1>2, <1>3 DEF PublishInv, Everything

LEMMA PublishInductive == PublishInv /\ [MCNext]_<<tool, vars, runVars, gateVars, abbaVars>> => PublishInv'
<1> SUFFICES ASSUME PublishInv, [MCNext]_<<tool, vars, runVars, gateVars, abbaVars>> PROVE PublishInv'
  OBVIOUS
<1>1. Next \/ UNCHANGED vars
  BY DEF MCNext
<1> QED BY <1>1, CaptureKeeps, VerifyKeeps, MaterializeKeeps, BindKeeps, PublishKeeps,
           ReportFailureKeeps, WorldKeeps DEF Next, Over

(* When no command is running, a success journal speaks for every published*)
(* input, for any number of profiles, whichever writes of any number of    *)
(* materializations failed or tore their file, unless the last one could   *)
(* not write its failure report either (materialize_verified, cli).        *)
THEOREM PublishesTogether == MCSpec => []PublishedTogether
<1>1. MCInit => PublishInv
  BY PublishInit DEF MCInit
<1>2. PublishInv => PublishedTogether
  <2> SUFFICES ASSUME PublishInv, pc = "over", report \notin {"failed", "refused", "unreported"},
                      published.evidence # "failed"
               PROVE  /\ published.env = published.evidence
                      /\ \A t \in Targets : published.files[t] = published.evidence
    BY DEF PublishedTogether
  <2>1. PICK v : AllHold(v)
    BY DEF PublishInv
  <2> QED BY <2>1, TargetsDiffer DEF AllHold, Holds, Everything
<1> QED BY <1>1, <1>2, PublishInductive, PTL DEF MCSpec

-----------------------------------------------------------------------------
(***************************************************************************)
(* The A-B-B-A report.                                                     *)
(***************************************************************************)
Commits == {"a", "b", "c"}
ForcedOrNot == {"none", "forced"}
Rows == [commit : Commits, override : ForcedOrNot, mean : Means, valid : BOOLEAN]
Campaigns == [Abba!Keys -> [Abba!Stages -> Seq(Rows)]]

(* The reports a run has written are the analysis of the campaign it read, *)
(* until somebody edits that or the next run begins.                       *)
AbbaInv ==
  /\ campaign \in Campaigns /\ present \in BOOLEAN
  /\ abbaPc \in {"idle", "json", "md", "done"}
  /\ abbaPc \in {"json", "md"} => ended = "unread"
  /\ abbaPc = "md" \/ ended \in {"md", "written"} => json = Abba!analyze
  /\ ended = "written" => md = Abba!analyze

LEMMA MeansCount == Means \subseteq Nat /\ 100 \in Means /\ Threshold \in Nat
<1>1. Abba!AbbaAssumption
  BY AbbaFits
<1> QED BY <1>1 DEF Abba!AbbaAssumption

LEMMA RowEdits ==
  ASSUME NEW r \in Rows
  PROVE  /\ \A m \in Means : [r EXCEPT !.mean = m] \in Rows
         /\ [r EXCEPT !.valid = FALSE] \in Rows
         /\ [r EXCEPT !.override = "forced"] \in Rows
         /\ [r EXCEPT !.commit = "c"] \in Rows
BY DEF Rows, Commits, ForcedOrNot

(* One case's rows of one stage are replaced. *)
LEMMA StageEdited ==
  ASSUME NEW c \in Campaigns, NEW k \in Abba!Keys, NEW s \in Abba!Stages, NEW q \in Seq(Rows)
  PROVE  [c EXCEPT ![k] = [c[k] EXCEPT ![s] = q]] \in Campaigns
BY DEF Campaigns

LEMMA FirstEdited ==
  ASSUME NEW q \in Seq(Rows), q # <<>>, NEW r \in Rows
  PROVE  [q EXCEPT ![1] = r] \in Seq(Rows) /\ q[1] \in Rows
OBVIOUS

LEMMA AbbaInit == Abba!Init => AbbaInv
<1> SUFFICES ASSUME Abba!Init PROVE AbbaInv
  OBVIOUS
<1>1. ASSUME NEW s \in Abba!Stages PROVE <<Abba!Row(s)>> \in Seq(Rows)
  <2>1. Abba!Row(s) \in Rows
    BY MeansCount DEF Abba!Row, Rows, Commits, ForcedOrNot
  <2> QED BY <2>1
<1>2. campaign \in Campaigns
  BY <1>1 DEF Abba!Init, Campaigns
<1> QED BY <1>2 DEF Abba!Init, AbbaInv

LEMMA AnalysisStays ==
  ASSUME UNCHANGED <<campaign, present>> PROVE Abba!analyze' = Abba!analyze
BY DEF Abba!analyze, Abba!CampaignErrors, Abba!ReadErrors, Abba!Grouped, Abba!Estimates,
       Abba!RowsAt, Abba!Valid, Abba!Revisions, Abba!Overrides, Abba!drift_failed, Abba!Drift,
       Abba!Mean, Abba!Keys, Abba!Stages, Abba!Pair

LEMMA EditKeeps == ASSUME AbbaInv, Abba!Edit PROVE AbbaInv'
<1>1. /\ campaign \in Campaigns /\ present \in BOOLEAN /\ abbaPc = "idle" /\ abbaPc' = "idle"
      /\ ended' = "unread"
  BY DEF AbbaInv, Abba!Edit
<1>2. CASE \E k \in Abba!Keys, s \in Abba!Stages :
             /\ campaign[k][s] # <<>>
             /\ \/ \E m \in Means : campaign' = [campaign EXCEPT ![k][s][1].mean = m]
                \/ campaign' = [campaign EXCEPT ![k][s][1].valid = FALSE]
                \/ campaign' = [campaign EXCEPT ![k][s][1].override = "forced"]
                \/ campaign' = [campaign EXCEPT ![k][s] = <<>>]
                \/ Len(campaign[k][s]) = 1 /\ campaign' = [campaign EXCEPT ![k][s] = @ \o @]
             /\ UNCHANGED present
  <2>1. PICK k \in Abba!Keys, s \in Abba!Stages :
          /\ campaign[k][s] # <<>>
          /\ \/ \E m \in Means : campaign' = [campaign EXCEPT ![k][s][1].mean = m]
             \/ campaign' = [campaign EXCEPT ![k][s][1].valid = FALSE]
             \/ campaign' = [campaign EXCEPT ![k][s][1].override = "forced"]
             \/ campaign' = [campaign EXCEPT ![k][s] = <<>>]
             \/ Len(campaign[k][s]) = 1 /\ campaign' = [campaign EXCEPT ![k][s] = @ \o @]
          /\ UNCHANGED present
    BY <1>2
  <2> DEFINE q == campaign[k][s]
  <2>2. q \in Seq(Rows) /\ q # <<>>
    BY <1>1, <2>1 DEF Campaigns
  <2>3. q[1] \in Rows
    BY <2>2, FirstEdited
  <2>4. \E r \in Seq(Rows) : campaign' = [campaign EXCEPT ![k] = [campaign[k] EXCEPT ![s] = r]]
    <3>1. ASSUME NEW m \in Means, campaign' = [campaign EXCEPT ![k][s][1].mean = m]
          PROVE  campaign' = [campaign EXCEPT ![k] = [campaign[k] EXCEPT ![s] =
                                [q EXCEPT ![1] = [q[1] EXCEPT !.mean = m]]]]
      BY <3>1
    <3>2. ASSUME campaign' = [campaign EXCEPT ![k][s][1].valid = FALSE]
          PROVE  campaign' = [campaign EXCEPT ![k] = [campaign[k] EXCEPT ![s] =
                                [q EXCEPT ![1] = [q[1] EXCEPT !.valid = FALSE]]]]
      BY <3>2
    <3>3. ASSUME campaign' = [campaign EXCEPT ![k][s][1].override = "forced"]
          PROVE  campaign' = [campaign EXCEPT ![k] = [campaign[k] EXCEPT ![s] =
                                [q EXCEPT ![1] = [q[1] EXCEPT !.override = "forced"]]]]
      BY <3>3
    <3>4. q \o q \in Seq(Rows) /\ <<>> \in Seq(Rows)
      BY <2>2
    <3>5. /\ \A m \in Means : [q EXCEPT ![1] = [q[1] EXCEPT !.mean = m]] \in Seq(Rows)
          /\ [q EXCEPT ![1] = [q[1] EXCEPT !.valid = FALSE]] \in Seq(Rows)
          /\ [q EXCEPT ![1] = [q[1] EXCEPT !.override = "forced"]] \in Seq(Rows)
      BY <2>2, <2>3, RowEdits, FirstEdited
    <3> QED BY <2>1, <3>1, <3>2, <3>3, <3>4, <3>5
  <2>5. campaign' \in Campaigns
    <3>1. PICK r \in Seq(Rows) : campaign' = [campaign EXCEPT ![k] = [campaign[k] EXCEPT ![s] = r]]
      BY <2>4
    <3>2. [campaign EXCEPT ![k] = [campaign[k] EXCEPT ![s] = r]] \in Campaigns
      BY <1>1, StageEdited, Zenon
    <3> QED BY <3>1, <3>2
  <2> QED BY <1>1, <2>1, <2>5 DEF AbbaInv
<1>3. CASE \E s \in Abba!Stages :
             /\ campaign' = [k \in Abba!Keys |-> [campaign[k] EXCEPT ![s] =
                               [i \in DOMAIN @ |-> [@[i] EXCEPT !.commit = "c"]]]]
             /\ UNCHANGED present
  <2>1. PICK s \in Abba!Stages :
          /\ campaign' = [k \in Abba!Keys |-> [campaign[k] EXCEPT ![s] =
                            [i \in DOMAIN campaign[k][s] |-> [campaign[k][s][i] EXCEPT !.commit = "c"]]]]
          /\ UNCHANGED present
    BY <1>3
  <2>2. ASSUME NEW k \in Abba!Keys
        PROVE  [i \in DOMAIN campaign[k][s] |-> [campaign[k][s][i] EXCEPT !.commit = "c"]] \in Seq(Rows)
    <3>1. campaign[k][s] \in Seq(Rows)
      BY <1>1 DEF Campaigns
    <3>2. Len(campaign[k][s]) \in Nat /\ DOMAIN campaign[k][s] = 1 .. Len(campaign[k][s])
      BY <3>1, LenProperties
    <3>3. ASSUME NEW i \in 1 .. Len(campaign[k][s])
          PROVE  [campaign[k][s][i] EXCEPT !.commit = "c"] \in Rows
      <4>1. campaign[k][s][i] \in Rows
        BY <3>1
      <4> QED BY <4>1, RowEdits, Zenon
    <3> QED BY <3>2, <3>3
  <2>3. campaign' \in Campaigns
    BY <1>1, <2>1, <2>2 DEF Campaigns
  <2> QED BY <1>1, <2>1, <2>3 DEF AbbaInv
<1>4. CASE present' = FALSE /\ UNCHANGED campaign
  BY <1>1, <1>4 DEF AbbaInv
<1> QED BY <1>2, <1>3, <1>4 DEF Abba!Edit

LEMMA AbbaInductive == AbbaInv /\ [MCNext]_<<tool, vars, runVars, gateVars, abbaVars>> => AbbaInv'
<1> SUFFICES ASSUME AbbaInv, [MCNext]_<<tool, vars, runVars, gateVars, abbaVars>> PROVE AbbaInv'
  OBVIOUS
<1>1. Abba!Next \/ UNCHANGED abbaVars
  BY DEF MCNext
<1>2. CASE Abba!Edit
  BY <1>2, EditKeeps
<1>3. CASE Abba!Begin \/ Abba!WriteFails \/ Abba!WriteJson \/ Abba!WriteMd \/ Abba!Finish
           \/ UNCHANGED abbaVars
  <2>1. UNCHANGED <<campaign, present>>
    BY <1>3 DEF Abba!Begin, Abba!WriteFails, Abba!WriteJson, Abba!WriteMd, Abba!Finish, abbaVars
  <2>2. Abba!analyze' = Abba!analyze
    BY <2>1, AnalysisStays
  <2> QED BY <1>3, <2>1, <2>2
          DEF AbbaInv, Abba!Begin, Abba!WriteFails, Abba!WriteJson, Abba!WriteMd, Abba!Finish, abbaVars
<1> QED BY <1>1, <1>2, <1>3 DEF Abba!Next

-----------------------------------------------------------------------------
(* The analysis permits the attribution exactly when the campaign is sound.*)

Row1(k, s) == campaign[k][s][1]

LEMMA SameCardinality == \A S : Abba!Cardinality(S) = Cardinality(S)
  BY DEF Abba!Cardinality, Cardinality

(* A set within three commits or two overrides has at most one member when *)
(* it is not counted beyond one.                                           *)
LEMMA AtMostOne ==
  ASSUME NEW S, IsFiniteSet(S), NEW T \in SUBSET S, ~(Cardinality(T) > 1), NEW x \in T, NEW y \in T
  PROVE  x = y
<1> SUFFICES ASSUME x # y PROVE FALSE
  OBVIOUS
<1>1. IsFiniteSet(T)
  BY FS_Subset
<1>2. IsFiniteSet({x, y}) /\ Cardinality({x, y}) = 2
  <2>1. IsFiniteSet({x}) /\ Cardinality({x}) = 1
    BY FS_Singleton
  <2>2. {x} \cup {y} = {x, y} /\ y \notin {x}
    OBVIOUS
  <2>3. IsFiniteSet({x} \cup {y}) /\ Cardinality({x} \cup {y}) = Cardinality({x}) + 1
    BY <2>1, <2>2, FS_AddElement, Zenon
  <2> QED BY <2>1, <2>2, <2>3
<1>3. Cardinality({x, y}) <= Cardinality(T) /\ Cardinality(T) \in Nat
  BY <1>1, FS_Subset, FS_CardinalityType
<1> QED BY <1>2, <1>3

LEMMA AtMostOneCounts ==
  ASSUME NEW T, NEW x, T \subseteq {x}
  PROVE  IsFiniteSet(T) /\ ~(Cardinality(T) > 1)
<1>1. IsFiniteSet({x}) /\ Cardinality({x}) = 1
  BY FS_Singleton
<1>2. IsFiniteSet(T) /\ Cardinality(T) <= 1 /\ Cardinality(T) \in Nat
  BY <1>1, FS_Subset, FS_CardinalityType
<1> QED BY <1>2

LEMMA SmallSets == IsFiniteSet(Commits) /\ IsFiniteSet(ForcedOrNot)
<1>1. IsFiniteSet({"a"}) /\ IsFiniteSet({"b"}) /\ IsFiniteSet({"c"})
  BY FS_Singleton
<1>2. IsFiniteSet({"none"}) /\ IsFiniteSet({"forced"})
  BY FS_Singleton
<1>3. IsFiniteSet({"a"} \cup {"b"}) /\ IsFiniteSet({"none"} \cup {"forced"})
  BY <1>1, <1>2, FS_Union
<1>4. IsFiniteSet(({"a"} \cup {"b"}) \cup {"c"})
  BY <1>1, <1>3, FS_Union
<1>5. Commits = ({"a"} \cup {"b"}) \cup {"c"} /\ ForcedOrNot = {"none"} \cup {"forced"}
  BY DEF Commits, ForcedOrNot
<1> QED BY <1>3, <1>4, <1>5

(* Every stage of a case that was measured has one row, which is valid.    *)
OneRow(k, s) == Len(campaign[k][s]) = 1 /\ Row1(k, s).valid

LEMMA OneRowFacts ==
  ASSUME campaign \in Campaigns, NEW k \in Abba!Keys, NEW s \in Abba!Stages, OneRow(k, s)
  PROVE  /\ Row1(k, s) \in Rows /\ DOMAIN campaign[k][s] = {1}
         /\ Abba!Estimates(k, s) = {1} /\ Cardinality(Abba!Estimates(k, s)) = 1
         /\ Abba!RowsAt(k, s) = {Row1(k, s)} /\ Abba!Valid(k, s) = {Row1(k, s)}
         /\ Abba!Mean(k, s) = Row1(k, s).mean
         /\ campaign[k][s] = <<Row1(k, s)>>
<1>1. campaign[k][s] \in Seq(Rows)
  BY DEF Campaigns
<1>2. DOMAIN campaign[k][s] = {1} /\ Row1(k, s) \in Rows
  BY <1>1 DEF OneRow, Row1
<1>3. Abba!Estimates(k, s) = {1}
  BY <1>2 DEF Abba!Estimates, OneRow, Row1
<1>4. Cardinality(Abba!Estimates(k, s)) = 1
  BY <1>3, FS_Singleton
<1>5. Abba!RowsAt(k, s) = {Row1(k, s)}
  BY <1>2 DEF Abba!RowsAt, Row1
<1>6. Abba!Valid(k, s) = {Row1(k, s)}
  BY <1>5 DEF Abba!Valid, OneRow
<1>7. Abba!Mean(k, s) = Row1(k, s).mean
  <2>1. (CHOOSE i \in Abba!Estimates(k, s) : \A j \in Abba!Estimates(k, s) : i >= j) = 1
    BY <1>3
  <2> QED BY <2>1 DEF Abba!Mean, Row1
<1>8. campaign[k][s] = <<Row1(k, s)>>
  BY <1>1 DEF OneRow, Row1
<1> QED BY <1>2, <1>3, <1>4, <1>5, <1>6, <1>7, <1>8

LEMMA NoRowFacts ==
  ASSUME NEW k, NEW s, campaign[k][s] = <<>>
  PROVE  Abba!Estimates(k, s) = {} /\ Abba!RowsAt(k, s) = {} /\ Abba!Valid(k, s) = {}
<1>1. DOMAIN campaign[k][s] = {}
  OBVIOUS
<1> QED BY <1>1 DEF Abba!Estimates, Abba!RowsAt, Abba!Valid

(* What a permitted report says of the campaign: everything is measured    *)
(* once, the stages of one codec agree on the revision and the rows of a   *)
(* group on the override.                                                  *)
LEMMA PermittedFacts ==
  ASSUME campaign \in Campaigns, ~Abba!CampaignErrors
  PROVE  /\ present /\ Abba!Grouped # {}
         /\ \A k \in Abba!Grouped, s \in Abba!Stages : OneRow(k, s)
         /\ \A k \in Abba!Keys \ Abba!Grouped, s \in Abba!Stages : campaign[k][s] = <<>>
         /\ \A k, l \in Abba!Grouped, s \in Abba!Stages :
              /\ Row1(k, s).commit = Row1(l, s).commit
              /\ Row1(k, s).commit = Row1(l, Abba!Pair(s)).commit
         /\ \A k, l \in Abba!Grouped, s, t \in Abba!Stages :
              k[1] = l[1] => Row1(k, s).override = Row1(l, t).override
<1>1. /\ present /\ Abba!Grouped # {} /\ ~Abba!ReadErrors
      /\ \A k \in Abba!Grouped, s \in Abba!Stages : Cardinality(Abba!Estimates(k, s)) = 1
      /\ \A s \in Abba!Stages : ~(Cardinality(Abba!Revisions(s)) > 1)
      /\ \A s \in Abba!Stages : Abba!Revisions(s) = Abba!Revisions(Abba!Pair(s))
      /\ \A g \in Groups : ~(Cardinality(Abba!Overrides(g)) > 1)
  <2>1. present /\ Abba!Grouped # {} /\ ~Abba!ReadErrors
    BY Zenon DEF Abba!CampaignErrors
  <2>2. \A k \in Abba!Grouped, s \in Abba!Stages : Cardinality(Abba!Estimates(k, s)) = 1
    BY SameCardinality DEF Abba!CampaignErrors
  <2>3. \A s \in Abba!Stages : ~(Cardinality(Abba!Revisions(s)) > 1)
    BY SameCardinality DEF Abba!CampaignErrors
  <2>4. \A s \in Abba!Stages : Abba!Revisions(s) = Abba!Revisions(Abba!Pair(s))
    BY DEF Abba!CampaignErrors
  <2>5. \A g \in Groups : ~(Cardinality(Abba!Overrides(g)) > 1)
    BY SameCardinality DEF Abba!CampaignErrors
  <2> QED BY <2>1, <2>2, <2>3, <2>4, <2>5
<1>2. ASSUME NEW k \in Abba!Keys, NEW s \in Abba!Stages
      PROVE  /\ campaign[k][s] \in Seq(Rows)
             /\ DOMAIN campaign[k][s] = 1 .. Len(campaign[k][s]) /\ Len(campaign[k][s]) \in Nat
             /\ \A i \in DOMAIN campaign[k][s] : campaign[k][s][i].valid
             /\ Abba!Estimates(k, s) = 1 .. Len(campaign[k][s])
  <2>1. campaign[k][s] \in Seq(Rows)
    BY DEF Campaigns
  <2>2. DOMAIN campaign[k][s] = 1 .. Len(campaign[k][s]) /\ Len(campaign[k][s]) \in Nat
    BY <2>1, LenProperties
  <2>3. \A i \in DOMAIN campaign[k][s] : campaign[k][s][i].valid
    BY <1>1 DEF Abba!ReadErrors, Abba!RowsAt
  <2> QED BY <2>1, <2>2, <2>3 DEF Abba!Estimates
<1>3. Abba!Grouped \subseteq Abba!Keys
  BY DEF Abba!Grouped
<1>4. ASSUME NEW k \in Abba!Grouped, NEW s \in Abba!Stages PROVE OneRow(k, s)
  <2>1. k \in Abba!Keys
    BY <1>3
  <2>2. Cardinality(1 .. Len(campaign[k][s])) = 1
    BY <1>1, <1>2, <2>1
  <2>3. Len(campaign[k][s]) = 1
    <3>1. Len(campaign[k][s]) \in Nat
      BY <1>2, <2>1
    <3>2. \A n \in Nat : Cardinality(1 .. n) = IF 1 > n THEN 0 ELSE n - 1 + 1
      BY FS_Interval
    <3>3. \A n \in Nat : \A c : c = 1 /\ c = (IF 1 > n THEN 0 ELSE n - 1 + 1) => n = 1
      OBVIOUS
    <3> QED BY <2>2, <3>1, <3>2, <3>3, Zenon
  <2> QED BY <1>2, <2>1, <2>3 DEF OneRow, Row1
<1>5. ASSUME NEW k \in Abba!Keys \ Abba!Grouped, NEW s \in Abba!Stages PROVE campaign[k][s] = <<>>
  <2>1. Abba!Estimates(k, s) = {}
    BY DEF Abba!Grouped
  <2>2. Len(campaign[k][s]) = 0 /\ campaign[k][s] \in Seq(Rows)
    BY <1>2, <2>1
  <2> QED BY <2>2, EmptySeq
<1>6. ASSUME NEW k \in Abba!Grouped, NEW s \in Abba!Stages
      PROVE  Row1(k, s) \in Rows /\ Abba!Valid(k, s) = {Row1(k, s)}
  BY <1>3, <1>4, OneRowFacts
<1>7. ASSUME NEW k \in Abba!Grouped, NEW s \in Abba!Stages
      PROVE  Row1(k, s).commit \in Abba!Revisions(s)
  <2>1. Row1(k, s) \in UNION {Abba!Valid(x, s) : x \in Abba!Grouped}
    BY <1>6
  <2> QED BY <2>1 DEF Abba!Revisions
<1>8. ASSUME NEW s \in Abba!Stages PROVE Abba!Revisions(s) \subseteq Commits
  BY <1>6 DEF Abba!Revisions, Rows
<1>9. \A s \in Abba!Stages : Abba!Pair(s) \in Abba!Stages
  BY DEF Abba!Stages, Abba!Pair
<1>10. ASSUME NEW k \in Abba!Grouped, NEW l \in Abba!Grouped, NEW s \in Abba!Stages
       PROVE  /\ Row1(k, s).commit = Row1(l, s).commit
              /\ Row1(k, s).commit = Row1(l, Abba!Pair(s)).commit
  <2>1. /\ Row1(k, s).commit \in Abba!Revisions(s) /\ Row1(l, s).commit \in Abba!Revisions(s)
        /\ Row1(l, Abba!Pair(s)).commit \in Abba!Revisions(s)
    BY <1>1, <1>7, <1>9
  <2>2. IsFiniteSet(Commits) /\ Abba!Revisions(s) \in SUBSET Commits
        /\ ~(Cardinality(Abba!Revisions(s)) > 1)
    BY <1>1, <1>8, SmallSets
  <2>3. Row1(k, s).commit = Row1(l, s).commit
    BY <2>1, <2>2, AtMostOne
  <2>4. Row1(k, s).commit = Row1(l, Abba!Pair(s)).commit
    BY <2>1, <2>2, AtMostOne
  <2> QED BY <2>3, <2>4
<1>11. ASSUME NEW k \in Abba!Grouped, NEW l \in Abba!Grouped, NEW s \in Abba!Stages,
              NEW t \in Abba!Stages, k[1] = l[1]
       PROVE  Row1(k, s).override = Row1(l, t).override
  <2>1. k \in Abba!Keys /\ l \in Abba!Keys /\ k[1] \in Groups
    BY <1>3 DEF Abba!Keys
  <2> DEFINE mine == {x \in Abba!Keys : x[1] = k[1]}
  <2>2. k \in mine /\ l \in mine
    BY <1>11, <2>1
  <2>3. Row1(k, s) \in Abba!Valid(k, s) /\ Row1(l, t) \in Abba!Valid(l, t)
    BY <1>6
  <2>4. /\ Row1(k, s) \in UNION {Abba!Valid(x, u) : x \in mine, u \in Abba!Stages}
        /\ Row1(l, t) \in UNION {Abba!Valid(x, u) : x \in mine, u \in Abba!Stages}
    BY <2>2, <2>3
  <2>5. /\ Row1(k, s).override \in Abba!Overrides(k[1])
        /\ Row1(l, t).override \in Abba!Overrides(k[1])
    BY <2>4 DEF Abba!Overrides
  <2>6. Abba!Overrides(k[1]) \subseteq ForcedOrNot
    <3>1. ASSUME NEW x \in Abba!Keys, NEW u \in Abba!Stages PROVE Abba!Valid(x, u) \subseteq Rows
      <4>1. campaign[x][u] \in Seq(Rows)
        BY <1>2
      <4>2. \A i \in DOMAIN campaign[x][u] : campaign[x][u][i] \in Rows
        BY <4>1
      <4> QED BY <4>2 DEF Abba!Valid, Abba!RowsAt
    <3> QED BY <3>1 DEF Abba!Overrides, Rows
  <2>7. IsFiniteSet(ForcedOrNot) /\ ~(Cardinality(Abba!Overrides(k[1])) > 1)
    BY <1>1, <2>1, SmallSets
  <2> HIDE DEF mine
  <2> QED BY <2>5, <2>6, <2>7, AtMostOne
<1> QED BY <1>1, <1>4, <1>5, <1>10, <1>11

(* The cases ks were measured by the revisions x and y under overrides f,  *)
(* and repeated themselves; the others were not measured.                  *)
SoundWith(x, y, f, ks) ==
  /\ ks # {}
  /\ \A k \in Abba!Keys \ ks, s \in Abba!Stages : campaign[k][s] = <<>>
  /\ \A k \in ks : \E m \in [Abba!Stages -> Means] :
       /\ \A s \in Abba!Stages :
            campaign[k][s] = <<[commit |-> IF s \in {"A1", "A2"} THEN x ELSE y,
                                override |-> f[k[1]], mean |-> m[s], valid |-> TRUE]>>
       /\ \A s \in {"A1", "B1"} : 100 * (m[Abba!Pair(s)] - m[s]) <= Threshold * m[s]
                                /\ 100 * (m[s] - m[Abba!Pair(s)]) <= Threshold * m[s]

LEMMA SoundMeans ==
  Abba!Sound <=> present /\ \E x \in Commits, y \in Commits, f \in [Groups -> ForcedOrNot] :
                                \E ks \in SUBSET Abba!Keys : SoundWith(x, y, f, ks)
BY Zenon DEF Abba!Sound, SoundWith, Commits, ForcedOrNot

LEMMA PermittedIsSound ==
  ASSUME campaign \in Campaigns, Abba!analyze = "permitted" PROVE Abba!Sound
<1>1. ~Abba!CampaignErrors /\ \A k \in Abba!Grouped : ~Abba!drift_failed(k)
  BY DEF Abba!analyze
<1>2. Abba!Grouped \subseteq Abba!Keys
  BY DEF Abba!Grouped
<1>3. PICK k0 \in Abba!Grouped : TRUE
  BY <1>1, PermittedFacts
<1> DEFINE a == Row1(k0, "A1").commit
           b == Row1(k0, "B1").commit
           CaseOf(g) == CHOOSE k \in Abba!Grouped : k[1] = g
           o == [g \in Groups |-> IF \E k \in Abba!Grouped : k[1] = g
                                  THEN Row1(CaseOf(g), "A1").override ELSE "none"]
<1>4. ASSUME NEW k \in Abba!Grouped, NEW s \in Abba!Stages
      PROVE  /\ OneRow(k, s) /\ Row1(k, s) \in Rows /\ campaign[k][s] = <<Row1(k, s)>>
             /\ Abba!Mean(k, s) = Row1(k, s).mean
  BY <1>1, <1>2, PermittedFacts, OneRowFacts
<1>5. "A1" \in Abba!Stages /\ "B1" \in Abba!Stages /\ "A2" \in Abba!Stages /\ "B2" \in Abba!Stages
  BY DEF Abba!Stages
<1>6. a \in Commits /\ b \in Commits
  BY <1>4, <1>5 DEF Rows
<1>7. ASSUME NEW g \in Groups, \E k \in Abba!Grouped : k[1] = g
      PROVE  CaseOf(g) \in Abba!Grouped /\ CaseOf(g)[1] = g
  BY <1>7
<1>8. o \in [Groups -> ForcedOrNot]
  <2>1. ASSUME NEW g \in Groups PROVE o[g] \in ForcedOrNot
    BY <1>4, <1>5, <1>7 DEF Rows, ForcedOrNot
  <2> QED BY <2>1
<1>9. ASSUME NEW k \in Abba!Grouped, NEW s \in Abba!Stages
      PROVE  Row1(k, s).commit = IF s \in {"A1", "A2"} THEN a ELSE b
  <2>1. /\ Row1(k, s).commit = Row1(k0, s).commit
        /\ Row1(k, s).commit = Row1(k0, Abba!Pair(s)).commit
    BY <1>1, PermittedFacts
  <2> QED BY <2>1 DEF Abba!Stages, Abba!Pair
<1>10. ASSUME NEW k \in Abba!Grouped, NEW s \in Abba!Stages
       PROVE  k[1] \in Groups /\ Row1(k, s).override = o[k[1]]
  <2>1. k[1] \in Groups
    BY <1>2 DEF Abba!Keys
  <2>2. o[k[1]] = Row1(CaseOf(k[1]), "A1").override /\ CaseOf(k[1]) \in Abba!Grouped /\ CaseOf(k[1])[1] = k[1]
    BY <1>7, <2>1
  <2> HIDE DEF o, CaseOf
  <2>3. Row1(k, s).override = Row1(CaseOf(k[1]), "A1").override
    BY <1>1, <1>5, <2>2, PermittedFacts
  <2> QED BY <2>1, <2>2, <2>3
<1> HIDE DEF a, b, o
<1>11. ASSUME NEW k \in Abba!Grouped
       PROVE  \E m \in [Abba!Stages -> Means] :
                /\ \A s \in Abba!Stages :
                     campaign[k][s] = <<[commit |-> IF s \in {"A1", "A2"} THEN a ELSE b,
                                         override |-> o[k[1]], mean |-> m[s], valid |-> TRUE]>>
                /\ \A s \in {"A1", "B1"} : 100 * (m[Abba!Pair(s)] - m[s]) <= Threshold * m[s]
                                         /\ 100 * (m[s] - m[Abba!Pair(s)]) <= Threshold * m[s]
  <2> DEFINE m == [s \in Abba!Stages |-> Row1(k, s).mean]
  <2>1. m \in [Abba!Stages -> Means]
    BY <1>4 DEF Rows
  <2>2. ASSUME NEW s \in Abba!Stages
        PROVE  campaign[k][s] = <<[commit |-> IF s \in {"A1", "A2"} THEN a ELSE b,
                                   override |-> o[k[1]], mean |-> m[s], valid |-> TRUE]>>
    <3>1. Row1(k, s) = [commit |-> Row1(k, s).commit, override |-> Row1(k, s).override,
                        mean |-> Row1(k, s).mean, valid |-> Row1(k, s).valid]
      BY <1>4 DEF Rows
    <3>2. Row1(k, s).valid = TRUE
      BY <1>4 DEF OneRow, Rows
    <3>3. m[s] = Row1(k, s).mean
      OBVIOUS
    <3>4. /\ campaign[k][s] = <<Row1(k, s)>>
          /\ Row1(k, s).commit = (IF s \in {"A1", "A2"} THEN a ELSE b)
          /\ Row1(k, s).override = o[k[1]]
      BY <1>4, <1>9, <1>10
    <3> HIDE DEF m
    <3> QED BY <3>1, <3>2, <3>3, <3>4
  <2>3. ASSUME NEW s \in {"A1", "B1"}
        PROVE  /\ 100 * (m[Abba!Pair(s)] - m[s]) <= Threshold * m[s]
               /\ 100 * (m[s] - m[Abba!Pair(s)]) <= Threshold * m[s]
    <3>1. /\ Abba!Pair(s) = (IF s = "A1" THEN "A2" ELSE "B2")
          /\ Abba!Pair(s) \in Abba!Stages /\ s \in Abba!Stages
      BY DEF Abba!Pair, Abba!Stages
    <3>2. ~Abba!Drift(k, Abba!Pair(s), s)
      BY <1>1, <3>1 DEF Abba!drift_failed
    <3>3. m[s] = Abba!Mean(k, s) /\ m[Abba!Pair(s)] = Abba!Mean(k, Abba!Pair(s))
      BY <1>4, <3>1
    <3>4. m[s] \in Nat /\ m[Abba!Pair(s)] \in Nat /\ Threshold \in Nat
      BY <2>1, <3>1, MeansCount
    <3> HIDE DEF m
    <3>5. ~(100 * (IF m[Abba!Pair(s)] - m[s] < 0 THEN -(m[Abba!Pair(s)] - m[s])
                                                 ELSE m[Abba!Pair(s)] - m[s]) > Threshold * m[s])
      BY <3>2, <3>3 DEF Abba!Drift
    <3>6. Threshold * m[s] \in Int
      BY <3>4
    <3>7. \A x, y \in Nat : \A t \in Int :
            ~(100 * (IF x - y < 0 THEN -(x - y) ELSE x - y) > t) => 100 * (x - y) <= t /\ 100 * (y - x) <= t
      OBVIOUS
    <3> QED BY <3>4, <3>5, <3>6, <3>7
  <2> QED BY <2>1, <2>2, <2>3
<1>12. Abba!Grouped \in SUBSET Abba!Keys /\ Abba!Grouped # {} /\ present
  BY <1>1, <1>2, PermittedFacts
<1>13. \A k \in Abba!Keys \ Abba!Grouped, s \in Abba!Stages : campaign[k][s] = <<>>
  BY <1>1, PermittedFacts
<1> QED
  <2>1. /\ Abba!Grouped # {}
        /\ \A k \in Abba!Keys \ Abba!Grouped, s \in Abba!Stages : campaign[k][s] = <<>>
        /\ \A k \in Abba!Grouped : \E m \in [Abba!Stages -> Means] :
             /\ \A s \in Abba!Stages :
                  campaign[k][s] = <<[commit |-> IF s \in {"A1", "A2"} THEN a ELSE b,
                                      override |-> o[k[1]], mean |-> m[s], valid |-> TRUE]>>
             /\ \A s \in {"A1", "B1"} : 100 * (m[Abba!Pair(s)] - m[s]) <= Threshold * m[s]
                                      /\ 100 * (m[s] - m[Abba!Pair(s)]) <= Threshold * m[s]
    BY <1>11, <1>12, <1>13
  <2>2. SoundWith(a, b, o, Abba!Grouped)
    BY <2>1 DEF SoundWith
  <2> QED BY <1>6, <1>8, <1>12, <2>2, SoundMeans, Zenon

LEMMA SoundIsPermitted ==
  ASSUME campaign \in Campaigns, Abba!Sound PROVE Abba!analyze = "permitted"
<1>1. PICK x \in Commits, y \in Commits, f \in [Groups -> ForcedOrNot] :
        \E ks \in SUBSET Abba!Keys : SoundWith(x, y, f, ks)
  BY SoundMeans
<1>2. PICK ks \in SUBSET Abba!Keys : SoundWith(x, y, f, ks)
  BY <1>1
<1> DEFINE Rev(s) == IF s \in {"A1", "A2"} THEN x ELSE y
<1>3. ASSUME NEW k \in ks
      PROVE  \E m \in [Abba!Stages -> Means] :
               /\ \A s \in Abba!Stages :
                    campaign[k][s] = <<[commit |-> Rev(s), override |-> f[k[1]], mean |-> m[s],
                                        valid |-> TRUE]>>
               /\ \A s \in {"A1", "B1"} : 100 * (m[Abba!Pair(s)] - m[s]) <= Threshold * m[s]
                                        /\ 100 * (m[s] - m[Abba!Pair(s)]) <= Threshold * m[s]
  BY <1>2 DEF SoundWith
<1>4. ASSUME NEW k \in ks, NEW s \in Abba!Stages
      PROVE  /\ OneRow(k, s) /\ Row1(k, s).commit = Rev(s) /\ Row1(k, s).override = f[k[1]]
             /\ Row1(k, s).valid = TRUE
  <2>1. PICK m \in [Abba!Stages -> Means] : \A u \in Abba!Stages :
          campaign[k][u] = <<[commit |-> Rev(u), override |-> f[k[1]], mean |-> m[u], valid |-> TRUE]>>
    BY <1>3
  <2> DEFINE row == [commit |-> Rev(s), override |-> f[k[1]], mean |-> m[s], valid |-> TRUE]
  <2>2. campaign[k][s] = <<row>>
    BY <2>1
  <2>3. row.commit = Rev(s) /\ row.override = f[k[1]] /\ row.valid = TRUE
    OBVIOUS
  <2> HIDE DEF row, Rev
  <2>4. Len(campaign[k][s]) = 1 /\ campaign[k][s][1] = row
    BY <2>2
  <2> QED BY <2>3, <2>4 DEF OneRow, Row1
<1>5. ASSUME NEW k \in Abba!Keys \ ks, NEW s \in Abba!Stages
      PROVE  Abba!Estimates(k, s) = {} /\ Abba!RowsAt(k, s) = {} /\ Abba!Valid(k, s) = {}
  <2>1. campaign[k][s] = <<>>
    BY <1>2 DEF SoundWith
  <2> QED BY <2>1, NoRowFacts
<1>6. ASSUME NEW k \in ks, NEW s \in Abba!Stages
      PROVE  /\ Abba!Estimates(k, s) = {1} /\ Cardinality(Abba!Estimates(k, s)) = 1
             /\ Abba!RowsAt(k, s) = {Row1(k, s)} /\ Abba!Valid(k, s) = {Row1(k, s)}
             /\ Abba!Mean(k, s) = Row1(k, s).mean
  <2>1. k \in Abba!Keys /\ OneRow(k, s)
    BY <1>4
  <2> QED BY <2>1, OneRowFacts
<1>7. Abba!Stages # {} /\ "A1" \in Abba!Stages
  BY DEF Abba!Stages
<1>8. Abba!Grouped = ks
  BY <1>5, <1>6, <1>7 DEF Abba!Grouped
<1>9. present /\ Abba!Grouped # {}
  <2>1. present
    BY SoundMeans, Zenon
  <2> QED BY <1>2, <1>8, <2>1 DEF SoundWith
<1>10. ~Abba!ReadErrors
  <2>1. ASSUME NEW k \in Abba!Keys, NEW s \in Abba!Stages, NEW r \in Abba!RowsAt(k, s) PROVE r.valid
    <3>1. CASE k \in ks
      <4>1. Row1(k, s).valid = TRUE
        BY <1>4, <3>1
      <4>2. r = Row1(k, s)
        BY <1>6, <3>1
      <4> QED BY <4>1, <4>2
    <3>2. CASE k \notin ks
      BY <1>5, <3>2
    <3> QED BY <3>1, <3>2
  <2> QED BY <2>1 DEF Abba!ReadErrors
<1>11. ASSUME NEW s \in Abba!Stages PROVE Abba!Revisions(s) = {Rev(s)}
  <2>1. \A k \in ks : Abba!Valid(k, s) = {Row1(k, s)} /\ Row1(k, s).commit = Rev(s)
    BY <1>4, <1>6
  <2>2. ks # {}
    BY <1>8, <1>9
  <2> HIDE DEF Rev
  <2> QED BY <1>8, <2>1, <2>2 DEF Abba!Revisions
<1>12. \A s \in Abba!Stages : Abba!Pair(s) \in Abba!Stages /\ Rev(Abba!Pair(s)) = Rev(s)
  BY DEF Abba!Stages, Abba!Pair
<1>13. ASSUME NEW g \in Groups PROVE Abba!Overrides(g) \subseteq {f[g]}
  <2>1. \A k \in Abba!Keys, s \in Abba!Stages : k[1] = g => \A r \in Abba!Valid(k, s) : r.override = f[g]
    <3> SUFFICES ASSUME NEW k \in Abba!Keys, NEW s \in Abba!Stages, k[1] = g, NEW r \in Abba!Valid(k, s)
                 PROVE  r.override = f[g]
      OBVIOUS
    <3>1. CASE k \in ks
      <4>1. Row1(k, s).override = f[k[1]]
        BY <1>4, <3>1
      <4>2. r = Row1(k, s)
        BY <1>6, <3>1
      <4> QED BY <4>1, <4>2
    <3>2. CASE k \notin ks
      BY <1>5, <3>2
    <3> QED BY <3>1, <3>2
  <2> QED BY <2>1 DEF Abba!Overrides
<1>14. ~Abba!CampaignErrors
  <2>1. \A s \in Abba!Stages : ~(Cardinality(Abba!Revisions(s)) > 1)
    BY <1>11, FS_Singleton
  <2>2. \A g \in Groups : ~(Cardinality(Abba!Overrides(g)) > 1)
    BY <1>13, AtMostOneCounts
  <2>3. \A s \in Abba!Stages : Abba!Revisions(s) = Abba!Revisions(Abba!Pair(s))
    BY <1>11, <1>12
  <2>4. \A k \in Abba!Grouped, s \in Abba!Stages : Cardinality(Abba!Estimates(k, s)) = 1
    BY <1>6, <1>8
  <2> QED BY <1>9, <1>10, <2>1, <2>2, <2>3, <2>4, SameCardinality, Zenon DEF Abba!CampaignErrors
<1>15. ASSUME NEW k \in Abba!Grouped PROVE ~Abba!drift_failed(k)
  <2>1. PICK m \in [Abba!Stages -> Means] :
          /\ \A s \in Abba!Stages :
               campaign[k][s] = <<[commit |-> Rev(s), override |-> f[k[1]], mean |-> m[s],
                                   valid |-> TRUE]>>
          /\ \A s \in {"A1", "B1"} : 100 * (m[Abba!Pair(s)] - m[s]) <= Threshold * m[s]
                                   /\ 100 * (m[s] - m[Abba!Pair(s)]) <= Threshold * m[s]
    BY <1>3, <1>8
  <2>2. \A s \in Abba!Stages : Abba!Mean(k, s) = m[s] /\ m[s] \in Nat
    <3> SUFFICES ASSUME NEW s \in Abba!Stages PROVE Abba!Mean(k, s) = m[s] /\ m[s] \in Nat
      OBVIOUS
    <3> DEFINE row == [commit |-> Rev(s), override |-> f[k[1]], mean |-> m[s], valid |-> TRUE]
    <3>1. campaign[k][s] = <<row>>
      BY <2>1
    <3>2. row.mean = m[s]
      OBVIOUS
    <3> HIDE DEF row
    <3>3. Row1(k, s) = row
      BY <3>1 DEF Row1
    <3>4. Abba!Mean(k, s) = Row1(k, s).mean
      BY <1>6, <1>8
    <3> QED BY <2>1, <3>2, <3>3, <3>4, MeansCount
  <2>3. ASSUME NEW s \in {"A1", "B1"} PROVE ~Abba!Drift(k, Abba!Pair(s), s)
    <3>1. s \in Abba!Stages /\ Abba!Pair(s) \in Abba!Stages
      BY DEF Abba!Stages, Abba!Pair
    <3>2. m[s] \in Nat /\ m[Abba!Pair(s)] \in Nat /\ Threshold * m[s] \in Int
      <4>1. m[s] \in Nat /\ m[Abba!Pair(s)] \in Nat /\ Threshold \in Nat
        BY <2>2, <3>1, MeansCount
      <4>2. \A u, v \in Nat : u * v \in Int
        OBVIOUS
      <4> QED BY <4>1, <4>2
    <3>3. \A u, v \in Nat : \A t \in Int : 100 * (u - v) <= t /\ 100 * (v - u) <= t
            => ~(100 * (IF u - v < 0 THEN -(u - v) ELSE u - v) > t)
      OBVIOUS
    <3>4. ~(100 * (IF m[Abba!Pair(s)] - m[s] < 0 THEN -(m[Abba!Pair(s)] - m[s])
                                                 ELSE m[Abba!Pair(s)] - m[s]) > Threshold * m[s])
      BY <2>1, <3>2, <3>3
    <3> QED BY <2>2, <3>1, <3>4 DEF Abba!Drift
  <2>4. Abba!Pair("A1") = "A2" /\ Abba!Pair("B1") = "B2"
    BY DEF Abba!Pair
  <2> QED BY <2>3, <2>4 DEF Abba!drift_failed
<1> QED BY <1>14, <1>15 DEF Abba!analyze

(* A JSON report that a run has written permits the candidate's attribution*)
(* exactly when the campaign it read was sound, whether or not the Markdown*)
(* could be written after it, and a run that wrote both left them alike:   *)
(* for any cases, means, drift limit and edits between the runs (abba run).*)
THEOREM AttributionsAreEarned == MCSpec => []AttributionEarned
<1>1. MCInit => AbbaInv
  BY AbbaInit DEF MCInit
<1>2. AbbaInv => AttributionEarned
  <2> SUFFICES ASSUME AbbaInv, ended \in {"md", "written"}
               PROVE  ((json = "permitted") <=> Abba!Sound) /\ (ended = "written" => md = json)
    BY DEF AttributionEarned, Abba!AttributionEarned
  <2>1. json = Abba!analyze /\ (ended = "written" => md = Abba!analyze) /\ campaign \in Campaigns
    BY DEF AbbaInv
  <2>2. (Abba!analyze = "permitted") => Abba!Sound
    BY <2>1, PermittedIsSound
  <2>3. Abba!Sound => (Abba!analyze = "permitted")
    BY <2>1, SoundIsPermitted
  <2> QED BY <2>1, <2>2, <2>3
<1> QED BY <1>1, <1>2, AbbaInductive, PTL DEF MCSpec

-----------------------------------------------------------------------------
(***************************************************************************)
(* The regression gate: names of provenance fields.                        *)
(***************************************************************************)
FieldNames == {"rayon_threads", "features", "override_honored", "compiler", "stream_io_mode",
               "rustflags"}
First(f) == Gate!Aliases[f][1]
Names(f) == {Gate!Aliases[f][i] : i \in DOMAIN Gate!Aliases[f]}

LEMMA AliasValues ==
  /\ Gate!Fields = FieldNames
  /\ Gate!Aliases["rayon_threads"] = <<"rayon_threads", "rayon_num_threads">>
  /\ Gate!Aliases["features"] = <<"features">>
  /\ Gate!Aliases["override_honored"] = <<"override_honored">>
  /\ Gate!Aliases["compiler"] = <<"compiler", "rustc">>
  /\ Gate!Aliases["stream_io_mode"] = <<"stream_io_mode">>
  /\ Gate!Aliases["rustflags"] = <<"rustflags">>
BY DEF Gate!Aliases, Gate!Fields, FieldNames

LEMMA NameSets ==
  /\ Names("rayon_threads") = {"rayon_threads", "rayon_num_threads"}
  /\ Names("features") = {"features"}
  /\ Names("override_honored") = {"override_honored"}
  /\ Names("compiler") = {"compiler", "rustc"}
  /\ Names("stream_io_mode") = {"stream_io_mode"}
  /\ Names("rustflags") = {"rustflags"}
<1>1. ASSUME NEW a PROVE {<<a>>[i] : i \in DOMAIN <<a>>} = {a}
  <2>1. DOMAIN <<a>> = {1} /\ <<a>>[1] = a
    OBVIOUS
  <2> QED BY <2>1
<1>2. ASSUME NEW a, NEW b PROVE {<<a, b>>[i] : i \in DOMAIN <<a, b>>} = {a, b}
  <2>1. DOMAIN <<a, b>> = {1, 2} /\ <<a, b>>[1] = a /\ <<a, b>>[2] = b
    OBVIOUS
  <2> QED BY <2>1
<1> QED BY <1>1, <1>2, AliasValues DEF Names

(* A name belongs to one field; a field's first name is one of its names.  *)
LEMMA NamesFit ==
  /\ \A f \in FieldNames : First(f) \in Names(f)
  /\ \A f \in FieldNames : \A n \in Names(f) : n \in Gate!Names /\ Gate!FieldOf(n) = f
  /\ \A n \in Gate!Names : Gate!FieldOf(n) \in FieldNames /\ n \in Names(Gate!FieldOf(n))
<1>1. \A f \in FieldNames : First(f) \in Names(f)
  <2>1. /\ First("rayon_threads") = "rayon_threads" /\ First("features") = "features"
        /\ First("override_honored") = "override_honored" /\ First("compiler") = "compiler"
        /\ First("stream_io_mode") = "stream_io_mode" /\ First("rustflags") = "rustflags"
    BY AliasValues DEF First
  <2> QED BY <2>1, NameSets DEF FieldNames
<1>2. \A f, g \in FieldNames : Names(f) \cap Names(g) # {} => f = g
  BY NameSets DEF FieldNames
<1>3. Gate!Names = UNION {Names(f) : f \in FieldNames}
  BY AliasValues DEF Gate!Names, Names
<1>4. ASSUME NEW f \in FieldNames, NEW n \in Names(f) PROVE Gate!FieldOf(n) = f
  <2>1. \A g \in FieldNames : (\E i \in DOMAIN Gate!Aliases[g] : Gate!Aliases[g][i] = n) <=> n \in Names(g)
    BY DEF Names
  <2>2. \A g \in FieldNames : n \in Names(g) <=> g = f
    BY <1>2
  <2>3. Gate!FieldOf(n) = CHOOSE g \in FieldNames : n \in Names(g)
    BY <2>1, AliasValues DEF Gate!FieldOf
  <2> QED BY <2>2, <2>3
<1> QED BY <1>1, <1>3, <1>4

-----------------------------------------------------------------------------
(* What a token says.                                                      *)

Values == {"one", "other"}
Spellings(f) == CASE f = "rayon_threads" -> {"plain", "zeros", "number"}
                  [] f = "override_honored" -> {"plain", "padded", "bool"}
                  [] OTHER -> {"plain", "padded"}
NullToken == [form |-> "null"]
Unknown == Gate!Token("plain", Gate!UNKNOWN)

Says(token, f, v) == \E form \in Spellings(f) : token = Gate!Token(form, v)
Silent(token, f) == \/ token = Gate!Absent \/ token = NullToken
                    \/ f \in {"compiler", "stream_io_mode"} /\ token = Unknown

LEMMA Readings ==
  /\ Gate!None # Gate!Error
  /\ \A v : Gate!Some(v) # Gate!None /\ Gate!Some(v) # Gate!Error /\ Gate!Some(v).value = v
<1>1. Gate!None.is = "none" /\ Gate!Error.is = "error" /\ \A v : Gate!Some(v).is = "some" /\ Gate!Some(v).value = v
  BY DEF Gate!None, Gate!Error, Gate!Some
<1> QED BY <1>1

LEMMA SaidIsRead ==
  ASSUME NEW f \in FieldNames, NEW v \in Values, NEW token, Says(token, f, v)
  PROVE  Gate!normalize_provenance(token, f) = Gate!Some(v)
<1>1. PICK form \in Spellings(f) : token = Gate!Token(form, v)
  BY DEF Says
<1>2. token.form = form /\ token.value = v
  BY <1>1 DEF Gate!Token
<1>3. v # Gate!EMPTY /\ v # Gate!UNKNOWN /\ v \in {"one", "other"}
  BY DEF Values, Gate!EMPTY, Gate!UNKNOWN
<1>4. CASE f = "rayon_threads"
  BY <1>2, <1>3, <1>4 DEF Spellings, Gate!normalize_provenance, Gate!integer
<1>5. CASE f = "override_honored"
  BY <1>2, <1>3, <1>5 DEF Spellings, Gate!normalize_provenance
<1>6. CASE f = "features"
  BY <1>2, <1>3, <1>6 DEF Spellings, Gate!normalize_provenance
<1>7. CASE f \in {"compiler", "stream_io_mode", "rustflags"}
  BY <1>2, <1>3, <1>7 DEF Spellings, Gate!normalize_provenance
<1> QED BY <1>4, <1>5, <1>6, <1>7 DEF FieldNames

LEMMA SilentIsNone ==
  ASSUME NEW f \in FieldNames, NEW token, Silent(token, f)
  PROVE  Gate!normalize_provenance(token, f) = Gate!None
<1>1. CASE token = Gate!Absent \/ token = NullToken
  <2>1. token.form \in {"absent", "null"}
    BY <1>1 DEF Gate!Absent, NullToken
  <2> QED BY <2>1 DEF Gate!normalize_provenance
<1>2. CASE f \in {"compiler", "stream_io_mode"} /\ token = Unknown
  <2>1. token.form = "plain" /\ token.value = Gate!UNKNOWN /\ Gate!UNKNOWN # Gate!EMPTY
    BY <1>2 DEF Unknown, Gate!Token, Gate!UNKNOWN, Gate!EMPTY
  <2> QED BY <1>2, <2>1 DEF Gate!normalize_provenance
<1> QED BY <1>1, <1>2 DEF Silent

(* What the names of a field say together.                                 *)
Heard(tokens, f) == {Gate!normalize_provenance(tokens[n], f) : n \in Names(f)}

LEMMA HeardTogether ==
  ASSUME NEW tokens, NEW f \in FieldNames
  PROVE  Gate!provenance_value(tokens, f) =
           LET said == Heard(tokens, f) IN
           IF Gate!Error \in said THEN Gate!Error
           ELSE IF Cardinality(said \ {Gate!None}) > 1 THEN Gate!Error
           ELSE IF said \subseteq {Gate!None} THEN Gate!None ELSE CHOOSE v \in said : v # Gate!None
<1>1. {Gate!normalize_provenance(tokens[Gate!Aliases[f][i]], f) : i \in DOMAIN Gate!Aliases[f]}
      = Heard(tokens, f)
  BY DEF Heard, Names
<1>2. \A S : Gate!Cardinality(S) = Cardinality(S)
  BY DEF Gate!Cardinality, Cardinality
<1> QED BY <1>1, <1>2 DEF Gate!provenance_value

LEMMA FieldIsSaid ==
  ASSUME NEW f \in FieldNames, NEW v \in Values, NEW tokens, Says(tokens[First(f)], f, v),
         \A n \in Names(f) : Says(tokens[n], f, v) \/ tokens[n] = Gate!Absent
  PROVE  Gate!provenance_value(tokens, f) = Gate!Some(v)
<1> DEFINE said == Heard(tokens, f)
<1>1. \A n \in Names(f) : Gate!normalize_provenance(tokens[n], f) \in {Gate!Some(v), Gate!None}
  BY SaidIsRead, SilentIsNone DEF Silent
<1>2. Gate!normalize_provenance(tokens[First(f)], f) = Gate!Some(v) /\ First(f) \in Names(f)
  BY SaidIsRead, NamesFit
<1>3. said \subseteq {Gate!Some(v), Gate!None} /\ Gate!Some(v) \in said
  BY <1>1, <1>2 DEF Heard
<1>4. Gate!Error \notin said /\ ~(said \subseteq {Gate!None}) /\ said \ {Gate!None} \subseteq {Gate!Some(v)}
  BY <1>3, Readings
<1>5. ~(Cardinality(said \ {Gate!None}) > 1)
  BY <1>4, AtMostOneCounts
<1>6. (CHOOSE w \in said : w # Gate!None) = Gate!Some(v)
  BY <1>3, Readings
<1> QED BY <1>4, <1>5, <1>6, HeardTogether

LEMMA FieldIsSilent ==
  ASSUME NEW f \in FieldNames, NEW tokens, \A n \in Names(f) : Silent(tokens[n], f)
  PROVE  Gate!provenance_value(tokens, f) = Gate!None
<1> DEFINE said == Heard(tokens, f)
<1>1. said \subseteq {Gate!None}
  BY SilentIsNone DEF Heard
<1>2. Gate!Error \notin said /\ said \ {Gate!None} \subseteq {Gate!None}
  BY <1>1, Readings
<1>3. ~(Cardinality(said \ {Gate!None}) > 1)
  BY <1>2, AtMostOneCounts
<1> QED BY <1>1, <1>2, <1>3, HeardTogether

(* A padded count of threads, and two names that disagree.                 *)
LEMMA PaddedCount ==
  ASSUME NEW tokens, tokens["rayon_threads"] = Gate!Token("padded", "one")
  PROVE  Gate!provenance_value(tokens, "rayon_threads") = Gate!Error
<1>1. "rayon_threads" \in Names("rayon_threads") /\ "rayon_threads" \in FieldNames
  BY NameSets DEF FieldNames
<1>2. tokens["rayon_threads"].form = "padded"
  BY DEF Gate!Token
<1>3. Gate!normalize_provenance(tokens["rayon_threads"], "rayon_threads") = Gate!Error
  BY <1>2 DEF Gate!normalize_provenance, Gate!integer
<1>4. Gate!Error \in Heard(tokens, "rayon_threads")
  BY <1>1, <1>3 DEF Heard
<1> QED BY <1>1, <1>4, HeardTogether

LEMMA NamesDisagree ==
  ASSUME NEW tokens, NEW v \in Values, NEW w \in Values, v # w,
         Says(tokens["compiler"], "compiler", v), Says(tokens["rustc"], "compiler", w)
  PROVE  Gate!provenance_value(tokens, "compiler") = Gate!Error
<1> DEFINE said == Heard(tokens, "compiler")
<1>1. "compiler" \in FieldNames /\ Names("compiler") = {"compiler", "rustc"}
  BY NameSets DEF FieldNames
<1>2. /\ Gate!normalize_provenance(tokens["compiler"], "compiler") = Gate!Some(v)
      /\ Gate!normalize_provenance(tokens["rustc"], "compiler") = Gate!Some(w)
  BY <1>1, SaidIsRead
<1>3. said = {Gate!Some(v), Gate!Some(w)}
  BY <1>1, <1>2 DEF Heard
<1>4. said \ {Gate!None} = said /\ Gate!Some(v) # Gate!Some(w)
  BY <1>3, Readings
<1>5. IsFiniteSet(said)
  <2>1. IsFiniteSet({Gate!Some(v)}) /\ IsFiniteSet({Gate!Some(w)})
    BY FS_Singleton
  <2>2. said = {Gate!Some(v)} \cup {Gate!Some(w)}
    BY <1>3
  <2> QED BY <2>1, <2>2, FS_Union
<1>6. Cardinality(said \ {Gate!None}) > 1
  <2> SUFFICES ASSUME ~(Cardinality(said) > 1) PROVE FALSE
    BY <1>4
  <2>1. \A x, y \in said : x = y
    BY <1>5, AtMostOne
  <2> QED BY <1>3, <1>4, <2>1
<1> QED BY <1>1, <1>6, HeardTogether

-----------------------------------------------------------------------------
(* The rows of a case and the conditions they were measured under.         *)

Forms == {"plain", "padded", "zeros", "number", "bool"}
Tokens == {Gate!Absent, NullToken, Unknown} \cup {Gate!Token(form, v) : form \in Forms, v \in Values}
GateRows == [pace : Nat, tokens : [Gate!Names -> Tokens], pattern : Values, speedup : {120, 80, Gate!NotGiven}]
Truths == [conditions : [FieldNames -> Values], said : SUBSET FieldNames, spoiled : BOOLEAN]

(* The tokens say the conditions that are said, and nothing else.          *)
Tells(tokens, t) ==
  \A f \in FieldNames :
    IF f \in t.said
    THEN /\ Says(tokens[First(f)], f, t.conditions[f])
         /\ \A n \in Names(f) : Says(tokens[n], f, t.conditions[f]) \/ tokens[n] = Gate!Absent
    ELSE \A n \in Names(f) : Silent(tokens[n], f)

Malformed(row) == row.pace = 0 \/ \E f \in FieldNames : Gate!provenance_value(row.tokens, f) = Gate!Error

(* Rows that were not spoiled tell the truth; spoiled ones cannot be read. *)
Cell(q, t) ==
  q # <<>> => IF t.spoiled THEN Len(q) > 1 \/ Malformed(q[1])
              ELSE Len(q) = 1 /\ q[1].pace > 0 /\ Tells(q[1].tokens, t)

GateInv ==
  /\ flags \in Gate!Commands
  /\ rows \in [Gate!Sides -> [Gate!Cases -> Seq(GateRows)]]
  /\ truth \in [Gate!Sides -> [Gate!Cases -> Truths]]
  /\ \A s \in Gate!Sides, c \in Gate!Cases : Cell(rows[s][c], truth[s][c])

LEMMA PacesCount ==
  /\ GatePaces \subseteq Nat /\ 0 \notin GatePaces /\ 100 \in GatePaces
  /\ StreamCases \subseteq Gate!Cases /\ \A c \in Gate!Cases : Limit[c] \in Nat
<1>1. Gate!GateAssumption
  BY GateFits
<1> QED BY <1>1 DEF Gate!GateAssumption

LEMMA GoodTells == Gate!Good \in GateRows /\ Gate!Usual \in Truths /\ Tells(Gate!GoodTokens, Gate!Usual)
<1>1. Gate!GoodTokens \in [Gate!Names -> Tokens]
  BY DEF Gate!GoodTokens, Tokens, Forms, Values
<1>2. Gate!Good \in GateRows
  BY <1>1 DEF Gate!Good, GateRows, Values
<1>3. Gate!Usual \in Truths
  BY AliasValues DEF Gate!Usual, Truths, Values
<1>4. ASSUME NEW f \in FieldNames PROVE Says(Gate!Token("plain", "one"), f, "one")
  BY DEF Says, Spellings
<1>5. \A n \in Gate!Names : Gate!GoodTokens[n] \in {Gate!Token("plain", "one"), Gate!Absent}
  BY DEF Gate!GoodTokens
<1>6. \A f \in FieldNames : First(f) \in Gate!Names /\ Gate!GoodTokens[First(f)] = Gate!Token("plain", "one")
  BY NamesFit, AliasValues DEF Gate!GoodTokens, First
<1>7. Gate!Usual.said = FieldNames /\ \A f \in FieldNames : Gate!Usual.conditions[f] = "one"
  BY AliasValues DEF Gate!Usual
<1>8. ASSUME NEW f \in FieldNames
      PROVE  /\ Says(Gate!GoodTokens[First(f)], f, "one")
             /\ \A n \in Names(f) : Says(Gate!GoodTokens[n], f, "one") \/ Gate!GoodTokens[n] = Gate!Absent
  BY <1>4, <1>5, <1>6, NamesFit
<1>9. Tells(Gate!GoodTokens, Gate!Usual)
  BY <1>7, <1>8 DEF Tells
<1> QED BY <1>2, <1>3, <1>9

LEMMA GateInit == Gate!Init => GateInv
<1> SUFFICES ASSUME Gate!Init PROVE GateInv
  OBVIOUS
<1>1. <<Gate!Good>> \in Seq(GateRows) /\ Len(<<Gate!Good>>) = 1 /\ <<Gate!Good>>[1] = Gate!Good
  BY GoodTells
<1>2. Gate!Good.pace = 100 /\ Gate!Good.tokens = Gate!GoodTokens /\ Gate!Usual.spoiled = FALSE
  BY DEF Gate!Good, Gate!Usual
<1>3. Cell(<<Gate!Good>>, Gate!Usual)
  BY <1>1, <1>2, GoodTells DEF Cell
<1>4. \A s \in Gate!Sides, c \in Gate!Cases : rows[s][c] = <<Gate!Good>> /\ truth[s][c] = Gate!Usual
  BY DEF Gate!Init
<1> QED BY <1>1, <1>3, <1>4, GoodTells DEF Gate!Init, GateInv

(* One case's rows of one side, and what is true of them, are replaced.    *)
LEMMA CellReplaced ==
  ASSUME GateInv, UNCHANGED flags, NEW s \in Gate!Sides, NEW c \in Gate!Cases,
         NEW q \in Seq(GateRows), NEW t \in Truths, Cell(q, t),
         rows' = [rows EXCEPT ![s] = [rows[s] EXCEPT ![c] = q]],
         truth' = [truth EXCEPT ![s] = [truth[s] EXCEPT ![c] = t]]
  PROVE  GateInv'
<1>1. /\ rows' \in [Gate!Sides -> [Gate!Cases -> Seq(GateRows)]]
      /\ truth' \in [Gate!Sides -> [Gate!Cases -> Truths]]
  BY DEF GateInv
<1>2. ASSUME NEW r \in Gate!Sides, NEW d \in Gate!Cases
      PROVE  Cell(rows'[r][d], truth'[r][d])
  <2>1. CASE r = s /\ d = c
    BY <2>1 DEF GateInv
  <2>2. CASE ~(r = s /\ d = c)
    <3>1. rows'[r][d] = rows[r][d] /\ truth'[r][d] = truth[r][d]
      BY <2>2 DEF GateInv
    <3> QED BY <3>1 DEF GateInv
  <2> QED BY <2>1, <2>2
<1> QED BY <1>1, <1>2 DEF GateInv

LEMMA CellOf ==
  ASSUME GateInv, NEW s \in Gate!Sides, NEW c \in Gate!Cases
  PROVE  /\ rows[s][c] \in Seq(GateRows) /\ truth[s][c] \in Truths
         /\ rows[s][c] # <<>> => rows[s][c][1] \in GateRows
         /\ rows[s][c] # <<>> /\ ~truth[s][c].spoiled =>
              Len(rows[s][c]) = 1 /\ rows[s][c][1].pace > 0 /\ Tells(rows[s][c][1].tokens, truth[s][c])
<1>1. rows[s][c] \in Seq(GateRows) /\ truth[s][c] \in Truths /\ Cell(rows[s][c], truth[s][c])
  BY DEF GateInv
<1>2. rows[s][c] # <<>> => rows[s][c][1] \in GateRows
  BY <1>1
<1>3. truth[s][c].spoiled \in BOOLEAN
  BY <1>1 DEF Truths
<1> QED BY <1>1, <1>2, <1>3 DEF Cell

(* The one row of a case that is not spoiled is replaced.                  *)
LEMMA RowReplaced ==
  ASSUME GateInv, UNCHANGED flags, NEW s \in Gate!Sides, NEW c \in Gate!Cases,
         rows[s][c] # <<>>, ~truth[s][c].spoiled,
         NEW r \in GateRows, NEW t \in Truths,
         IF t.spoiled THEN Malformed(r) ELSE r.pace > 0 /\ Tells(r.tokens, t),
         rows' = [rows EXCEPT ![s][c][1] = r],
         truth' = [truth EXCEPT ![s] = [truth[s] EXCEPT ![c] = t]]
  PROVE  GateInv'
<1> DEFINE q == [rows[s][c] EXCEPT ![1] = r]
<1>1. rows[s][c] \in Seq(GateRows) /\ Len(rows[s][c]) = 1
  BY CellOf
<1>2. q \in Seq(GateRows) /\ Len(q) = 1 /\ q[1] = r
  BY <1>1
<1>3. Cell(q, t)
  <2> HIDE DEF q
  <2> QED BY <1>2 DEF Cell
<1>4. rows' = [rows EXCEPT ![s] = [rows[s] EXCEPT ![c] = q]]
  OBVIOUS
<1> HIDE DEF q
<1> QED BY <1>2, <1>3, <1>4, CellReplaced

LEMMA TruthStays ==
  ASSUME GateInv, UNCHANGED truth, NEW s \in Gate!Sides, NEW c \in Gate!Cases
  PROVE  truth' = [truth EXCEPT ![s] = [truth[s] EXCEPT ![c] = truth[s][c]]]
BY DEF GateInv

LEMMA RowEdited ==
  ASSUME NEW r \in GateRows
  PROVE  /\ \A p \in Nat : [r EXCEPT !.pace = p] \in GateRows /\ [r EXCEPT !.pace = p].pace = p
                           /\ [r EXCEPT !.pace = p].tokens = r.tokens
         /\ \A x \in {120, 80, Gate!NotGiven} :
              [r EXCEPT !.speedup = x] \in GateRows /\ [r EXCEPT !.speedup = x].pace = r.pace
              /\ [r EXCEPT !.speedup = x].tokens = r.tokens
         /\ [r EXCEPT !.pattern = "other"] \in GateRows /\ [r EXCEPT !.pattern = "other"].pace = r.pace
              /\ [r EXCEPT !.pattern = "other"].tokens = r.tokens
<1>1. "other" \in Values
  BY DEF Values
<1> QED BY <1>1 DEF GateRows

LEMMA TokensEdited ==
  ASSUME NEW r \in GateRows, NEW x \in [Gate!Names -> Tokens]
  PROVE  /\ [r EXCEPT !.tokens = x] \in GateRows
         /\ [r EXCEPT !.tokens = x].pace = r.pace /\ [r EXCEPT !.tokens = x].tokens = x
BY DEF GateRows

LEMMA RemeasureKeeps ==
  ASSUME GateInv, NEW s \in Gate!Sides, NEW c \in Gate!Cases, ~truth[s][c].spoiled, Gate!Remeasure(s, c)
  PROVE  GateInv'
<1> DEFINE row == rows[s][c][1]
           t == truth[s][c]
<1>1. rows[s][c] # <<>> /\ UNCHANGED <<flags, truth>>
  BY DEF Gate!Remeasure, Gate!Editing
<1>2. row \in GateRows /\ t \in Truths /\ row.pace > 0 /\ Tells(row.tokens, t)
  BY <1>1, CellOf
<1>3. truth' = [truth EXCEPT ![s] = [truth[s] EXCEPT ![c] = t]]
  BY <1>1, TruthStays
<1>4. \E r \in GateRows : rows' = [rows EXCEPT ![s][c][1] = r] /\ r.pace > 0 /\ Tells(r.tokens, t)
  <2>1. ASSUME NEW p \in GatePaces, rows' = [rows EXCEPT ![s][c][1].pace = p]
        PROVE  rows' = [rows EXCEPT ![s][c][1] = [row EXCEPT !.pace = p]]
    BY <2>1
  <2>2. ASSUME NEW x \in {80, Gate!NotGiven}, rows' = [rows EXCEPT ![s][c][1].speedup = x]
        PROVE  rows' = [rows EXCEPT ![s][c][1] = [row EXCEPT !.speedup = x]]
    BY <2>2
  <2>3. CASE \E p \in GatePaces : rows' = [rows EXCEPT ![s][c][1].pace = p]
    <3>1. PICK p \in GatePaces : rows' = [rows EXCEPT ![s][c][1].pace = p]
      BY <2>3
    <3>2. p \in Nat /\ p > 0
      BY PacesCount
    <3> HIDE DEF row, t
    <3>3. /\ [row EXCEPT !.pace = p] \in GateRows /\ [row EXCEPT !.pace = p].pace > 0
          /\ Tells([row EXCEPT !.pace = p].tokens, t)
      BY <1>2, <3>2, RowEdited
    <3> QED BY <2>1, <3>1, <3>3
  <2>4. CASE \E x \in {80, Gate!NotGiven} : rows' = [rows EXCEPT ![s][c][1].speedup = x]
    <3>1. PICK x \in {80, Gate!NotGiven} : rows' = [rows EXCEPT ![s][c][1].speedup = x]
      BY <2>4
    <3> HIDE DEF row, t
    <3>2. x \in {120, 80, Gate!NotGiven}
      OBVIOUS
    <3>3. /\ [row EXCEPT !.speedup = x] \in GateRows /\ [row EXCEPT !.speedup = x].pace = row.pace
          /\ [row EXCEPT !.speedup = x].tokens = row.tokens
      BY <1>2, <3>2, RowEdited, Zenon
    <3> QED BY <1>2, <2>2, <3>1, <3>3
  <2> QED BY <2>3, <2>4 DEF Gate!Remeasure
<1>5. PICK r \in GateRows : rows' = [rows EXCEPT ![s][c][1] = r] /\ r.pace > 0 /\ Tells(r.tokens, t)
  BY <1>4
<1> QED BY <1>1, <1>2, <1>3, <1>5, RowReplaced

(* Another condition changes every token that says the field.              *)
LEMMA ElsewhereTells ==
  ASSUME NEW tokens \in [Gate!Names -> Tokens], NEW t \in Truths, Tells(tokens, t), NEW f \in t.said,
         NEW new, new = [n \in Gate!Names |-> IF Gate!FieldOf(n) = f /\ tokens[n].form # "absent"
                                              THEN [tokens[n] EXCEPT !.value = "other"] ELSE tokens[n]],
         NEW u, u = [t EXCEPT !.conditions = [t.conditions EXCEPT ![f] = "other"]]
  PROVE  new \in [Gate!Names -> Tokens] /\ u \in Truths /\ u.spoiled = t.spoiled /\ Tells(new, u)
<1>1. f \in FieldNames /\ t.conditions \in [FieldNames -> Values]
  BY DEF Truths
<1>2. /\ u \in Truths /\ u.spoiled = t.spoiled /\ u.said = t.said
      /\ \A g \in FieldNames : u.conditions[g] = IF g = f THEN "other" ELSE t.conditions[g]
  BY <1>1 DEF Truths, Values
<1>3. ASSUME NEW form, NEW v
      PROVE  [Gate!Token(form, v) EXCEPT !.value = "other"] = Gate!Token(form, "other")
             /\ Gate!Token(form, v).form = form
  BY DEF Gate!Token
<1>4. ASSUME NEW n \in Names(f), Says(tokens[n], f, t.conditions[f])
      PROVE  Says(new[n], f, "other") /\ new[n] \in Tokens
  <2>1. PICK form \in Spellings(f) : tokens[n] = Gate!Token(form, t.conditions[f])
    BY <1>4 DEF Says
  <2>2. form \in Forms /\ form # "absent"
    BY <1>1 DEF Spellings, Forms, FieldNames
  <2>3. n \in Gate!Names /\ Gate!FieldOf(n) = f
    BY <1>1, NamesFit
  <2>4. new[n] = Gate!Token(form, "other")
    BY <1>3, <2>1, <2>2, <2>3
  <2> QED BY <2>2, <2>4 DEF Says, Tokens, Values
<1>5. ASSUME NEW n \in Names(f), tokens[n] = Gate!Absent
      PROVE  new[n] = Gate!Absent
  <2>1. n \in Gate!Names /\ tokens[n].form = "absent"
    BY <1>1, <1>5, NamesFit DEF Gate!Absent
  <2> QED BY <1>5, <2>1
<1>6. ASSUME NEW g \in FieldNames, g # f, NEW n \in Names(g)
      PROVE  new[n] = tokens[n]
  BY <1>6, NamesFit
<1>7. /\ Says(tokens[First(f)], f, t.conditions[f])
      /\ \A n \in Names(f) : Says(tokens[n], f, t.conditions[f]) \/ tokens[n] = Gate!Absent
  BY <1>1 DEF Tells
<1>8. ASSUME NEW n \in Gate!Names PROVE new[n] \in Tokens
  <2>1. CASE Gate!FieldOf(n) = f
    <3>1. n \in Names(f)
      BY <2>1, NamesFit
    <3>2. Gate!Absent \in Tokens
      BY DEF Tokens
    <3> QED BY <1>4, <1>5, <1>7, <3>1, <3>2
  <2>2. CASE Gate!FieldOf(n) # f
    BY <2>2
  <2> QED BY <2>1, <2>2
<1>9. Tells(new, u)
  <2> SUFFICES ASSUME NEW g \in FieldNames
               PROVE  IF g \in t.said
                      THEN /\ Says(new[First(g)], g, u.conditions[g])
                           /\ \A n \in Names(g) : Says(new[n], g, u.conditions[g]) \/ new[n] = Gate!Absent
                      ELSE \A n \in Names(g) : Silent(new[n], g)
    BY <1>2 DEF Tells
  <2>1. First(g) \in Names(g)
    BY NamesFit
  <2>2. CASE g = f
    BY <1>2, <1>4, <1>5, <1>7, <2>1, <2>2
  <2>3. CASE g # f
    <3>1. \A n \in Names(g) : new[n] = tokens[n]
      BY <1>6, <2>3
    <3>2. u.conditions[g] = t.conditions[g]
      BY <1>2, <2>3
    <3> QED BY <2>1, <3>1, <3>2 DEF Tells
  <2> QED BY <2>2, <2>3
<1>10. new \in [Gate!Names -> Tokens]
  BY <1>8
<1> QED BY <1>2, <1>9, <1>10

LEMMA ElsewhereKeeps ==
  ASSUME GateInv, NEW s \in Gate!Sides, NEW c \in Gate!Cases, ~truth[s][c].spoiled,
         Gate!MeasureElsewhere(s, c)
  PROVE  GateInv'
<1> DEFINE row == rows[s][c][1]
           t == truth[s][c]
<1>1. rows[s][c] # <<>> /\ UNCHANGED flags
  BY DEF Gate!MeasureElsewhere, Gate!Editing
<1>2. row \in GateRows /\ t \in Truths /\ row.pace > 0 /\ Tells(row.tokens, t)
  BY <1>1, CellOf
<1>3. CASE \E f \in t.said :
             /\ rows' = [rows EXCEPT ![s][c][1].tokens =
                           [n \in Gate!Names |-> IF Gate!FieldOf(n) = f /\ @[n].form # "absent"
                                                 THEN [@[n] EXCEPT !.value = "other"] ELSE @[n]]]
             /\ truth' = [truth EXCEPT ![s][c].conditions[f] = "other"]
  <2>1. PICK f \in t.said :
             /\ rows' = [rows EXCEPT ![s][c][1].tokens =
                           [n \in Gate!Names |-> IF Gate!FieldOf(n) = f /\ @[n].form # "absent"
                                                 THEN [@[n] EXCEPT !.value = "other"] ELSE @[n]]]
             /\ truth' = [truth EXCEPT ![s][c].conditions[f] = "other"]
    BY <1>3
  <2> DEFINE new == [n \in Gate!Names |-> IF Gate!FieldOf(n) = f /\ row.tokens[n].form # "absent"
                                          THEN [row.tokens[n] EXCEPT !.value = "other"] ELSE row.tokens[n]]
             u == [t EXCEPT !.conditions = [t.conditions EXCEPT ![f] = "other"]]
             r == [row EXCEPT !.tokens = new]
  <2>2. rows' = [rows EXCEPT ![s][c][1] = r]
    BY <2>1
  <2>3. truth' = [truth EXCEPT ![s] = [truth[s] EXCEPT ![c] = u]]
    BY <2>1
  <2>4. new \in [Gate!Names -> Tokens] /\ u \in Truths /\ u.spoiled = t.spoiled /\ Tells(new, u)
    <3>1. row.tokens \in [Gate!Names -> Tokens]
      BY <1>2 DEF GateRows
    <3> HIDE DEF row, t
    <3> QED BY <1>2, <3>1, ElsewhereTells
  <2>5. r \in GateRows /\ r.pace > 0 /\ r.tokens = new
    <3> HIDE DEF row, t, new
    <3>1. r \in GateRows /\ r.pace = row.pace /\ r.tokens = new
      BY <1>2, <2>4, TokensEdited, Zenon
    <3> QED BY <1>2, <3>1
  <2> HIDE DEF r, u, new
  <2>6. ~u.spoiled /\ Tells(r.tokens, u)
    BY <2>4, <2>5
  <2> QED BY <1>1, <2>2, <2>3, <2>4, <2>5, <2>6, RowReplaced
<1>4. CASE rows' = [rows EXCEPT ![s][c][1].pattern = "other"] /\ UNCHANGED truth
  <2> DEFINE r == [row EXCEPT !.pattern = "other"]
  <2>1. rows' = [rows EXCEPT ![s][c][1] = r]
    BY <1>4
  <2>2. truth' = [truth EXCEPT ![s] = [truth[s] EXCEPT ![c] = t]]
    BY <1>4, TruthStays
  <2>3. r \in GateRows /\ r.pace > 0 /\ Tells(r.tokens, t)
    <3> HIDE DEF row, t
    <3> QED BY <1>2, RowEdited
  <2> HIDE DEF r
  <2> QED BY <1>1, <1>2, <2>1, <2>2, <2>3, RowReplaced
<1> QED BY <1>3, <1>4 DEF Gate!MeasureElsewhere

LEMMA RespellKeeps ==
  ASSUME GateInv, NEW s \in Gate!Sides, NEW c \in Gate!Cases, ~truth[s][c].spoiled, Gate!Respell(s, c)
  PROVE  GateInv'
<1> DEFINE row == rows[s][c][1]
           t == truth[s][c]
<1>1. rows[s][c] # <<>> /\ UNCHANGED <<flags, truth>>
  BY DEF Gate!Respell, Gate!Editing
<1>2. row \in GateRows /\ t \in Truths /\ row.pace > 0 /\ Tells(row.tokens, t)
  BY <1>1, CellOf
<1>3. PICK n, form :
        /\ n \in Gate!Names /\ form \in Spellings(Gate!FieldOf(n)) /\ Gate!FieldOf(n) \in t.said
        /\ rows' = [rows EXCEPT ![s][c][1].tokens[n] =
                      Gate!Token(form, t.conditions[Gate!FieldOf(n)])]
  <2> DEFINE more(f) == CASE f = "rayon_threads" -> {"zeros", "number"}
                          [] f = "override_honored" -> {"padded", "bool"}
                          [] OTHER -> {"padded"}
  <2>1. \A f : more(f) \subseteq Spellings(f)
    BY DEF Spellings
  <2>2. \E n \in Gate!Names : /\ Gate!FieldOf(n) \in t.said
                              /\ \E form \in more(Gate!FieldOf(n)) :
                                   rows' = [rows EXCEPT ![s][c][1].tokens[n] =
                                              Gate!Token(form, t.conditions[Gate!FieldOf(n)])]
    BY DEF Gate!Respell
  <2> HIDE DEF more
  <2> QED BY <2>1, <2>2
<1> DEFINE f == Gate!FieldOf(n)
           token == Gate!Token(form, t.conditions[f])
           new == [row.tokens EXCEPT ![n] = token]
           r == [row EXCEPT !.tokens = new]
<1>4. rows' = [rows EXCEPT ![s][c][1] = r]
  BY <1>3
<1>5. f \in FieldNames /\ n \in Names(f) /\ n \in Gate!Names /\ f \in t.said
  BY <1>3, NamesFit
<1>6. t.conditions[f] \in Values /\ row.tokens \in [Gate!Names -> Tokens]
  BY <1>2, <1>5 DEF Truths, GateRows
<1>7. form \in Forms
  BY <1>3, <1>5 DEF Spellings, Forms, FieldNames
<1>8. token \in Tokens /\ Says(token, f, t.conditions[f])
  BY <1>3, <1>6, <1>7 DEF Tokens, Says
<1> HIDE DEF token, row, t, f
<1>9. new \in [Gate!Names -> Tokens] /\ new[n] = token /\ \A m \in Gate!Names : m # n => new[m] = row.tokens[m]
  BY <1>5, <1>6, <1>8
<1> HIDE DEF new
<1>10. Tells(new, t)
  <2> SUFFICES ASSUME NEW g \in FieldNames
               PROVE  IF g \in t.said
                      THEN /\ Says(new[First(g)], g, t.conditions[g])
                           /\ \A m \in Names(g) : Says(new[m], g, t.conditions[g]) \/ new[m] = Gate!Absent
                      ELSE \A m \in Names(g) : Silent(new[m], g)
    BY DEF Tells
  <2>1. First(g) \in Names(g) /\ \A m \in Names(g) : m \in Gate!Names
    BY NamesFit
  <2>2. CASE g = f
    BY <1>2, <1>5, <1>8, <1>9, <2>1, <2>2 DEF Tells
  <2>3. CASE g # f
    <3>1. n \notin Names(g)
      BY <1>5, <2>3, NamesFit DEF f
    <3>2. \A m \in Names(g) : new[m] = row.tokens[m]
      BY <1>9, <2>1, <3>1
    <3> QED BY <1>2, <2>1, <3>2 DEF Tells
  <2> QED BY <2>2, <2>3
<1>11. r \in GateRows /\ r.pace > 0 /\ r.tokens = new
  <2>1. r \in GateRows /\ r.pace = row.pace /\ r.tokens = new
    BY <1>2, <1>9, TokensEdited, Zenon
  <2> QED BY <1>2, <2>1
<1> HIDE DEF r
<1>12. truth' = [truth EXCEPT ![s] = [truth[s] EXCEPT ![c] = t]]
  BY <1>1, TruthStays DEF t
<1>13. ~t.spoiled /\ Tells(r.tokens, t)
  BY <1>10, <1>11 DEF t
<1> QED BY <1>1, <1>2, <1>4, <1>11, <1>12, <1>13, RowReplaced

LEMMA ForgetKeeps ==
  ASSUME GateInv, NEW s \in Gate!Sides, NEW c \in Gate!Cases, ~truth[s][c].spoiled, Gate!Forget(s, c)
  PROVE  GateInv'
<1> DEFINE row == rows[s][c][1]
           t == truth[s][c]
<1>1. rows[s][c] # <<>> /\ UNCHANGED flags
  BY DEF Gate!Forget, Gate!Editing
<1>2. row \in GateRows /\ t \in Truths /\ row.pace > 0 /\ Tells(row.tokens, t)
  BY <1>1, CellOf
<1>3. PICK f \in t.said, how \in {Gate!Absent, [form |-> "null"], Gate!Token("plain", Gate!UNKNOWN)} :
        /\ how = Gate!Token("plain", Gate!UNKNOWN) => f \in {"compiler", "stream_io_mode"}
        /\ rows' = [rows EXCEPT ![s][c][1].tokens =
                      [n \in Gate!Names |-> IF Gate!FieldOf(n) # f THEN @[n]
                                            ELSE IF n = Gate!Aliases[f][1] THEN how ELSE Gate!Absent]]
        /\ truth' = [truth EXCEPT ![s][c].said = @ \ {f}]
  BY DEF Gate!Forget
<1> DEFINE new == [n \in Gate!Names |-> IF Gate!FieldOf(n) # f THEN row.tokens[n]
                                        ELSE IF n = Gate!Aliases[f][1] THEN how ELSE Gate!Absent]
           u == [t EXCEPT !.said = t.said \ {f}]
           r == [row EXCEPT !.tokens = new]
<1>4. rows' = [rows EXCEPT ![s][c][1] = r]
  BY <1>3
<1>5. truth' = [truth EXCEPT ![s] = [truth[s] EXCEPT ![c] = u]]
  BY <1>3
<1>6. f \in FieldNames /\ row.tokens \in [Gate!Names -> Tokens]
  BY <1>2 DEF Truths, GateRows
<1>7. /\ how \in Tokens /\ Gate!Absent \in Tokens
      /\ Silent(how, f) /\ Silent(Gate!Absent, f)
  BY <1>3 DEF Tokens, NullToken, Unknown, Silent
<1> HIDE DEF row
<1>8. u \in Truths /\ u.spoiled = t.spoiled /\ u.said = t.said \ {f} /\ u.conditions = t.conditions
  <2> HIDE DEF t
  <2> QED BY <1>2 DEF Truths
<1>9. new \in [Gate!Names -> Tokens]
  BY <1>6, <1>7
<1>10. Tells(new, u)
  <2> HIDE DEF u, t
  <2> SUFFICES ASSUME NEW g \in FieldNames
               PROVE  IF g \in u.said
                      THEN /\ Says(new[First(g)], g, t.conditions[g])
                           /\ \A m \in Names(g) : Says(new[m], g, t.conditions[g]) \/ new[m] = Gate!Absent
                      ELSE \A m \in Names(g) : Silent(new[m], g)
    BY <1>8 DEF Tells
  <2>1. First(g) \in Names(g) /\ \A m \in Names(g) : m \in Gate!Names /\ Gate!FieldOf(m) = g
    BY NamesFit
  <2>2. CASE g = f
    <3>1. \A m \in Names(g) : new[m] \in {how, Gate!Absent}
      BY <2>1, <2>2
    <3> QED BY <1>7, <1>8, <2>2, <3>1
  <2>3. CASE g # f
    <3>1. \A m \in Names(g) : new[m] = row.tokens[m]
      BY <2>1, <2>3
    <3> HIDE DEF new
    <3>2. g \in u.said <=> g \in t.said
      BY <1>8, <2>3
    <3> QED BY <1>2, <2>1, <3>1, <3>2 DEF Tells
  <2> QED BY <2>2, <2>3
<1> HIDE DEF new, u, t
<1>11. r \in GateRows /\ r.pace > 0 /\ r.tokens = new
  <2>1. r \in GateRows /\ r.pace = row.pace /\ r.tokens = new
    BY <1>2, <1>9, TokensEdited, Zenon
  <2> QED BY <1>2, <2>1
<1> HIDE DEF r
<1>12. ~u.spoiled /\ Tells(r.tokens, u)
  BY <1>8, <1>10, <1>11 DEF t
<1> QED BY <1>1, <1>4, <1>5, <1>8, <1>11, <1>12, RowReplaced

LEMMA RowAppended ==
  ASSUME NEW S, NEW q \in Seq(S), Len(q) = 1, NEW r \in S
  PROVE  Append(q, r) \in Seq(S) /\ Len(Append(q, r)) = 2
<1>1. Append(q, r) \in Seq(S)
  OBVIOUS
<1>2. Len(Append(q, r)) = Len(q) + 1
  OBVIOUS
<1> QED BY <1>1, <1>2

LEMMA SpoilKeeps ==
  ASSUME GateInv, NEW s \in Gate!Sides, NEW c \in Gate!Cases, ~truth[s][c].spoiled, Gate!Spoil(s, c)
  PROVE  GateInv'
<1> DEFINE row == rows[s][c][1]
           t == truth[s][c]
           u == [t EXCEPT !.spoiled = TRUE]
           other == IF t.conditions["compiler"] = "one" THEN "other" ELSE "one"
<1>1. rows[s][c] # <<>> /\ UNCHANGED flags /\ truth' = [truth EXCEPT ![s][c].spoiled = TRUE]
  BY DEF Gate!Spoil, Gate!Editing
<1>2. row \in GateRows /\ t \in Truths /\ row.pace > 0 /\ Tells(row.tokens, t)
  BY <1>1, CellOf
<1>3. truth' = [truth EXCEPT ![s] = [truth[s] EXCEPT ![c] = u]]
  BY <1>1
<1>4. u \in Truths /\ u.spoiled
  <2> HIDE DEF t
  <2> QED BY <1>2 DEF Truths
<1>5. row.tokens \in [Gate!Names -> Tokens]
  BY <1>2 DEF GateRows
<1>6. /\ {"rayon_threads", "compiler", "rustc"} \subseteq Gate!Names
      /\ {"rayon_threads", "compiler"} \subseteq FieldNames
  BY NameSets, NamesFit DEF FieldNames
<1>7. ASSUME NEW r \in GateRows, Malformed(r), rows' = [rows EXCEPT ![s][c][1] = r]
      PROVE  GateInv'
  <2> HIDE DEF u
  <2> QED BY <1>1, <1>3, <1>4, <1>7, RowReplaced
<1>8. CASE rows' = [rows EXCEPT ![s][c][1].pace = 0]
  <2> DEFINE r == [row EXCEPT !.pace = 0]
  <2>1. rows' = [rows EXCEPT ![s][c][1] = r]
    BY <1>8
  <2>2. r \in GateRows /\ r.pace = 0
    <3> HIDE DEF row
    <3>1. row \in GateRows /\ 0 \in Nat
      BY <1>2
    <3> QED BY <3>1, RowEdited, Zenon
  <2> HIDE DEF r
  <2> QED BY <1>7, <2>1, <2>2 DEF Malformed
<1>9. CASE rows' = [rows EXCEPT ![s][c][1].tokens["rayon_threads"] = Gate!Token("padded", "one")]
  <2> DEFINE new == [row.tokens EXCEPT !["rayon_threads"] = Gate!Token("padded", "one")]
             r == [row EXCEPT !.tokens = new]
  <2>1. rows' = [rows EXCEPT ![s][c][1] = r]
    BY <1>9
  <2>2. Gate!Token("padded", "one") \in Tokens
    BY DEF Tokens, Forms, Values
  <2> HIDE DEF row
  <2>3. new \in [Gate!Names -> Tokens] /\ new["rayon_threads"] = Gate!Token("padded", "one")
    BY <1>5, <1>6, <2>2
  <2> HIDE DEF new
  <2>4. r \in GateRows /\ r.tokens = new
    BY <1>2, <2>3, TokensEdited, Zenon
  <2> HIDE DEF r
  <2>5. Malformed(r)
    BY <1>6, <2>3, <2>4, PaddedCount DEF Malformed
  <2> QED BY <1>7, <2>1, <2>4, <2>5
<1>10. CASE rows' = [rows EXCEPT ![s][c] = Append(@, Gate!Good)]
  <2> DEFINE q == Append(rows[s][c], Gate!Good)
  <2>1. rows' = [rows EXCEPT ![s] = [rows[s] EXCEPT ![c] = q]]
    BY <1>10
  <2>2. rows[s][c] \in Seq(GateRows) /\ Len(rows[s][c]) = 1
    BY <1>1, CellOf
  <2>3. q \in Seq(GateRows) /\ Len(q) = 2
    <3>1. Gate!Good \in GateRows
      BY GoodTells
    <3> QED BY <2>2, <3>1, RowAppended, Zenon
  <2> HIDE DEF q, u
  <2>4. Cell(q, u)
    BY <1>4, <2>3 DEF Cell
  <2> QED BY <1>1, <1>3, <1>4, <2>1, <2>3, <2>4, CellReplaced
<1>11. CASE /\ "compiler" \in t.said
            /\ rows' = [rows EXCEPT ![s][c][1].tokens["rustc"] = Gate!Token("plain", other)]
  <2> DEFINE new == [row.tokens EXCEPT !["rustc"] = Gate!Token("plain", other)]
             r == [row EXCEPT !.tokens = new]
  <2>1. rows' = [rows EXCEPT ![s][c][1] = r]
    BY <1>11
  <2>2. t.conditions["compiler"] \in Values
    BY <1>2, <1>6 DEF Truths
  <2>3. other \in Values /\ other # t.conditions["compiler"]
    BY <2>2 DEF Values
  <2> HIDE DEF other
  <2>4. Gate!Token("plain", other) \in Tokens /\ Says(Gate!Token("plain", other), "compiler", other)
    BY <2>3 DEF Tokens, Forms, Says, Spellings
  <2>5. First("compiler") = "compiler"
    BY AliasValues DEF First
  <2>6. Says(row.tokens["compiler"], "compiler", t.conditions["compiler"])
    BY <1>2, <1>6, <1>11, <2>5 DEF Tells
  <2> HIDE DEF row
  <2>7. /\ new \in [Gate!Names -> Tokens] /\ new["rustc"] = Gate!Token("plain", other)
        /\ new["compiler"] = row.tokens["compiler"]
    BY <1>5, <1>6, <2>4
  <2> HIDE DEF new
  <2>8. r \in GateRows /\ r.tokens = new
    BY <1>2, <2>7, TokensEdited, Zenon
  <2> HIDE DEF r
  <2>9. Gate!provenance_value(new, "compiler") = Gate!Error
    BY <2>2, <2>3, <2>4, <2>6, <2>7, NamesDisagree
  <2>10. Malformed(r)
    BY <1>6, <2>8, <2>9 DEF Malformed
  <2> QED BY <1>7, <2>1, <2>8, <2>10
<1> QED BY <1>8, <1>9, <1>10, <1>11 DEF Gate!Spoil

LEMMA DropKeeps ==
  ASSUME GateInv, NEW s \in Gate!Sides, NEW c \in Gate!Cases, Gate!Drop(s, c)
  PROVE  GateInv'
<1>1. /\ UNCHANGED flags
      /\ rows' = [rows EXCEPT ![s] = [rows[s] EXCEPT ![c] = <<>>]]
      /\ truth' = [truth EXCEPT ![s] = [truth[s] EXCEPT ![c] = Gate!Usual]]
  BY DEF Gate!Drop, Gate!Editing
<1>2. <<>> \in Seq(GateRows) /\ Cell(<<>>, Gate!Usual)
  BY DEF Cell
<1> QED BY <1>1, <1>2, GoodTells, CellReplaced

LEMMA GateInductive == GateInv /\ [MCNext]_<<tool, vars, runVars, gateVars, abbaVars>> => GateInv'
<1> SUFFICES ASSUME GateInv, [MCNext]_<<tool, vars, runVars, gateVars, abbaVars>> PROVE GateInv'
  OBVIOUS
<1>1. Gate!Next \/ UNCHANGED gateVars
  BY DEF MCNext
<1>2. CASE Gate!Next
  <2>1. PICK s \in Gate!Sides, c \in Gate!Cases :
          \/ Gate!Drop(s, c)
          \/ /\ ~truth[s][c].spoiled
             /\ \/ Gate!Remeasure(s, c) \/ Gate!MeasureElsewhere(s, c) \/ Gate!Respell(s, c)
                \/ Gate!Forget(s, c) \/ Gate!Spoil(s, c)
    BY <1>2 DEF Gate!Next
  <2> QED BY <2>1, DropKeeps, RemeasureKeeps, ElsewhereKeeps, RespellKeeps, ForgetKeeps, SpoilKeeps
<1>3. CASE UNCHANGED gateVars
  BY <1>3 DEF gateVars, GateInv
<1> QED BY <1>1, <1>2, <1>3

-----------------------------------------------------------------------------
(* What the gate reads of a side.                                          *)

Spoken(t, f) == IF f \in t.said THEN Gate!Some(t.conditions[f]) ELSE Gate!None
ReadSide(s) == Gate!Held(s) # {} /\ \A c \in Gate!Held(s) : ~truth[s][c].spoiled
DeclaresStrict(s) == \A c \in Gate!Held(s) : Gate!Strict(c) \subseteq truth[s][c].said

LEMMA TruthIsRead ==
  ASSUME NEW row, NEW t \in Truths, Tells(row.tokens, t)
  PROVE  Gate!provenance(row) = [f \in FieldNames |-> Spoken(t, f)]
<1>1. ASSUME NEW f \in FieldNames PROVE Gate!provenance_value(row.tokens, f) = Spoken(t, f)
  <2>1. CASE f \in t.said
    <3>1. t.conditions[f] \in Values
      BY DEF Truths
    <3>2. /\ Says(row.tokens[First(f)], f, t.conditions[f])
          /\ \A n \in Names(f) : Says(row.tokens[n], f, t.conditions[f]) \/ row.tokens[n] = Gate!Absent
      BY <2>1 DEF Tells
    <3>3. Gate!provenance_value(row.tokens, f) = Gate!Some(t.conditions[f])
      BY <3>1, <3>2, FieldIsSaid
    <3> QED BY <2>1, <3>3 DEF Spoken
  <2>2. CASE f \notin t.said
    <3>1. \A n \in Names(f) : Silent(row.tokens[n], f)
      BY <2>2 DEF Tells
    <3> QED BY <2>2, <3>1, FieldIsSilent DEF Spoken
  <2> QED BY <2>1, <2>2
<1> QED BY <1>1, AliasValues DEF Gate!provenance

LEMMA MalformedIsRefused ==
  ASSUME NEW row \in GateRows
  PROVE  Malformed(row) <=> \/ ~Gate!positive_metric(row.pace)
                            \/ \E f \in Gate!Fields : Gate!provenance(row)[f] = Gate!Error
<1>1. \A f \in FieldNames : Gate!provenance(row)[f] = Gate!provenance_value(row.tokens, f)
  BY AliasValues DEF Gate!provenance
<1>2. row.pace \in Nat
  BY DEF GateRows
<1> QED BY <1>1, <1>2, AliasValues DEF Malformed, Gate!positive_metric

LEMMA SpokenValues ==
  ASSUME NEW t \in Truths, NEW f \in FieldNames
  PROVE  /\ Spoken(t, f) # Gate!Error
         /\ Spoken(t, f) = Gate!None <=> f \notin t.said
         /\ f \in t.said => Spoken(t, f).value # Gate!EMPTY /\ Spoken(t, f).value # Gate!UNKNOWN
<1>1. t.conditions[f] \in Values
  BY DEF Truths
<1>2. t.conditions[f] # Gate!EMPTY /\ t.conditions[f] # Gate!UNKNOWN
  BY <1>1 DEF Values, Gate!EMPTY, Gate!UNKNOWN
<1> QED BY <1>2, Readings DEF Spoken

(* A row that tells the truth is not malformed, and misses what was not    *)
(* said.                                                                   *)
LEMMA TruthfulRow ==
  ASSUME NEW row \in GateRows, NEW t \in Truths, row.pace > 0, Tells(row.tokens, t), NEW c \in Gate!Cases
  PROVE  /\ ~Malformed(row)
         /\ Gate!StrictMissing(c, Gate!provenance(row)) = Gate!Strict(c) \ t.said
<1>1. Gate!provenance(row) = [f \in FieldNames |-> Spoken(t, f)]
  BY TruthIsRead
<1>2. \A f \in Gate!Fields : Gate!provenance(row)[f] = Spoken(t, f) /\ Spoken(t, f) # Gate!Error
  BY <1>1, SpokenValues, AliasValues
<1>3. ~Malformed(row)
  BY <1>2, MalformedIsRefused DEF Gate!positive_metric
<1>4. Gate!Strict(c) \subseteq FieldNames
  BY DEF Gate!Strict, FieldNames
<1>5. \A f \in Gate!Strict(c) :
        (f \notin t.said) <=> \/ Gate!provenance(row)[f] = Gate!None
                              \/ Gate!provenance(row)[f].value = Gate!EMPTY
                              \/ Gate!provenance(row)[f].value = Gate!UNKNOWN
  BY <1>2, <1>4, SpokenValues, AliasValues
<1>6. Gate!StrictMissing(c, Gate!provenance(row)) = Gate!Strict(c) \ t.said
  BY <1>5 DEF Gate!StrictMissing
<1> QED BY <1>3, <1>6

LEMMA SpoiledIsSeen ==
  ASSUME GateInv, NEW s \in Gate!Sides, NEW c \in Gate!Cases, rows[s][c] # <<>>
  PROVE  /\ truth[s][c].spoiled <=>
              Len(rows[s][c]) > 1 \/ \E i \in DOMAIN rows[s][c] : Malformed(rows[s][c][i])
         /\ 1 \in DOMAIN rows[s][c]
         /\ \A i \in DOMAIN rows[s][c] : rows[s][c][i] \in GateRows
         /\ ~truth[s][c].spoiled => DOMAIN rows[s][c] = {1}
<1> DEFINE q == rows[s][c]
           t == truth[s][c]
<1>1. q \in Seq(GateRows) /\ t \in Truths /\ Cell(q, t) /\ q # <<>> /\ t.spoiled \in BOOLEAN
  BY DEF GateInv, Truths
<1> HIDE DEF q, t
<1>2. 1 \in DOMAIN q /\ \A i \in DOMAIN q : q[i] \in GateRows
  BY <1>1
<1>3. CASE t.spoiled
  BY <1>1, <1>2, <1>3 DEF Cell, q, t
<1>4. CASE ~t.spoiled
  <2>1. Len(q) = 1 /\ q[1].pace > 0 /\ Tells(q[1].tokens, t)
    BY <1>1, <1>4 DEF Cell
  <2>2. DOMAIN q = {1}
    BY <1>1, <2>1
  <2>3. ~Malformed(q[1])
    BY <1>1, <1>2, <2>1, TruthfulRow
  <2> QED BY <1>2, <1>4, <2>1, <2>2, <2>3 DEF q, t
<1> QED BY <1>3, <1>4

LEMMA Normalized ==
  ASSUME NEW row \in GateRows, NEW c \in Gate!Cases, NEW strict \in BOOLEAN
  PROVE  /\ Gate!normalize(c, row, strict) = Gate!Error <=>
              Malformed(row) \/ (strict /\ Gate!StrictMissing(c, Gate!provenance(row)) # {})
         /\ Gate!normalize(c, row, strict) # Gate!Error =>
              /\ Gate!normalize(c, row, strict).pace = row.pace
              /\ Gate!normalize(c, row, strict).provenance = Gate!provenance(row)
<1> DEFINE good == [is |-> "some", pace |-> row.pace, provenance |-> Gate!provenance(row)]
<1>1. good # Gate!Error /\ good.pace = row.pace /\ good.provenance = Gate!provenance(row)
  <2>1. good.is = "some" /\ Gate!Error.is = "error"
    BY DEF Gate!Error
  <2> QED BY <2>1
<1>2. Gate!normalize(c, row, strict) =
        IF Malformed(row) \/ (strict /\ Gate!StrictMissing(c, Gate!provenance(row)) # {})
        THEN Gate!Error ELSE good
  <2> DEFINE bad == \/ ~Gate!positive_metric(row.pace)
                    \/ \E f \in Gate!Fields : Gate!provenance(row)[f] = Gate!Error
             missing == strict /\ Gate!StrictMissing(c, Gate!provenance(row)) # {}
  <2>1. Gate!normalize(c, row, strict) = IF bad \/ missing THEN Gate!Error ELSE good
    BY DEF Gate!normalize
  <2>2. Malformed(row) <=> bad
    BY MalformedIsRefused
  <2> HIDE DEF bad, good
  <2> QED BY <2>1, <2>2
<1> HIDE DEF good
<1> QED BY <1>1, <1>2

LEMMA IndexIs ==
  ASSUME NEW s \in Gate!Sides
  PROVE  Gate!index(s) =
           IF \/ Gate!load_rows(s) = Gate!Error
              \/ \E c \in Gate!Cases :
                   \/ Len(rows[s][c]) > 1
                   \/ \E i \in DOMAIN rows[s][c] : Gate!normalize(c, rows[s][c][i], flags.strict) = Gate!Error
           THEN Gate!Error
           ELSE [is |-> "some", rows |-> [c \in {d \in Gate!Cases : rows[s][d] # <<>>} |->
                                            Gate!normalize(c, rows[s][c][1], flags.strict)]]
BY DEF Gate!index, Gate!Indexed

LEMMA FlagValues ==
  ASSUME GateInv
  PROVE  /\ flags.strict \in BOOLEAN /\ flags.allowCases \in BOOLEAN /\ flags.allowProvenance \in BOOLEAN
         /\ flags.required \subseteq Gate!Cases /\ flags.floors \subseteq Gate!Cases
         /\ flags.gate = "hotspot" =>
              ~flags.strict /\ ~flags.allowCases /\ ~flags.allowProvenance /\ flags.metric = "candidate_mb_s"
         /\ flags.gate # "hotspot" =>
              flags.floors = {} /\ flags.metric \in {"throughput_mb_s", "ns_per_iter"}
BY PacesCount DEF GateInv, Gate!Commands

LEMMA Loaded ==
  ASSUME NEW s
  PROVE  Gate!load_rows(s) = Gate!Error <=> Gate!Held(s) = {}
<1>1. Gate!Error.is = "error" /\ [is |-> "some", rows |-> rows[s]].is = "some"
  BY DEF Gate!Error
<1>2. [is |-> "some", rows |-> rows[s]] # Gate!Error
  BY <1>1
<1> QED BY <1>2 DEF Gate!load_rows, Gate!Held

(* A case that has no row complains of nothing; one that has complains when*)
(* it was spoiled or, if that is asked for, does not say enough.           *)
LEMMA NormalizeComplains ==
  ASSUME GateInv, NEW s \in Gate!Sides, NEW c \in Gate!Cases
  PROVE  (\/ Len(rows[s][c]) > 1
          \/ \E i \in DOMAIN rows[s][c] : Gate!normalize(c, rows[s][c][i], flags.strict) = Gate!Error)
         <=> /\ rows[s][c] # <<>>
             /\ truth[s][c].spoiled \/ (flags.strict /\ ~(Gate!Strict(c) \subseteq truth[s][c].said))
<1> DEFINE q == rows[s][c]
           t == truth[s][c]
<1>1. CASE q = <<>>
  <2>1. Len(q) = 0 /\ DOMAIN q = {}
    BY <1>1
  <2> QED BY <1>1, <2>1
<1>2. CASE q # <<>> /\ t.spoiled
  <2>1. Len(q) > 1 \/ \E i \in DOMAIN q : Malformed(q[i])
    BY <1>2, SpoiledIsSeen
  <2>2. \A i \in DOMAIN q : q[i] \in GateRows
    BY <1>2, SpoiledIsSeen
  <2>3. \A i \in DOMAIN q : Malformed(q[i]) => Gate!normalize(c, q[i], flags.strict) = Gate!Error
    BY <2>2, Normalized, FlagValues
  <2> HIDE DEF q
  <2> QED BY <1>2, <2>1, <2>3 DEF q
<1>3. CASE q # <<>> /\ ~t.spoiled
  <2>1. /\ q[1] \in GateRows /\ t \in Truths
        /\ Len(q) = 1 /\ q[1].pace > 0 /\ Tells(q[1].tokens, t)
    BY <1>3, CellOf
  <2>2. DOMAIN q = {1}
    BY <1>3, SpoiledIsSeen
  <2>3. Gate!normalize(c, q[1], flags.strict) = Gate!Error
          <=> flags.strict /\ Gate!Strict(c) \ t.said # {}
    <3> HIDE DEF q, t
    <3>1. ~Malformed(q[1]) /\ Gate!StrictMissing(c, Gate!provenance(q[1])) = Gate!Strict(c) \ t.said
      BY <2>1, TruthfulRow
    <3> QED BY <2>1, <3>1, Normalized, FlagValues
  <2>4. (Gate!Strict(c) \ t.said # {}) <=> ~(Gate!Strict(c) \subseteq t.said)
    OBVIOUS
  <2> HIDE DEF q
  <2> QED BY <1>3, <2>1, <2>2, <2>3, <2>4 DEF q
<1> QED BY <1>1, <1>2, <1>3

LEMMA IndexRead ==
  ASSUME GateInv, NEW s \in Gate!Sides
  PROVE  /\ Gate!index(s) # Gate!Error <=> ReadSide(s) /\ (flags.strict => DeclaresStrict(s))
         /\ Gate!index(s) # Gate!Error =>
              /\ DOMAIN Gate!index(s).rows = Gate!Held(s)
              /\ \A c \in Gate!Held(s) :
                   /\ Gate!index(s).rows[c].pace = rows[s][c][1].pace
                   /\ Gate!index(s).rows[c].provenance = [f \in FieldNames |-> Spoken(truth[s][c], f)]
<1> DEFINE complains(c) == \/ Len(rows[s][c]) > 1
                           \/ \E i \in DOMAIN rows[s][c] :
                                Gate!normalize(c, rows[s][c][i], flags.strict) = Gate!Error
           read == [c \in Gate!Held(s) |-> Gate!normalize(c, rows[s][c][1], flags.strict)]
           good == [is |-> "some", rows |-> read]
<1>1. Gate!index(s) = IF Gate!load_rows(s) = Gate!Error \/ (\E c \in Gate!Cases : complains(c))
                      THEN Gate!Error ELSE good
  BY IndexIs DEF Gate!Held
<1>2. good # Gate!Error /\ good.rows = read
  <2>1. good.is = "some" /\ Gate!Error.is = "error"
    BY DEF Gate!Error
  <2> QED BY <2>1
<1>3. \A c \in Gate!Cases : complains(c) <=>
        /\ rows[s][c] # <<>>
        /\ truth[s][c].spoiled \/ (flags.strict /\ ~(Gate!Strict(c) \subseteq truth[s][c].said))
  BY NormalizeComplains
<1>4. (~(Gate!load_rows(s) = Gate!Error) /\ ~\E c \in Gate!Cases : complains(c))
        <=> ReadSide(s) /\ (flags.strict => DeclaresStrict(s))
  <2> HIDE DEF complains
  <2> QED BY <1>3, Loaded, FlagValues DEF ReadSide, DeclaresStrict, Gate!Held
<1>5. ASSUME Gate!index(s) # Gate!Error, NEW c \in Gate!Held(s)
      PROVE  /\ read[c].pace = rows[s][c][1].pace
             /\ read[c].provenance = [f \in FieldNames |-> Spoken(truth[s][c], f)]
  <2>1. c \in Gate!Cases /\ rows[s][c] # <<>>
    BY DEF Gate!Held
  <2>2. ~truth[s][c].spoiled /\ ~complains(c)
    <3> HIDE DEF complains, good
    <3> QED BY <1>1, <1>3, <1>5, <2>1
  <2>3. 1 \in DOMAIN rows[s][c] /\ rows[s][c][1] \in GateRows
    BY <2>1, SpoiledIsSeen
  <2>4. Gate!normalize(c, rows[s][c][1], flags.strict) # Gate!Error
    BY <2>2, <2>3
  <2>5. Tells(rows[s][c][1].tokens, truth[s][c]) /\ truth[s][c] \in Truths
    BY <2>1, <2>2, CellOf
  <2>6. Gate!provenance(rows[s][c][1]) = [f \in FieldNames |-> Spoken(truth[s][c], f)]
    BY <2>5, TruthIsRead
  <2>7. read[c] = Gate!normalize(c, rows[s][c][1], flags.strict)
    OBVIOUS
  <2> HIDE DEF read
  <2>8. /\ Gate!normalize(c, rows[s][c][1], flags.strict).pace = rows[s][c][1].pace
        /\ Gate!normalize(c, rows[s][c][1], flags.strict).provenance = Gate!provenance(rows[s][c][1])
    BY <2>1, <2>3, <2>4, Normalized, FlagValues
  <2> QED BY <2>6, <2>7, <2>8
<1>6. DOMAIN read = Gate!Held(s)
  OBVIOUS
<1>7. Gate!index(s) # Gate!Error => Gate!index(s).rows = read
  <2> HIDE DEF complains, good
  <2> QED BY <1>1, <1>2
<1>8. Gate!index(s) # Gate!Error <=> ~(Gate!load_rows(s) = Gate!Error) /\ ~\E c \in Gate!Cases : complains(c)
  <2> HIDE DEF complains, good
  <2> QED BY <1>1, <1>2
<1> HIDE DEF complains, read, good
<1> QED BY <1>4, <1>5, <1>6, <1>7, <1>8

LEMMA HotspotRead ==
  ASSUME GateInv, NEW s \in Gate!Sides
  PROVE  /\ Gate!hotspots(s) # Gate!Error <=> ReadSide(s)
         /\ Gate!hotspots(s) # Gate!Error =>
              /\ DOMAIN Gate!hotspots(s).rows = Gate!Held(s)
              /\ \A c \in Gate!Held(s) :
                   /\ Gate!hotspots(s).rows[c].pace = rows[s][c][1].pace
                   /\ Gate!hotspots(s).rows[c].pattern = rows[s][c][1].pattern
                   /\ Gate!hotspots(s).rows[c].speedup = rows[s][c][1].speedup
                   /\ Gate!hotspots(s).rows[c].provenance = [f \in FieldNames |-> Spoken(truth[s][c], f)]
<1> DEFINE complains(c) == \/ Len(rows[s][c]) > 1
                           \/ \E i \in DOMAIN rows[s][c] : Gate!hotspot(rows[s][c][i]) = Gate!Error
           read == [c \in Gate!Held(s) |-> Gate!hotspot(rows[s][c][1])]
           good == [is |-> "some", rows |-> read]
<1>1. Gate!hotspots(s) = IF Gate!load_rows(s) = Gate!Error \/ (\E c \in Gate!Cases : complains(c))
                         THEN Gate!Error ELSE good
  BY DEF Gate!hotspots, Gate!Indexed, Gate!Held
<1>2. good # Gate!Error /\ good.rows = read
  <2>1. good.is = "some" /\ Gate!Error.is = "error"
    BY DEF Gate!Error
  <2> QED BY <2>1
<1>3. ASSUME NEW row \in GateRows
      PROVE  /\ Gate!hotspot(row) = Gate!Error <=> Malformed(row)
             /\ Gate!hotspot(row) # Gate!Error =>
                  /\ Gate!hotspot(row).pace = row.pace /\ Gate!hotspot(row).pattern = row.pattern
                  /\ Gate!hotspot(row).speedup = row.speedup
                  /\ Gate!hotspot(row).provenance = Gate!provenance(row)
  <2> DEFINE bad == \/ ~Gate!positive_metric(row.pace)
                    \/ \E f \in Gate!Fields : Gate!provenance(row)[f] = Gate!Error
             full == [is |-> "some", pace |-> row.pace, provenance |-> Gate!provenance(row),
                      pattern |-> row.pattern, speedup |-> row.speedup]
  <2>1. row.speedup # 0
    BY DEF GateRows, Gate!NotGiven
  <2>2. Gate!hotspot(row) = IF bad THEN Gate!Error ELSE full
    BY <2>1 DEF Gate!hotspot
  <2>3. Malformed(row) <=> bad
    BY MalformedIsRefused
  <2>4. full # Gate!Error
    <3>1. full.is = "some" /\ Gate!Error.is = "error"
      BY DEF Gate!Error
    <3> QED BY <3>1
  <2>5. /\ full.pace = row.pace /\ full.pattern = row.pattern /\ full.speedup = row.speedup
        /\ full.provenance = Gate!provenance(row)
    OBVIOUS
  <2> HIDE DEF bad, full
  <2> QED BY <2>2, <2>3, <2>4, <2>5
<1>4. ASSUME NEW c \in Gate!Cases
      PROVE  complains(c) <=> rows[s][c] # <<>> /\ truth[s][c].spoiled
  <2>1. CASE rows[s][c] = <<>>
    <3>1. Len(rows[s][c]) = 0 /\ DOMAIN rows[s][c] = {}
      BY <2>1
    <3> QED BY <2>1, <3>1
  <2>2. CASE rows[s][c] # <<>>
    BY <1>3, <2>2, SpoiledIsSeen
  <2> QED BY <2>1, <2>2
<1>5. (~(Gate!load_rows(s) = Gate!Error) /\ ~\E c \in Gate!Cases : complains(c)) <=> ReadSide(s)
  <2> HIDE DEF complains
  <2> QED BY <1>4, Loaded DEF ReadSide, Gate!Held
<1>6. ASSUME ReadSide(s), NEW c \in Gate!Held(s)
      PROVE  /\ read[c].pace = rows[s][c][1].pace
             /\ read[c].pattern = rows[s][c][1].pattern
             /\ read[c].speedup = rows[s][c][1].speedup
             /\ read[c].provenance = [f \in FieldNames |-> Spoken(truth[s][c], f)]
  <2>1. c \in Gate!Cases /\ rows[s][c] # <<>> /\ ~truth[s][c].spoiled
    BY <1>6 DEF Gate!Held, ReadSide
  <2>2. rows[s][c][1] \in GateRows /\ ~Malformed(rows[s][c][1])
    BY <2>1, SpoiledIsSeen
  <2>3. Tells(rows[s][c][1].tokens, truth[s][c]) /\ truth[s][c] \in Truths
    BY <2>1, CellOf
  <2>4. Gate!provenance(rows[s][c][1]) = [f \in FieldNames |-> Spoken(truth[s][c], f)]
    BY <2>3, TruthIsRead
  <2>5. read[c] = Gate!hotspot(rows[s][c][1])
    OBVIOUS
  <2> HIDE DEF read
  <2> QED BY <1>3, <2>2, <2>4, <2>5
<1>7. DOMAIN read = Gate!Held(s)
  OBVIOUS
<1>8. /\ Gate!hotspots(s) # Gate!Error => Gate!hotspots(s).rows = read
      /\ Gate!hotspots(s) # Gate!Error <=> ~(Gate!load_rows(s) = Gate!Error) /\ ~\E c \in Gate!Cases : complains(c)
  <2> HIDE DEF complains, good
  <2> QED BY <1>1, <1>2
<1> HIDE DEF complains, read, good
<1> QED BY <1>5, <1>6, <1>7, <1>8

-----------------------------------------------------------------------------
(* The verdict.                                                            *)

OldRow(c) == rows["baseline"][c][1]
NewRow(c) == rows["current"][c][1]
Kept(c) ==
  LET bound == IF flags.gate = "hotspot" THEN 12 ELSE Limit[c]
  IN  \/ NewRow(c).pace <= OldRow(c).pace
      \/ 100 * (NewRow(c).pace - OldRow(c).pace)
           <= bound * (IF flags.metric = "ns_per_iter" THEN OldRow(c).pace ELSE NewRow(c).pace)

LEMMA TwoSides == Gate!Sides = {"baseline", "current"}
BY DEF Gate!Sides

LEMMA ConditionsRead ==
  ASSUME GateInv, NEW c \in Gate!Cases, NEW f \in FieldNames,
         flags.strict /\ f \in Gate!Strict(c) => \A s \in Gate!Sides : f \in truth[s][c].said
  PROVE  LET a == Spoken(truth["baseline"][c], f)
             b == Spoken(truth["current"][c], f)
         IN  /\ Gate!FieldReason(a, b) \notin {"one_sided", "incompatible"} <=> Gate!SameCondition(c, f)
             /\ ~flags.allowProvenance /\ ~flags.strict => (a = b <=> Gate!SameCondition(c, f))
<1> DEFINE t == truth["baseline"][c]
           u == truth["current"][c]
           saying == {s \in Gate!Sides : f \in truth[s][c].said}
<1>1. t \in Truths /\ u \in Truths
  BY TwoSides, CellOf
<1>2. "baseline" \in saying <=> f \in t.said
  BY TwoSides
<1>3. "current" \in saying <=> f \in u.said
  BY TwoSides
<1>4. saying \subseteq {"baseline", "current"}
  BY TwoSides
<1>5. flags.strict \in BOOLEAN /\ flags.allowProvenance \in BOOLEAN
  BY FlagValues
<1>6. Gate!SameCondition(c, f) =
        CASE saying = Gate!Sides -> t.conditions[f] = u.conditions[f]
          [] saying = {} -> ~(flags.strict /\ f \in Gate!Strict(c))
          [] OTHER -> flags.allowProvenance /\ ~(flags.strict /\ f \in Gate!Strict(c))
  BY DEF Gate!SameCondition
<1>7. CASE f \in t.said /\ f \in u.said
  <2>1. saying = Gate!Sides /\ saying # {}
    BY <1>2, <1>3, <1>4, <1>7, TwoSides
  <2>2. Gate!SameCondition(c, f) <=> t.conditions[f] = u.conditions[f]
    <3> HIDE DEF saying
    <3> QED BY <1>6, <2>1
  <2>3. /\ Spoken(t, f) = Gate!Some(t.conditions[f]) /\ Spoken(u, f) = Gate!Some(u.conditions[f])
        /\ Gate!None \notin {Spoken(t, f), Spoken(u, f)}
    BY <1>7, Readings DEF Spoken
  <2>4. Spoken(t, f) = Spoken(u, f) <=> t.conditions[f] = u.conditions[f]
    BY <2>3, Readings
  <2>5. Gate!FieldReason(Spoken(t, f), Spoken(u, f)) =
          IF Spoken(t, f) = Spoken(u, f) THEN "same" ELSE "incompatible"
    BY <2>3 DEF Gate!FieldReason
  <2> HIDE DEF t, u
  <2> QED BY <2>2, <2>4, <2>5 DEF t, u
<1>8. CASE f \notin t.said /\ f \notin u.said
  <2>1. saying = {} /\ saying # Gate!Sides
    BY <1>2, <1>3, <1>4, <1>8, TwoSides
  <2>2. ~(flags.strict /\ f \in Gate!Strict(c))
    BY <1>8, TwoSides
  <2>3. Gate!SameCondition(c, f)
    <3> HIDE DEF saying
    <3> QED BY <1>6, <2>1, <2>2
  <2>4. Spoken(t, f) = Gate!None /\ Spoken(u, f) = Gate!None
    BY <1>8 DEF Spoken
  <2>5. Gate!FieldReason(Spoken(t, f), Spoken(u, f)) = "unchecked"
    BY <2>4 DEF Gate!FieldReason
  <2> HIDE DEF t, u
  <2> QED BY <2>3, <2>4, <2>5 DEF t, u
<1>9. CASE (f \in t.said) # (f \in u.said)
  <2>1. saying # {} /\ saying # Gate!Sides
    BY <1>2, <1>3, <1>4, <1>9, TwoSides
  <2>2. ~(flags.strict /\ f \in Gate!Strict(c))
    BY <1>9, TwoSides
  <2>3. Gate!SameCondition(c, f) <=> flags.allowProvenance
    <3> HIDE DEF saying
    <3> QED BY <1>5, <1>6, <2>1, <2>2
  <2>4. Gate!None \in {Spoken(t, f), Spoken(u, f)} /\ Spoken(t, f) # Spoken(u, f)
    BY <1>9, Readings DEF Spoken
  <2>5. Gate!FieldReason(Spoken(t, f), Spoken(u, f)) =
          IF flags.allowProvenance THEN "unchecked" ELSE "one_sided"
    BY <2>4 DEF Gate!FieldReason
  <2> HIDE DEF t, u
  <2> QED BY <1>5, <2>3, <2>4, <2>5 DEF t, u
<1> QED BY <1>7, <1>8, <1>9

LEMMA PaceKept ==
  ASSUME GateInv, NEW c \in Gate!Compared, NEW measure, NEW limit,
         flags.gate = "hotspot" => measure = "throughput_mb_s" /\ limit = 12,
         flags.gate # "hotspot" => measure = flags.metric /\ limit = Limit[c]
  PROVE  ~Gate!Exceeds(measure, OldRow(c).pace, NewRow(c).pace, limit) <=> Kept(c)
<1>1. c \in Gate!Cases /\ rows["baseline"][c] # <<>> /\ rows["current"][c] # <<>>
  BY DEF Gate!Compared, Gate!Held
<1>2. OldRow(c) \in GateRows /\ NewRow(c) \in GateRows
  BY <1>1, CellOf, TwoSides DEF OldRow, NewRow
<1>3. OldRow(c).pace \in Nat /\ NewRow(c).pace \in Nat
  BY <1>2 DEF GateRows
<1>4. limit \in Nat /\ limit = IF flags.gate = "hotspot" THEN 12 ELSE Limit[c]
  BY <1>1, PacesCount
<1>5. (measure = "throughput_mb_s") <=> (flags.metric # "ns_per_iter")
  BY FlagValues
<1> DEFINE base == IF flags.metric = "ns_per_iter" THEN OldRow(c).pace ELSE NewRow(c).pace
<1>6. base \in Nat
  BY <1>3
<1>7. limit * base \in Nat
  <2> HIDE DEF base
  <2> QED BY <1>4, <1>6
<1>8. Gate!Exceeds(measure, OldRow(c).pace, NewRow(c).pace, limit) <=>
        /\ NewRow(c).pace > OldRow(c).pace
        /\ 100 * (NewRow(c).pace - OldRow(c).pace) > limit * base
  BY <1>5 DEF Gate!Exceeds
<1>9. Kept(c) <=> \/ NewRow(c).pace <= OldRow(c).pace
                  \/ 100 * (NewRow(c).pace - OldRow(c).pace) <= limit * base
  BY <1>4 DEF Kept
<1> HIDE DEF base
<1>10. \A x, y, z \in Nat : ~(y > x /\ 100 * (y - x) > z) <=> (y <= x \/ 100 * (y - x) <= z)
  OBVIOUS
<1> QED BY <1>3, <1>7, <1>8, <1>9, <1>10

BothRead == ReadSide("baseline") /\ ReadSide("current")
SaysEnough == flags.strict => DeclaresStrict("baseline") /\ DeclaresStrict("current")
Agrees(c) == \A f \in FieldNames : Gate!SameCondition(c, f)
SameScenario(c) == flags.gate = "hotspot" =>
                     /\ OldRow(c).pattern = NewRow(c).pattern
                     /\ c \in flags.floors => NewRow(c).speedup >= 100

LEMMA DeservedIs ==
  Gate!Deserved <=> /\ BothRead /\ Gate!Compared # {} /\ Gate!Demanded \subseteq Gate!Compared /\ SaysEnough
                    /\ \A c \in Gate!Compared : Agrees(c) /\ Kept(c) /\ SameScenario(c)
<1>1. Gate!Readable <=> BothRead
  BY TwoSides DEF Gate!Readable, BothRead, ReadSide
<1>2. (flags.strict => \A s \in Gate!Sides, c \in Gate!Cases :
                          c \in Gate!Held(s) => Gate!Strict(c) \subseteq truth[s][c].said) <=> SaysEnough
  <2>1. \A s : Gate!Held(s) \subseteq Gate!Cases
    BY DEF Gate!Held
  <2> QED BY <2>1, TwoSides DEF SaysEnough, DeclaresStrict
<1>3. ASSUME NEW c \in Gate!Compared
      PROVE  (LET d0 == rows["baseline"][c][1].pace
                  d1 == rows["current"][c][1].pace
                  bound == IF flags.gate = "hotspot" THEN 12 ELSE Limit[c]
              IN  /\ \A f \in Gate!Fields : Gate!SameCondition(c, f)
                  /\ d1 <= d0 \/ 100 * (d1 - d0) <= bound * (IF flags.metric = "ns_per_iter" THEN d0 ELSE d1)
                  /\ flags.gate = "hotspot" =>
                       /\ rows["baseline"][c][1].pattern = rows["current"][c][1].pattern
                       /\ c \in flags.floors => rows["current"][c][1].speedup >= 100)
             <=> Agrees(c) /\ Kept(c) /\ SameScenario(c)
  BY AliasValues DEF Agrees, Kept, SameScenario, OldRow, NewRow
<1> QED BY <1>1, <1>2, <1>3 DEF Gate!Deserved

LEMMA BenchmarkIsFair ==
  ASSUME GateInv, flags.gate # "hotspot"
  PROVE  Gate!benchmark_report = "passed" <=> Gate!Deserved
<1> DEFINE old == Gate!index("baseline")
           new == Gate!index("current")
           common == DOMAIN old.rows \cap DOMAIN new.rows
           refuses(c) == \E f \in Gate!Fields :
                           Gate!FieldReason(old.rows[c].provenance[f], new.rows[c].provenance[f])
                             \in {"one_sided", "incompatible"}
           incompatible == {c \in common : refuses(c)}
           compared == common \ incompatible
           slower(c) == Gate!Exceeds(flags.metric, old.rows[c].pace, new.rows[c].pace, Limit[c])
<1>1. Gate!benchmark_report =
        IF old = Gate!Error \/ new = Gate!Error THEN "error"
        ELSE IF /\ flags.allowCases \/ DOMAIN old.rows \subseteq DOMAIN new.rows
                /\ incompatible = {} /\ compared # {}
                /\ \A c \in compared : ~slower(c)
                /\ flags.required \subseteq common
             THEN "passed" ELSE "failed"
  BY DEF Gate!benchmark_report
<1>2. "baseline" \in Gate!Sides /\ "current" \in Gate!Sides
  BY TwoSides
<1>3. old # Gate!Error /\ new # Gate!Error <=> BothRead /\ SaysEnough
  BY <1>2, IndexRead DEF BothRead, SaysEnough
<1>4. CASE ~(old # Gate!Error /\ new # Gate!Error)
  <2>1. Gate!benchmark_report = "error"
    BY <1>1, <1>4
  <2>2. ~Gate!Deserved
    BY <1>3, <1>4, DeservedIs
  <2> QED BY <2>1, <2>2
<1>5. CASE old # Gate!Error /\ new # Gate!Error
  <2>1. /\ DOMAIN old.rows = Gate!Held("baseline") /\ DOMAIN new.rows = Gate!Held("current")
        /\ common = Gate!Compared
    BY <1>2, <1>5, IndexRead DEF Gate!Compared
  <2>2. ASSUME NEW c \in Gate!Compared
        PROVE  (~refuses(c) <=> Agrees(c)) /\ (~slower(c) <=> Kept(c)) /\ SameScenario(c)
    <3>1. c \in Gate!Held("baseline") /\ c \in Gate!Held("current") /\ c \in Gate!Cases
      BY DEF Gate!Compared, Gate!Held
    <3>2. /\ old.rows[c].pace = OldRow(c).pace
          /\ old.rows[c].provenance = [f \in FieldNames |-> Spoken(truth["baseline"][c], f)]
      BY <1>2, <1>5, <3>1, IndexRead DEF OldRow
    <3>3. /\ new.rows[c].pace = NewRow(c).pace
          /\ new.rows[c].provenance = [f \in FieldNames |-> Spoken(truth["current"][c], f)]
      BY <1>2, <1>5, <3>1, IndexRead DEF NewRow
    <3>4. ~slower(c) <=> Kept(c)
      BY <3>2, <3>3, PaceKept
    <3>5. ASSUME NEW f \in FieldNames
          PROVE  Gate!FieldReason(old.rows[c].provenance[f], new.rows[c].provenance[f])
                   \notin {"one_sided", "incompatible"} <=> Gate!SameCondition(c, f)
      <4>1. flags.strict /\ f \in Gate!Strict(c) => \A s \in Gate!Sides : f \in truth[s][c].said
        BY <1>3, <1>5, <3>1, TwoSides DEF SaysEnough, DeclaresStrict
      <4>2. Gate!FieldReason(Spoken(truth["baseline"][c], f), Spoken(truth["current"][c], f))
              \notin {"one_sided", "incompatible"} <=> Gate!SameCondition(c, f)
        BY <3>1, <4>1, ConditionsRead
      <4>3. /\ old.rows[c].provenance[f] = Spoken(truth["baseline"][c], f)
            /\ new.rows[c].provenance[f] = Spoken(truth["current"][c], f)
        BY <3>2, <3>3
      <4> QED BY <4>2, <4>3
    <3>6. ~refuses(c) <=> Agrees(c)
      BY <3>5, AliasValues DEF Agrees
    <3>7. SameScenario(c)
      BY DEF SameScenario
    <3> QED BY <3>4, <3>6, <3>7
  <2>3. Gate!Demanded \subseteq Gate!Compared <=>
          /\ flags.allowCases \/ DOMAIN old.rows \subseteq DOMAIN new.rows
          /\ flags.required \subseteq common
    <3>1. Gate!Demanded = (IF flags.allowCases THEN {} ELSE Gate!Held("baseline")) \cup flags.required
      BY FlagValues DEF Gate!Demanded
    <3>2. flags.allowCases \in BOOLEAN
      BY FlagValues
    <3> HIDE DEF old, new
    <3> QED BY <2>1, <3>1, <3>2 DEF Gate!Compared
  <2>4. Gate!benchmark_report = "passed" <=>
          /\ Gate!Demanded \subseteq Gate!Compared /\ incompatible = {} /\ compared # {}
          /\ \A c \in compared : ~slower(c)
    <3>1. Gate!benchmark_report = "passed" <=>
            /\ flags.allowCases \/ DOMAIN old.rows \subseteq DOMAIN new.rows
            /\ incompatible = {} /\ compared # {}
            /\ \A c \in compared : ~slower(c)
            /\ flags.required \subseteq common
      <4> HIDE DEF old, new, incompatible, compared, slower, common
      <4> QED BY <1>1, <1>5
    <3> HIDE DEF old, new, incompatible, compared, slower, common
    <3> QED BY <2>3, <3>1
  <2> HIDE DEF old, new, common, refuses, slower
  <2>5. (/\ incompatible = {} /\ compared # {}
         /\ \A c \in compared : ~slower(c))
        <=> Gate!Compared # {} /\ \A c \in Gate!Compared : Agrees(c) /\ Kept(c) /\ SameScenario(c)
    BY <2>1, <2>2
  <2> QED BY <1>3, <1>5, <2>4, <2>5, DeservedIs
<1> QED BY <1>4, <1>5

LEMMA HotspotIsFair ==
  ASSUME GateInv, flags.gate = "hotspot"
  PROVE  Gate!hotspot_report = "passed" <=> Gate!Deserved
<1> DEFINE old == Gate!hotspots("baseline")
           new == Gate!hotspots("current")
           required == DOMAIN old.rows \cup flags.required \cup flags.floors
           common == DOMAIN old.rows \cap DOMAIN new.rows
           differs(c) == \/ old.rows[c].pattern # new.rows[c].pattern
                         \/ old.rows[c].provenance # new.rows[c].provenance
                         \/ c \in flags.floors /\ new.rows[c].speedup = Gate!NotGiven
           fast(c) == /\ ~Gate!Exceeds("throughput_mb_s", old.rows[c].pace, new.rows[c].pace, 12)
                      /\ c \in flags.floors => new.rows[c].speedup >= 100
<1>1. Gate!hotspot_report =
        IF old = Gate!Error \/ new = Gate!Error THEN "error"
        ELSE IF ~(required \subseteq common) \/ (\E c \in required : differs(c)) THEN "error"
        ELSE IF \A c \in required : fast(c) THEN "passed" ELSE "failed"
  BY DEF Gate!hotspot_report
<1>2. "baseline" \in Gate!Sides /\ "current" \in Gate!Sides
  BY TwoSides
<1>3. /\ ~flags.strict /\ ~flags.allowCases /\ ~flags.allowProvenance
      /\ flags.required \subseteq Gate!Cases /\ flags.floors \subseteq Gate!Cases
  BY FlagValues
<1>4. old # Gate!Error /\ new # Gate!Error <=> BothRead
  BY <1>2, HotspotRead DEF BothRead
<1>5. CASE ~(old # Gate!Error /\ new # Gate!Error)
  <2>1. Gate!hotspot_report = "error"
    BY <1>1, <1>5
  <2>2. ~Gate!Deserved
    BY <1>4, <1>5, DeservedIs
  <2> QED BY <2>1, <2>2
<1>6. CASE old # Gate!Error /\ new # Gate!Error
  <2>1. /\ DOMAIN old.rows = Gate!Held("baseline") /\ DOMAIN new.rows = Gate!Held("current")
        /\ common = Gate!Compared
    BY <1>2, <1>6, HotspotRead DEF Gate!Compared
  <2>2. ASSUME NEW c \in Gate!Compared
        PROVE  ~differs(c) /\ fast(c) <=> Agrees(c) /\ Kept(c) /\ SameScenario(c)
    <3>1. c \in Gate!Held("baseline") /\ c \in Gate!Held("current") /\ c \in Gate!Cases
      BY DEF Gate!Compared, Gate!Held
    <3>2. /\ old.rows[c].pace = OldRow(c).pace /\ old.rows[c].pattern = OldRow(c).pattern
          /\ old.rows[c].provenance = [f \in FieldNames |-> Spoken(truth["baseline"][c], f)]
      BY <1>2, <1>6, <3>1, HotspotRead DEF OldRow
    <3>3. /\ new.rows[c].pace = NewRow(c).pace /\ new.rows[c].pattern = NewRow(c).pattern
          /\ new.rows[c].speedup = NewRow(c).speedup
          /\ new.rows[c].provenance = [f \in FieldNames |-> Spoken(truth["current"][c], f)]
      BY <1>2, <1>6, <3>1, HotspotRead DEF NewRow
    <3>4. ~Gate!Exceeds("throughput_mb_s", OldRow(c).pace, NewRow(c).pace, 12) <=> Kept(c)
      BY PaceKept
    <3>5. ASSUME NEW f \in FieldNames
          PROVE  (Spoken(truth["baseline"][c], f) = Spoken(truth["current"][c], f))
                   <=> Gate!SameCondition(c, f)
      BY <1>3, <3>1, ConditionsRead
    <3>6. old.rows[c].provenance = new.rows[c].provenance <=> Agrees(c)
      BY <3>2, <3>3, <3>5 DEF Agrees
    <3>7. NewRow(c).speedup >= 100 => NewRow(c).speedup # Gate!NotGiven
      BY DEF Gate!NotGiven
    <3> HIDE DEF old, new
    <3> QED BY <3>2, <3>3, <3>4, <3>6, <3>7 DEF SameScenario
  <2>3. Gate!Demanded = required
    BY <1>3, <2>1 DEF Gate!Demanded
  <2>4. BothRead /\ SaysEnough /\ Gate!Held("baseline") # {}
    BY <1>3, <1>4, <1>6 DEF SaysEnough, BothRead, ReadSide
  <2> HIDE DEF old, new, differs, fast
  <2>5. required \subseteq common => required = Gate!Compared /\ Gate!Compared # {}
    <3>1. Gate!Held("baseline") \subseteq required
      BY <2>1
    <3>2. Gate!Compared \subseteq Gate!Held("baseline")
      BY DEF Gate!Compared
    <3> HIDE DEF required, common
    <3> QED BY <2>1, <2>4, <3>1, <3>2
  <2>6. Gate!hotspot_report = "passed" <=>
          required \subseteq common /\ \A c \in required : ~differs(c) /\ fast(c)
    <3> HIDE DEF required, common
    <3> QED BY <1>1, <1>6
  <2> HIDE DEF required, common
  <2> QED BY <2>1, <2>2, <2>3, <2>4, <2>5, <2>6, DeservedIs
<1> QED BY <1>5, <1>6

(* A gate passes exactly when every case it has to judge was measured on   *)
(* both sides under the same real conditions and did not slow down beyond  *)
(* its limit: for any cases, limits and paces, and however often the rows  *)
(* of either artifact are respelled, remeasured, spoiled, dropped or       *)
(* repeated (benchmark_report, hotspot_report).                            *)
THEOREM GatesCompareAlike == MCSpec => []PassedMeansComparable
<1>1. MCInit => GateInv
  BY GateInit DEF MCInit
<1>2. GateInv => PassedMeansComparable
  <2> SUFFICES ASSUME GateInv PROVE Gate!Verdict = "passed" <=> Gate!Deserved
    BY DEF PassedMeansComparable, Gate!PassedMeansComparable
  <2>1. CASE flags.gate = "hotspot"
    BY <2>1, HotspotIsFair DEF Gate!Verdict
  <2>2. CASE flags.gate # "hotspot"
    BY <2>2, BenchmarkIsFair DEF Gate!Verdict
  <2> QED BY <2>1, <2>2
<1> QED BY <1>1, <1>2, GateInductive, PTL DEF MCSpec
=============================================================================
