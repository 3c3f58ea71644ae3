----------------------------- MODULE AbbaReport -----------------------------
(***************************************************************************)
(* The ABBA drift gate of the tools (xtask abba.rs): a campaign measures   *)
(* the baseline revision in the stages A1 and A2 and the candidate in B1   *)
(* and B2, and a run of the gate reads its CSV, withholds the candidate's  *)
(* attribution unless the whole campaign is sound, and replaces the two    *)
(* reports of the run before it.                                           *)
(*                                                                         *)
(* The campaign begins well and is edited between runs; MaxEdits bounds    *)
(* the edits and the writes that fail.                                     *)
(***************************************************************************)
EXTENDS Integers, Sequences, FiniteSets

CONSTANTS Groups, Lengths,   \* the cases: criterion groups and lengths
          Means,             \* mean durations; the usual one is 100
          Threshold,         \* permitted drift, in percent
          MaxEdits

(* What the constants have to satisfy. *)
AbbaAssumption == 100 \in Means /\ Means \subseteq Nat /\ Threshold \in Nat /\ MaxEdits \in Nat

STAGES == <<"A1", "B1", "B2", "A2">>
Stages == {"A1", "B1", "B2", "A2"}
Keys == Groups \X Lengths
Pair(stage) == CASE stage = "A1" -> "A2" [] stage = "A2" -> "A1"
                 [] stage = "B1" -> "B2" [] stage = "B2" -> "B1"

VARIABLES
  campaign,   \* campaign[key][stage]: the rows of the CSV
  present,    \* the CSV can be opened
  pc,         \* "idle", or where the run is
  json, md,   \* the published reports
  ended,      \* how the last run ended, if the campaign still is as it read it
  edits

vars == <<campaign, present, pc, json, md, ended, edits>>

Row(stage) == [commit |-> IF stage \in {"A1", "A2"} THEN "a" ELSE "b", override |-> "none",
               mean |-> 100, valid |-> TRUE]

Init == /\ campaign = [k \in Keys |-> [s \in Stages |-> <<Row(s)>>]]
        /\ present = TRUE /\ pc = "idle"
        /\ json = "withheld" /\ md = "withheld" /\ ended = "unread" /\ edits = 0

-----------------------------------------------------------------------------
(* The analysis.                                                           *)

RowsAt(key, stage) == {campaign[key][stage][i] : i \in DOMAIN campaign[key][stage]}

(* A row with any problem is an error and is not grouped; the estimates of *)
(* a case are the places of the others.                                    *)
ReadErrors == \E k \in Keys, s \in Stages : \E r \in RowsAt(k, s) : ~r.valid
Estimates(key, stage) == {i \in DOMAIN campaign[key][stage] : campaign[key][stage][i].valid}

Valid(key, stage) == {r \in RowsAt(key, stage) : r.valid}
Grouped == {k \in Keys : \E s \in Stages : Estimates(k, s) # {}}
Revisions(stage) == {r.commit : r \in UNION {Valid(k, stage) : k \in Grouped}}
Overrides(g) == {r.override : r \in UNION {Valid(k, s) : k \in {x \in Keys : x[1] = g}, s \in Stages}}

(* Mutant: the revisions of a repeated stage are not compared. *)
CampaignErrorsUnpaired ==
  \/ ~present \/ ReadErrors \/ Grouped = {}
  \/ \E k \in Grouped, s \in Stages : Cardinality(Estimates(k, s)) # 1
  \/ \E s \in Stages : Cardinality(Revisions(s)) > 1
  \/ \E g \in Groups : Cardinality(Overrides(g)) > 1

(* read_csv's errors, duplicates, incomplete cases, stages of more than    *)
(* one revision, repeated stages of another, groups of several overrides.  *)
CampaignErrors ==
  \/ ~present \/ ReadErrors \/ Grouped = {}
  \/ \E k \in Grouped, s \in Stages : Cardinality(Estimates(k, s)) # 1
  \/ \E s \in Stages : Cardinality(Revisions(s)) > 1
  \/ \E s \in Stages : Revisions(s) # Revisions(Pair(s))
  \/ \E g \in Groups : Cardinality(Overrides(g)) > 1

Mean(key, stage) ==
  LET last == CHOOSE i \in Estimates(key, stage) : \A j \in Estimates(key, stage) : i >= j
  IN  campaign[key][stage][last].mean
Drift(key, later, earlier) ==
  LET d == Mean(key, later) - Mean(key, earlier)
  IN  100 * (IF d < 0 THEN -d ELSE d) > Threshold * Mean(key, earlier)

drift_failed(key) == Drift(key, "A2", "A1") \/ Drift(key, "B2", "B1")

analyze == IF CampaignErrors THEN "withheld"
           ELSE IF \E k \in Grouped : drift_failed(k) THEN "withheld" ELSE "permitted"

-----------------------------------------------------------------------------
(* A run writes the JSON, then the Markdown report; a write that fails     *)
(* leaves its file as it was, or truncated, and ends the run.              *)

Begin == /\ pc = "idle" /\ pc' = "json" /\ ended' = "unread"
         /\ UNCHANGED <<campaign, present, json, md, edits>>

WriteFails == /\ pc \in {"json", "md"} /\ edits < MaxEdits
              /\ edits' = edits + 1 /\ pc' = "idle" /\ ended' = pc
              /\ IF pc = "json" THEN json' \in {json, "torn"} /\ md' = md
                                ELSE md' \in {md, "torn"} /\ json' = json
              /\ UNCHANGED <<campaign, present>>

WriteJson == /\ pc = "json" /\ json' = analyze /\ pc' = "md"
             /\ UNCHANGED <<campaign, present, md, ended, edits>>

WriteMd == /\ pc = "md" /\ md' = analyze /\ pc' = "done" /\ ended' = "written"
           /\ UNCHANGED <<campaign, present, json, edits>>

Finish == /\ pc = "done" /\ pc' = "idle"
          /\ UNCHANGED <<campaign, present, json, md, ended, edits>>

(* Between runs the campaign is measured again, or damaged. *)
Edit ==
  /\ pc = "idle" /\ edits < MaxEdits /\ edits' = edits + 1
  /\ \/ \E k \in Keys, s \in Stages :
          /\ campaign[k][s] # <<>>
          /\ \/ \E m \in Means : campaign' = [campaign EXCEPT ![k][s][1].mean = m]
             \/ campaign' = [campaign EXCEPT ![k][s][1].valid = FALSE]
             \/ campaign' = [campaign EXCEPT ![k][s][1].override = "forced"]
             \/ campaign' = [campaign EXCEPT ![k][s] = <<>>]
             \/ Len(campaign[k][s]) = 1 /\ campaign' = [campaign EXCEPT ![k][s] = @ \o @]
          /\ UNCHANGED present
     \/ \E s \in Stages :     \* the stage ran on another revision
          /\ campaign' = [k \in Keys |-> [campaign[k] EXCEPT ![s] =
                            [i \in DOMAIN @ |-> [@[i] EXCEPT !.commit = "c"]]]]
          /\ UNCHANGED present
     \/ present' = FALSE /\ UNCHANGED campaign
  /\ ended' = "unread"
  /\ UNCHANGED <<pc, json, md>>

Next == Begin \/ WriteFails \/ WriteJson \/ WriteMd \/ Finish \/ Edit

Spec == Init /\ [][Next]_vars

-----------------------------------------------------------------------------
(* Properties.                                                             *)

Sound ==
  /\ present
  /\ \E a, b \in {"a", "b", "c"}, o \in [Groups -> {"none", "forced"}] :
       \E ks \in SUBSET Keys :
         /\ ks # {}
         /\ \A k \in Keys \ ks, s \in Stages : campaign[k][s] = <<>>
         /\ \A k \in ks : \E m \in [Stages -> Means] :
              /\ \A s \in Stages :
                   campaign[k][s] = <<[commit |-> IF s \in {"A1", "A2"} THEN a ELSE b,
                                       override |-> o[k[1]], mean |-> m[s], valid |-> TRUE]>>
              /\ \A s \in {"A1", "B1"} : 100 * (m[Pair(s)] - m[s]) <= Threshold * m[s]
                                       /\ 100 * (m[s] - m[Pair(s)]) <= Threshold * m[s]

(* Once a run has written its JSON report, that permits the candidate's    *)
(* attribution exactly when every case of the campaign it read was measured*)
(* once in each stage, by one baseline and one candidate revision under one*)
(* override, and repeated itself (analyze, run): also when the write of the*)
(* Markdown failed, which may then still be the PASS of an earlier run.  A *)
(* run that wrote both leaves no stale PASS.                               *)
AttributionEarned ==
  /\ ended \in {"md", "written"} => ((json = "permitted") <=> Sound)
  /\ ended = "written" => md = json
=============================================================================
