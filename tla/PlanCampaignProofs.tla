-------------------------- MODULE PlanCampaignProofs --------------------------
(***************************************************************************)
(* Proofs about PlanCampaign, for any capsule, any stages and any budgets, *)
(* clock and number of foreign writes: an accepted campaign ran as it was  *)
(* planned, and a verdict is passed on evidence that existed all at once;  *)
(* and, at the end, about the supervisor of its workers.                   *)
(*                                                                         *)
(* The first two rest on one fact: after it was written a file only ever   *)
(* goes from the controller's bytes to foreign ones.  So bytes that are the*)
(* controller's in a second reading were so at any time since the first,   *)
(* the moment the worker was started among them.                           *)
(***************************************************************************)
EXTENDS MCPlanCampaign, SequenceTheorems, WellFoundedInduction, TLAPS

-----------------------------------------------------------------------------
(***************************************************************************)
(* Types.                                                                  *)
(***************************************************************************)
Values == {"absent", "own", "foreign"}
Outcomes == {"none", "zero", "failed", "timeout"}
Entries == Names \X Values

Docs == [started : Nat, ended : Nat, outcome : Outcomes, complete : BOOLEAN,
         stdout : Values, stderr : Values, unchanged : BOOLEAN,
         receipt : Values, captured : BOOLEAN, accepted : BOOLEAN]

Runs == [binary : Values \cup {"none"}, outcome : Outcomes, complete : BOOLEAN,
         from : Nat, to : Nat]

Early == {"load", "install", "plan"}
InStage == {"spawn", "work", "logs", "logs2", "same", "changed", "pin", "check",
            "recheck", "checked", "captureerror", "stageend"}
Late == {"verify", "verifyagain", "judge", "error", "done", "crashed"}
Places == Early \cup {"admit"} \cup InStage \cup {"finish"} \cup Late

(* Where a snapshot is read or read again, and where it leads.             *)
Readings == {<<"load", "install", "error">>, <<"admit", "spawn", "captureerror">>,
             <<"check", "recheck", "captureerror">>, <<"verify", "verifyagain", "error">>}
Rereadings == {<<"install", "plan", "error">>, <<"logs2", "same", "changed">>,
               <<"recheck", "checked", "captureerror">>, <<"verifyagain", "judge", "error">>}

Snapshots == [phase : {"read", "recheck"}, left : Seq(Entries), held : Seq(Entries),
              then : Places, fail : Places]

SnapOK ==
  \/ snap = Idle
  \/ /\ snap \in Snapshots /\ snap.left # <<>>
     /\ snap.phase = "read" => <<pc, snap.then, snap.fail>> \in Readings
     /\ snap.phase = "recheck" => <<pc, snap.then, snap.fail>> \in Rereadings

(* Every variable keeps its type; a snapshot in progress has members left  *)
(* to read and belongs to the controller's place.                          *)
TypeOK ==
  /\ disk \in [Names -> Values] /\ foreign \in 0 .. MaxForeign /\ compatible \in BOOLEAN
  /\ pc \in Places /\ stage \in STAGES /\ SnapOK /\ kept \in Seq(Entries)
  /\ clock \in Nat /\ docs \in Seq(Docs) /\ ended \in Nat /\ failure \in BOOLEAN
  /\ verdict \in [capture : {"none", "lost", "accepted", "refused", "error"},
                  replay : {"none", "accepted", "refused", "error"}]
  /\ ran \in [STAGES -> Runs] /\ whole \in BOOLEAN

-----------------------------------------------------------------------------
(***************************************************************************)
(* The inductive invariant.                                                *)
(***************************************************************************)
Has(s, x) == \E k \in 1 .. Len(s) : s[k] = x

Binary(i) == <<<<Dir(i), "binary">>, "own">>

(* A stage is under way from its start entry to its end entry. *)
UnderWay == pc \in InStage \/ (pc = "admit" /\ snap # Idle)

(* Its worker has not been started. *)
Starting == pc = "spawn" \/ (pc = "admit" /\ snap # Idle)

(* The controller's place, its stage and the journal. *)
PlaceOK ==
  /\ pc \in Early => docs = <<>> /\ ran = [i \in STAGES |-> NotRun] /\ stage = 1
  /\ pc = "admit" /\ snap = Idle => Len(docs) = stage - 1
  /\ UnderWay => Len(docs) = stage
  /\ Len(docs) <= Len(Stages)
  /\ disk[<<"campaign">>] # "absent" => pc \in Late
  /\ verdict.capture # "none" => pc \in Late
  /\ verdict.replay # "none" => verdict.capture # "none"
  /\ pc \in {"install", "spawn", "work", "logs", "logs2", "recheck", "verifyagain"} /\ snap = Idle
       => kept # <<>>

(* The binary is among what is read before the worker starts and again     *)
(* after it ended; when that finds it unchanged it was the pinned one.     *)
BinaryOK ==
  /\ pc = "admit" /\ snap # Idle => Has(snap.held, Binary(stage)) \/ Has(snap.left, Binary(stage))
  /\ pc \in {"spawn", "work", "logs", "logs2"} /\ snap = Idle => Has(kept, Binary(stage))
  /\ pc \in {"work", "logs", "logs2"} => ran[stage].binary # "none"
  /\ pc = "logs2" /\ snap # Idle => Has(snap.left, Binary(stage)) \/ ran[stage].binary = "own"
  /\ pc = "same" => ran[stage].binary = "own"
  /\ \A i \in STAGES : ran[i].binary \in {"absent", "foreign"} => disk[<<Dir(i), "binary">>] # "own"

(* The journal and the stages' receipts say what happened. *)
Truthful(i) ==
  /\ docs[i].started <= clock
  /\ docs[i].unchanged => ran[i].binary = "own"
  /\ docs[i].outcome # "none" =>
       /\ ran[i].outcome = docs[i].outcome /\ ran[i].complete = docs[i].complete
       /\ docs[i].started <= ran[i].from /\ ran[i].from <= ran[i].to /\ ran[i].to <= clock
       /\ ~(UnderWay /\ i = Len(docs)) => ran[i].to <= docs[i].ended

JournalOK ==
  /\ \A i \in 1 .. Len(docs) : Truthful(i)
  /\ Starting => ~docs[stage].unchanged /\ docs[stage].outcome = "none"
  /\ pc = "work" => docs[stage].started <= ran[stage].from /\ ran[stage].from <= clock

(* Evidence that is read holds its pin until somebody overwrites it. *)
Settled(s) == \A k \in 1 .. Len(s) : s[k][2] # "own" => disk[s[k][1]] = s[k][2]

EvidenceOK ==
  /\ pc = "verify" /\ snap # Idle => Settled(snap.held)
  /\ pc = "verifyagain" /\ snap = Idle => Settled(kept)
  /\ pc = "verifyagain" /\ snap # Idle /\ ~whole =>
       \E k \in 1 .. Len(snap.left) : snap.left[k][2] = "own" /\ disk[snap.left[k][1]] # "own"
  /\ pc = "judge" => whole

IInv == TypeOK /\ PlaceOK /\ BinaryOK /\ JournalOK /\ EvidenceOK
        /\ AcceptedRanAsPlanned /\ JudgedAtOneMoment

-----------------------------------------------------------------------------
(***************************************************************************)
(* Names and sequences.                                                    *)
(***************************************************************************)

(* The campaign's own files are no stage's, and no journal, log or receipt *)
(* of a stage is its binary.                                               *)
LEMMA NamesDiffer ==
  /\ \A d, m : <<d, m>> # <<"plan">> /\ <<d, m>> # <<"campaign">>
  /\ <<"plan">> # <<"campaign">>
  /\ \A d, e, m : m # "binary" => <<d, m>> # <<e, "binary">>
<1>1. \A d, m : <<d, m>> # <<"plan">> /\ <<d, m>> # <<"campaign">>
  <2>1. \A d, m : Len(<<d, m>>) = 2
    OBVIOUS
  <2>2. Len(<<"plan">>) = 1 /\ Len(<<"campaign">>) = 1
    OBVIOUS
  <2> QED BY <2>1, <2>2
<1>2. <<"plan">> # <<"campaign">>
  <2>1. <<"plan">>[1] = "plan" /\ <<"campaign">>[1] = "campaign"
    OBVIOUS
  <2> QED BY <2>1
<1>3. \A d, e, m : m # "binary" => <<d, m>> # <<e, "binary">>
  <2>1. \A d, m : <<d, m>>[2] = m
    OBVIOUS
  <2> QED BY <2>1
<1> QED BY <1>1, <1>2, <1>3

LEMMA StageNumbers == Len(Stages) \in Nat \ {0} /\ STAGES = 1 .. Len(Stages) /\ 1 \in STAGES
<1>1. Len(Stages) \in Nat \ {0}
  BY StagesAssumption
<1> QED BY <1>1 DEF STAGES

(* The files of the campaign. *)
LEMMA FileNames ==
  /\ <<"plan">> \in Names /\ <<"campaign">> \in Names
  /\ \A i \in STAGES, m \in ToSet(Capsule) \cup {"start", "stdout", "stderr", "receipt", "end"} :
        <<Dir(i), m>> \in Names
  /\ \A d \in {"A", "B"}, m \in ToSet(Capsule) : <<d, m>> \in Names
BY DEF Names, Sources, StageFiles

(* What is left of a sequence after its first element. *)
LEMMA FirstAndRest ==
    ASSUME NEW S, NEW s \in Seq(S), s # <<>>
    PROVE  /\ Head(s) \in S /\ Tail(s) \in Seq(S) /\ Head(s) = s[1]
           /\ Len(s) \in Nat /\ Len(s) >= 1
           /\ Len(s) > 1 => Tail(s) # <<>>
           /\ \A x : Has(s, x) <=> Head(s) = x \/ Has(Tail(s), x)
           /\ ~(Len(s) > 1) => \A x : Has(s, x) => Head(s) = x
<1>1. /\ Head(s) \in S /\ Tail(s) \in Seq(S) /\ Head(s) = s[1] /\ Len(s) \in Nat /\ Len(s) >= 1
      /\ Len(Tail(s)) = Len(s) - 1
      /\ \A k \in 1 .. Len(Tail(s)) : Tail(s)[k] = s[k + 1]
  BY HeadTailProperties, EmptySeq, LenProperties
<1>2. Len(s) > 1 => Tail(s) # <<>>
  <2>1. Len(<<>>) = 0
    OBVIOUS
  <2>2. Len(s) > 1 => Len(Tail(s)) # 0
    BY <1>1
  <2> QED BY <2>1, <2>2, Zenon
<1>3. ASSUME NEW x, Has(s, x), Head(s) # x PROVE Has(Tail(s), x)
  <2>1. PICK k \in 1 .. Len(s) : s[k] = x
    BY <1>3 DEF Has
  <2>2. k # 1
    BY <1>1, <1>3, <2>1
  <2>3. k - 1 \in 1 .. Len(Tail(s)) /\ Tail(s)[k - 1] = s[(k - 1) + 1] /\ (k - 1) + 1 = k
    BY <1>1, <2>2
  <2> QED BY <2>1, <2>3 DEF Has
<1>4. ASSUME NEW x, Has(Tail(s), x) PROVE Has(s, x)
  <2>1. PICK k \in 1 .. Len(Tail(s)) : Tail(s)[k] = x
    BY <1>4 DEF Has
  <2>2. k + 1 \in 1 .. Len(s) /\ s[k + 1] = x
    BY <1>1, <2>1
  <2> QED BY <2>2 DEF Has
<1>5. ASSUME NEW x, Head(s) = x PROVE Has(s, x)
  <2>1. 1 \in 1 .. Len(s) /\ s[1] = x
    BY <1>1, <1>5
  <2> QED BY <2>1 DEF Has
<1>6. ASSUME ~(Len(s) > 1), NEW x, Has(s, x) PROVE Head(s) = x
  <2>1. PICK k \in 1 .. Len(s) : s[k] = x
    BY <1>6 DEF Has
  <2>2. k = 1
    BY <1>1, <1>6
  <2> QED BY <1>1, <2>1, <2>2
<1> QED BY <1>1, <1>2, <1>3, <1>4, <1>5, <1>6

LEMMA HasAppended ==
    ASSUME NEW S, NEW s \in Seq(S), NEW e \in S
    PROVE  /\ Append(s, e) \in Seq(S) /\ Append(s, e) # <<>>
           /\ Len(Append(s, e)) = Len(s) + 1
           /\ \A x : Has(Append(s, e), x) <=> Has(s, x) \/ e = x
<1>1. /\ Append(s, e) \in Seq(S) /\ Append(s, e) # <<>> /\ Len(s) \in Nat
      /\ Len(Append(s, e)) = Len(s) + 1
      /\ \A k \in 1 .. Len(s) : Append(s, e)[k] = s[k]
      /\ Append(s, e)[Len(s) + 1] = e
  BY AppendProperties, LenProperties
<1>2. ASSUME NEW x, Has(Append(s, e), x), e # x PROVE Has(s, x)
  <2>1. PICK k \in 1 .. Len(s) + 1 : Append(s, e)[k] = x
    BY <1>1, <1>2 DEF Has
  <2>2. k \in 1 .. Len(s)
    BY <1>1, <1>2, <2>1
  <2> QED BY <1>1, <2>1, <2>2 DEF Has
<1>3. ASSUME NEW x, Has(s, x) PROVE Has(Append(s, e), x)
  <2>1. PICK k \in 1 .. Len(s) : s[k] = x
    BY <1>3 DEF Has
  <2>2. k \in 1 .. Len(Append(s, e)) /\ Append(s, e)[k] = x
    BY <1>1, <2>1
  <2> QED BY <2>2 DEF Has
<1>4. Has(Append(s, e), e)
  <2>1. Len(s) + 1 \in 1 .. Len(Append(s, e))
    BY <1>1
  <2> QED BY <1>1, <2>1 DEF Has
<1> QED BY <1>1, <1>2, <1>3, <1>4

(* Updating the last element of a sequence. *)
LEMMA LastUpdated ==
    ASSUME NEW S, NEW s \in Seq(S), s # <<>>, NEW d \in S
    PROVE  LET t == [s EXCEPT ![Len(s)] = d]
           IN  /\ t \in Seq(S) /\ Len(t) = Len(s) /\ Len(s) \in 1 .. Len(s) /\ t[Len(s)] = d
               /\ \A i \in 1 .. Len(s) : i # Len(s) => t[i] = s[i]
<1>1. Len(s) \in Nat \ {0} /\ DOMAIN s = 1 .. Len(s)
  BY EmptySeq, LenProperties
<1>2. Len(s) \in 1 .. Len(s)
  BY <1>1
<1> QED BY <1>1, <1>2, ExceptSeq

(* The records of the journal keep their types, field by field. *)
LEMMA DocTypes ==
    ASSUME NEW d \in Docs
    PROVE  /\ \A v \in Values : /\ [d EXCEPT !["stdout"] = v] \in Docs
                                /\ [d EXCEPT !["stderr"] = v] \in Docs
                                /\ [d EXCEPT !["receipt"] = v] \in Docs
           /\ \A b \in BOOLEAN : [d EXCEPT !["unchanged"] = b] \in Docs
           /\ \A n \in Nat : [d EXCEPT !["ended"] = n] \in Docs
           /\ \A o \in Outcomes, b \in BOOLEAN : [d EXCEPT !.outcome = o, !.complete = b] \in Docs
           /\ \A b, c \in BOOLEAN : [d EXCEPT !.captured = b, !.accepted = c] \in Docs
BY DEF Docs

LEMMA NewDocType == \A t \in Nat : NewDoc(t) \in Docs
BY DEF NewDoc, Docs, Values, Outcomes

(* A set of naturals has a least element. *)
LEMMA NoneGoesWrongFirst ==
    ASSUME NEW D \in SUBSET Nat, \A n \in D : n - 1 \in D
    PROVE  D = {}
<1>1. SUFFICES ASSUME D # {} PROVE FALSE
  OBVIOUS
<1>2. PICK x \in D : \A y \in D : ~ (<<y, x>> \in OpToRel(<, Nat))
  BY <1>1, NatLessThanWellFounded, WFMin, Zenon
<1>3. x - 1 \in D /\ x - 1 \in Nat /\ x \in Nat
  BY <1>2
<1>4. x - 1 < x
  BY <1>3
<1>5. <<x - 1, x>> \in OpToRel(<, Nat)
  <2>1. <<x - 1, x>> \in Nat \X Nat
    BY <1>3
  <2>2. <<x - 1, x>>[1] < <<x - 1, x>>[2]
    BY <1>4
  <2> QED BY <2>1, <2>2, Zenon DEF OpToRel
<1> QED BY <1>2, <1>3, <1>5, Zenon

(* Sequences joined end to end are a sequence.  The recursion that joins   *)
(* them has a solution for one, and one for a longer list whenever it has  *)
(* one for the list before its last element.                               *)
LEMMA FlattenType ==
    ASSUME NEW S, NEW s \in Seq(Seq(S)) PROVE FlattenSeq(s) \in Seq(S)
<1> DEFINE n == Len(s)
           Flat(f, m) == f = [i \in 1 .. m |-> IF i = 1 THEN s[i] ELSE f[i - 1] \o s[i]]
           Solved(m) == \E f \in [1 .. m -> Seq(S)] : Flat(f, m)
           D == {m \in 1 .. n : ~ Solved(m)}
           flatten == CHOOSE f : Flat(f, n)
<1>1. n \in Nat /\ \A i \in 1 .. n : s[i] \in Seq(S)
  BY LenProperties, ElementOfSeq
<1>2. CASE n = 0
  <2>1. s = <<>>
    BY <1>2, EmptySeq
  <2> QED BY <1>2, <2>1, EmptySeq DEF FlattenSeq
<1>3. CASE n # 0
  <2>1. ASSUME NEW m \in D PROVE m - 1 \in D
    <3>1. CASE m = 1
      <4> DEFINE f == [i \in 1 .. 1 |-> s[1]]
      <4>1. f \in [1 .. 1 -> Seq(S)]
        BY <1>1, <1>3
      <4>2. f = [i \in 1 .. 1 |-> IF i = 1 THEN s[i] ELSE f[i - 1] \o s[i]]
        OBVIOUS
      <4> QED BY <2>1, <3>1, <4>1, <4>2
    <3>2. CASE m # 1
      <4>1. m - 1 \in 1 .. n /\ m \in 1 .. n /\ m - 1 \in 1 .. m - 1
        BY <1>1, <3>2
      <4>2. SUFFICES ASSUME NEW f \in [1 .. m - 1 -> Seq(S)], Flat(f, m - 1) PROVE FALSE
        BY <4>1
      <4> DEFINE g == [i \in 1 .. m |-> IF i = m THEN f[m - 1] \o s[m] ELSE f[i]]
      <4>3. f[m - 1] \o s[m] \in Seq(S)
        BY <1>1, <4>1, ConcatProperties
      <4>4. \A i \in 1 .. m : i # m => i \in 1 .. m - 1
        BY <4>1
      <4>5. g \in [1 .. m -> Seq(S)]
        BY <4>3, <4>4
      <4>6. ASSUME NEW i \in 1 .. m PROVE g[i] = IF i = 1 THEN s[i] ELSE g[i - 1] \o s[i]
        <5>1. CASE i = m
          <6>1. m - 1 \in 1 .. m /\ m - 1 # m
            BY <4>1
          <6> QED BY <3>2, <5>1, <6>1
        <5>2. CASE i # m
          <6>1. i \in 1 .. m - 1
            BY <4>4, <5>2
          <6>2. f[i] = IF i = 1 THEN s[i] ELSE f[i - 1] \o s[i]
            BY <4>2, <6>1
          <6>3. i # 1 => i - 1 \in 1 .. m /\ i - 1 # m
            BY <4>1, <6>1
          <6> QED BY <5>2, <6>2, <6>3
        <5> QED BY <5>1, <5>2
      <4>7. g = [i \in 1 .. m |-> g[i]]
        BY <4>5
      <4>8. Flat(g, m)
        BY <4>6, <4>7
      <4> QED BY <2>1, <4>5, <4>8
    <3> QED BY <3>1, <3>2
  <2>2. D = {}
    <3>1. D \in SUBSET Nat
      <4> HIDE DEF Solved
      <4> QED BY <1>1
    <3> HIDE DEF D
    <3> QED BY <2>1, <3>1, NoneGoesWrongFirst
  <2>3. \E f : Flat(f, n)
    <3>1. Solved(n)
      <4>1. n \in 1 .. n
        BY <1>1, <1>3
      <4> HIDE DEF Solved, n
      <4> QED BY <2>2, <4>1, Zenon
    <3> HIDE DEF Flat, n
    <3> QED BY <3>1, Zenon
  <2>4. Flat(flatten, n)
    <3> HIDE DEF Flat, n
    <3> QED BY <2>3, Zenon
  <2>5. FlattenSeq(s) = flatten[n]
    BY <1>3, Zenon DEF FlattenSeq
  <2> DEFINE W == {m \in 1 .. n : flatten[m] \notin Seq(S)}
  <2> HIDE DEF flatten
  <2>6. ASSUME NEW m \in W PROVE m - 1 \in W
    <3>1. flatten[m] = IF m = 1 THEN s[m] ELSE flatten[m - 1] \o s[m]
      BY <2>4
    <3>2. m # 1 /\ m - 1 \in 1 .. n
      BY <1>1, <2>6, <3>1
    <3>3. flatten[m - 1] \in Seq(S) => flatten[m - 1] \o s[m] \in Seq(S)
      BY <1>1, ConcatProperties
    <3> QED BY <2>6, <3>1, <3>2, <3>3
  <2>7. W = {}
    <3>1. W \in SUBSET Nat
      BY <1>1
    <3> HIDE DEF W
    <3> QED BY <2>6, <3>1, NoneGoesWrongFirst
  <2>8. n \in 1 .. n
    BY <1>1, <1>3
  <2> QED BY <2>5, <2>7, <2>8
<1> QED BY <1>2, <1>3

-----------------------------------------------------------------------------
(***************************************************************************)
(* The lists that snapshots read.                                          *)
(***************************************************************************)

LEMMA CapsuleIndex ==
  /\ Len(Capsule) \in Nat /\ \A k \in 1 .. Len(Capsule) : Capsule[k] \in ToSet(Capsule)
  /\ \E k \in 1 .. Len(Capsule) : Capsule[k] = "binary"
<1>1. Len(Capsule) \in Nat /\ DOMAIN Capsule = 1 .. Len(Capsule)
  BY CapsuleAssumption, LenProperties
<1> QED BY <1>1, CapsuleAssumption DEF ToSet

LEMMA MembersType ==
    ASSUME NEW d, \A m \in ToSet(Capsule) : <<d, m>> \in Names
    PROVE  /\ Members(d, "own") \in Seq(Entries)
           /\ Has(Members(d, "own"), <<<<d, "binary">>, "own">>)
           /\ Members(d, "own") # <<>>
<1>1. \A k \in 1 .. Len(Capsule) : <<<<d, Capsule[k]>>, "own">> \in Entries
  BY CapsuleIndex DEF Entries, Values
<1>2. Members(d, "own") \in Seq(Entries) /\ Len(Members(d, "own")) = Len(Capsule)
  <2>1. Members(d, "own") \in [1 .. Len(Capsule) -> Entries]
    BY <1>1 DEF Members
  <2> QED BY <2>1, CapsuleIndex, IsASeq, LenProperties DEF Members
<1>3. PICK k \in 1 .. Len(Capsule) : Capsule[k] = "binary"
  BY CapsuleIndex
<1>4. Members(d, "own")[k] = <<<<d, "binary">>, "own">>
  BY <1>3 DEF Members
<1>5. Has(Members(d, "own"), <<<<d, "binary">>, "own">>)
  BY <1>2, <1>4 DEF Has
<1>6. Members(d, "own") # <<>>
  BY <1>2, <1>3, EmptySeq, CapsuleIndex
<1> QED BY <1>2, <1>5, <1>6

LEMMA LoadedMembers ==
  /\ Members("A", "own") \o Members("B", "own") \in Seq(Entries)
  /\ Members("A", "own") \o Members("B", "own") # <<>>
<1>1. /\ Members("A", "own") \in Seq(Entries) /\ Members("A", "own") # <<>>
      /\ Members("B", "own") \in Seq(Entries)
  BY FileNames, MembersType
<1> HIDE DEF Members
<1> QED BY <1>1, ConcatProperties, EmptySeq, LenProperties

LEMMA StageMembersType ==
    ASSUME NEW i \in STAGES, docs[i] \in Docs
    PROVE  StageMembers(i) \in Seq(Entries) /\ StageMembers(i) # <<>>
<1> DEFINE rest == <<<<<<Dir(i), "receipt">>, docs[i].receipt>>,
                     <<<<Dir(i), "stdout">>, docs[i].stdout>>, <<<<Dir(i), "stderr">>, docs[i].stderr>>>>
<1>1. Members(Dir(i), "own") \in Seq(Entries) /\ Members(Dir(i), "own") # <<>>
  BY FileNames, MembersType
<1>2. /\ <<<<Dir(i), "receipt">>, docs[i].receipt>> \in Entries
      /\ <<<<Dir(i), "stdout">>, docs[i].stdout>> \in Entries
      /\ <<<<Dir(i), "stderr">>, docs[i].stderr>> \in Entries
  BY FileNames DEF Docs, Entries
<1>3. rest \in Seq(Entries)
  BY <1>2
<1> HIDE DEF rest
<1>4. Members(Dir(i), "own") \o rest \in Seq(Entries) /\ Members(Dir(i), "own") \o rest # <<>>
  BY <1>1, <1>3, ConcatProperties, EmptySeq, LenProperties
<1> QED BY <1>4 DEF StageMembers, rest

LEMMA CampaignMembersType ==
    ASSUME docs \in Seq(Docs), Len(docs) <= Len(Stages)
    PROVE  CampaignMembers \in Seq(Entries) /\ CampaignMembers # <<>>
<1> DEFINE first == <<<<<<"plan">>, "own">>, <<<<"campaign">>, "own">>>>
           links == [i \in 1 .. Len(docs) |-> LinkMembers(i)]
<1>1. Len(docs) \in Nat /\ \A i \in 1 .. Len(docs) : i \in STAGES /\ docs[i] \in Docs
  BY StageNumbers, LenProperties, ElementOfSeq
<1>2. ASSUME NEW i \in 1 .. Len(docs) PROVE LinkMembers(i) \in Seq(Entries)
  <2> DEFINE ends == <<<<<<Dir(i), "start">>, "own">>, <<<<Dir(i), "end">>, "own">>>>
  <2>1. <<<<Dir(i), "start">>, "own">> \in Entries /\ <<<<Dir(i), "end">>, "own">> \in Entries
    BY <1>1, FileNames DEF Entries, Values
  <2>2. ends \in Seq(Entries)
    BY <2>1
  <2>3. StageMembers(i) \in Seq(Entries) /\ <<>> \in Seq(Entries)
    BY <1>1, StageMembersType
  <2> HIDE DEF ends
  <2>4. ends \o (IF docs[i].captured THEN StageMembers(i) ELSE <<>>) \in Seq(Entries)
    BY <2>2, <2>3, ConcatProperties
  <2> QED BY <2>4 DEF LinkMembers, ends
<1>3. links \in Seq(Seq(Entries))
  BY <1>1, <1>2, IsASeq
<1>4. FlattenSeq(links) \in Seq(Entries)
  <2> HIDE DEF links
  <2> QED BY <1>3, FlattenType
<1>5. first \in Seq(Entries) /\ first # <<>>
  BY FileNames DEF Entries, Values
<1> DEFINE rest == FlattenSeq(links)
<1>6. CampaignMembers = first \o rest
  BY DEF CampaignMembers
<1> HIDE DEF first, rest
<1> QED BY <1>4, <1>5, <1>6, ConcatProperties, EmptySeq, LenProperties DEF rest

-----------------------------------------------------------------------------
(***************************************************************************)
(* The invariant holds initially.                                          *)
(***************************************************************************)
LEMMA InitIInv == Init => IInv
<1> SUFFICES ASSUME Init PROVE IInv
  OBVIOUS
<1>1. TypeOK
  <2>1. ran \in [STAGES -> Runs]
    BY DEF Init, Runs, NotRun, Outcomes
  <2>2. disk \in [Names -> Values]
    BY DEF Init, Values
  <2>3. foreign \in 0 .. MaxForeign
    BY BudgetAssumption DEF Init
  <2>4. kept \in Seq(Entries) /\ docs \in Seq(Docs)
    BY DEF Init
  <2> QED BY <2>1, <2>2, <2>3, <2>4, StageNumbers DEF Init, TypeOK, SnapOK, Places, Early
<1>2. Len(docs) = 0 /\ \A i \in STAGES : ran[i] = NotRun
  BY DEF Init
<1>3. disk[<<"campaign">>] = "absent"
  <2>1. <<"campaign">> \notin Sources
    BY NamesDiffer DEF Sources
  <2> QED BY <2>1, FileNames DEF Init
<1>4. PlaceOK
  BY <1>2, <1>3, StageNumbers DEF Init, PlaceOK, UnderWay, InStage, Early
<1>5. BinaryOK
  BY <1>2 DEF Init, BinaryOK, NotRun
<1>6. JournalOK /\ EvidenceOK
  BY <1>2 DEF Init, JournalOK, EvidenceOK, Starting
<1>7. AcceptedRanAsPlanned /\ JudgedAtOneMoment
  BY DEF Init, AcceptedRanAsPlanned, JudgedAtOneMoment
<1> QED BY <1>1, <1>4, <1>5, <1>6, <1>7 DEF IInv

-----------------------------------------------------------------------------
(***************************************************************************)
(* What steps have in common.                                              *)
(***************************************************************************)

(* As long as there is no verdict nothing is claimed about one. *)
LEMMA NoVerdictYet ==
    ASSUME IInv, pc \notin Late, verdict' = verdict
    PROVE  AcceptedRanAsPlanned' /\ JudgedAtOneMoment'
<1>1. verdict.capture = "none" /\ verdict.replay = "none"
  BY DEF IInv, PlaceOK
<1> QED BY <1>1 DEF AcceptedRanAsPlanned, JudgedAtOneMoment

(* What was accepted stays as it was when stages are over. *)
LEMMA AcceptedStays ==
    ASSUME IInv, UNCHANGED <<ran, docs, verdict>>
    PROVE  AcceptedRanAsPlanned'
BY DEF IInv, AcceptedRanAsPlanned

(* The journal is as true as before when nothing of it changes and the     *)
(* stage does not end.                                                     *)
LEMMA JournalStays ==
    ASSUME IInv, UNCHANGED <<ran, docs>>, clock' \in Nat, clock <= clock',
           pc' = "work" => pc = "work" /\ stage' = stage,
           Starting' => Starting /\ stage' = stage, UnderWay => UnderWay'
    PROVE  JournalOK'
<1>1. /\ docs \in Seq(Docs) /\ ran \in [STAGES -> Runs] /\ clock \in Nat
      /\ Len(docs) \in Nat /\ Len(docs) <= Len(Stages) /\ stage \in STAGES
  BY LenProperties DEF IInv, TypeOK, PlaceOK
<1>2. ASSUME NEW i \in 1 .. Len(docs) PROVE Truthful(i)'
  <2>1. i \in STAGES /\ docs[i] \in Docs /\ ran[i] \in Runs
    BY <1>1, StageNumbers, ElementOfSeq
  <2>2. /\ docs[i].started \in Nat /\ ran[i].to \in Nat
    BY <2>1 DEF Docs, Runs
  <2>3. Truthful(i)
    BY DEF IInv, JournalOK
  <2> QED BY <1>1, <2>2, <2>3 DEF Truthful
<1>3. pc' = "work" => docs[stage].started <= ran[stage].from /\ ran[stage].from <= clock'
  <2>1. ran[stage].from \in Nat
    BY <1>1 DEF Runs
  <2> QED BY <1>1, <2>1 DEF IInv, JournalOK
<1>4. Starting' => ~docs[stage'].unchanged /\ docs[stage'].outcome = "none"
  BY DEF IInv, JournalOK
<1> QED BY <1>2, <1>3, <1>4 DEF JournalOK

(* The verdict of one moment stays when the place and the snapshot do. *)
LEMMA JudgedStays ==
    ASSUME IInv, UNCHANGED <<verdict, whole>>, pc' = "done" => pc = "done"
    PROVE  JudgedAtOneMoment'
<1>1. pc = "done" => snap = Idle
  BY DEF IInv, TypeOK, SnapOK, Snapshots, Readings, Rereadings
<1>2. Idle.phase = "idle"
  BY DEF Idle
<1> QED BY <1>1, <1>2 DEF IInv, JudgedAtOneMoment, At

LEMMA IdlePhase == Idle.phase = "idle"
BY DEF Idle

LEMMA PhaseTellsIdle == ASSUME IInv PROVE (snap.phase = "idle") <=> (snap = Idle)
<1>1. snap # Idle => snap.phase \in {"read", "recheck"}
  BY DEF IInv, TypeOK, SnapOK, Snapshots
<1> QED BY <1>1, IdlePhase

-----------------------------------------------------------------------------
(***************************************************************************)
(* The rest of the world.                                                  *)
(***************************************************************************)

LEMMA ForeignWriteKeeps ==
    ASSUME IInv, NEW n \in Names, ForeignWrite(n) PROVE IInv'
<1> USE DEF ForeignWrite, files, journal, truth
<1>1. disk \in [Names -> Values]
  BY DEF IInv, TypeOK
<1>2. /\ disk' \in [Names -> Values]
      /\ \A m \in Names : m # n => disk'[m] = disk[m]
      /\ disk[n] = "own" /\ disk'[n] = "foreign"
  BY <1>1 DEF Values
<1>3. TypeOK'
  <2>1. foreign' \in 0 .. MaxForeign
    BY BudgetAssumption DEF IInv, TypeOK
  <2> QED BY <1>2, <2>1 DEF IInv, TypeOK, SnapOK
<1>4. PlaceOK'
  <2>1. disk'[<<"campaign">>] # "absent" => disk[<<"campaign">>] # "absent"
    BY <1>2, FileNames
  <2> QED BY <2>1 DEF IInv, PlaceOK, UnderWay
<1>5. BinaryOK'
  <2>1. ASSUME NEW i \in STAGES, ran[i].binary \in {"absent", "foreign"}
        PROVE  disk'[<<Dir(i), "binary">>] # "own"
    <3>1. <<Dir(i), "binary">> \in Names
      BY FileNames, CapsuleAssumption
    <3> QED BY <1>2, <2>1, <3>1 DEF IInv, BinaryOK
  <2> QED BY <2>1 DEF IInv, BinaryOK
<1>6. JournalOK'
  <2>1. clock \in Nat
    BY DEF IInv, TypeOK
  <2> QED BY <2>1, JournalStays DEF UnderWay, Starting
<1>7. EvidenceOK'
  <2>1. ASSUME NEW s \in Seq(Entries), Settled(s) PROVE Settled(s)'
    <3>1. ASSUME NEW k \in 1 .. Len(s), s[k][2] # "own" PROVE disk'[s[k][1]] = s[k][2]
      <4>1. s[k] \in Entries
        BY ElementOfSeq
      <4>2. s[k][1] \in Names
        BY <4>1 DEF Entries
      <4>3. disk[s[k][1]] = s[k][2]
        BY <2>1, <3>1 DEF Settled
      <4> QED BY <1>2, <3>1, <4>2, <4>3
    <3> QED BY <3>1 DEF Settled
  <2>2. kept \in Seq(Entries) /\ (snap # Idle => snap.held \in Seq(Entries) /\ snap.left \in Seq(Entries))
    BY DEF IInv, TypeOK, SnapOK, Snapshots
  <2>3. ASSUME pc = "verifyagain", snap # Idle, ~whole
        PROVE  \E k \in 1 .. Len(snap.left) :
                  snap.left[k][2] = "own" /\ disk'[snap.left[k][1]] # "own"
    <3>1. PICK k \in 1 .. Len(snap.left) : snap.left[k][2] = "own" /\ disk[snap.left[k][1]] # "own"
      BY <2>3 DEF IInv, EvidenceOK
    <3>2. snap.left[k] \in Entries
      BY <2>2, <2>3, ElementOfSeq
    <3>3. snap.left[k][1] \in Names
      BY <3>2 DEF Entries
    <3> QED BY <1>2, <3>1, <3>3
  <2> QED BY <2>1, <2>2, <2>3 DEF IInv, EvidenceOK
<1>8. AcceptedRanAsPlanned' /\ JudgedAtOneMoment'
  BY AcceptedStays, JudgedStays
<1> QED BY <1>3, <1>4, <1>5, <1>6, <1>7, <1>8 DEF IInv

LEMMA TickKeeps == ASSUME IInv, Tick PROVE IInv'
<1> USE DEF Tick, files, journal, truth
<1>1. clock \in Nat /\ clock' \in Nat /\ clock <= clock'
  BY DEF IInv, TypeOK
<1>2. TypeOK'
  BY <1>1 DEF IInv, TypeOK, SnapOK
<1>3. PlaceOK' /\ BinaryOK'
  BY DEF IInv, PlaceOK, BinaryOK, UnderWay
<1>4. JournalOK'
  BY <1>1, JournalStays DEF UnderWay, Starting
<1>5. EvidenceOK'
  BY DEF IInv, EvidenceOK, Settled
<1>6. AcceptedRanAsPlanned' /\ JudgedAtOneMoment'
  BY AcceptedStays, JudgedStays
<1> QED BY <1>2, <1>3, <1>4, <1>5, <1>6 DEF IInv

(* A crash that leaves something to replay comes after the last stage. *)
LEMMA CrashKeeps == ASSUME IInv, Crash PROVE IInv'
<1> USE DEF Crash, files, journal, truth
<1>1. pc \in Late /\ pc' = "crashed" /\ snap' = Idle /\ kept' = <<>>
  BY DEF IInv, PlaceOK
<1>2. verdict.replay = "none"
  BY DEF IInv, PlaceOK
<1>3. /\ verdict' \in [capture : {"none", "lost", "accepted", "refused", "error"},
                       replay : {"none", "accepted", "refused", "error"}]
      /\ verdict'.capture = "lost" /\ verdict'.replay = "none"
  BY <1>2 DEF IInv, TypeOK
<1>4. TypeOK'
  BY <1>1, <1>3 DEF IInv, TypeOK, SnapOK, Places, Late
<1>5. ~UnderWay /\ ~UnderWay'
  BY <1>1 DEF UnderWay, Late, InStage
<1>6. PlaceOK'
  BY <1>1, <1>3, <1>5 DEF IInv, PlaceOK, Late, Early
<1>7. BinaryOK'
  BY <1>1 DEF IInv, BinaryOK
<1>8. JournalOK'
  <2>1. clock \in Nat
    BY DEF IInv, TypeOK
  <2> QED BY <1>1, <1>5, <2>1, JournalStays DEF Starting
<1>9. EvidenceOK'
  BY <1>1 DEF EvidenceOK
<1>10. AcceptedRanAsPlanned' /\ JudgedAtOneMoment'
  BY <1>1, <1>3 DEF AcceptedRanAsPlanned, JudgedAtOneMoment, At
<1> QED BY <1>4, <1>6, <1>7, <1>8, <1>9, <1>10 DEF IInv

-----------------------------------------------------------------------------
(***************************************************************************)
(* Snapshots.                                                              *)
(***************************************************************************)

(* A binary that is found to be the pinned one was so when it was started. *)
LEMMA FoundUnchanged ==
    ASSUME IInv, pc \in {"work", "logs", "logs2"}, disk[<<Dir(stage), "binary">>] = "own"
    PROVE  ran[stage].binary = "own"
<1>1. stage \in STAGES /\ ran[stage] \in Runs
  BY DEF IInv, TypeOK
<1>2. ran[stage].binary \in Values \cup {"none"}
  BY <1>1 DEF Runs
<1> QED BY <1>1, <1>2 DEF IInv, BinaryOK, Values

LEMMA bindKeeps == ASSUME IInv, bind PROVE IInv'
<1> DEFINE e == Head(snap.left)
<1>1. snap # Idle /\ snap \in Snapshots /\ snap.phase = "read" /\ snap.left # <<>>
  <2>1. snap.phase = "read"
    BY DEF bind
  <2>2. snap # Idle
    BY <2>1, IdlePhase
  <2> QED BY <2>1, <2>2 DEF IInv, TypeOK, SnapOK
<1>2. /\ snap.left \in Seq(Entries) /\ snap.held \in Seq(Entries)
      /\ <<pc, snap.then, snap.fail>> \in Readings
  BY <1>1 DEF IInv, TypeOK, SnapOK, Snapshots
<1>3. /\ \/ pc = "load" /\ snap.then = "install" /\ snap.fail = "error"
         \/ pc = "admit" /\ snap.then = "spawn" /\ snap.fail = "captureerror"
         \/ pc = "check" /\ snap.then = "recheck" /\ snap.fail = "captureerror"
         \/ pc = "verify" /\ snap.then = "verifyagain" /\ snap.fail = "error"
  BY <1>2 DEF Readings
<1>4. /\ e \in Entries /\ Tail(snap.left) \in Seq(Entries)
      /\ Len(snap.left) > 1 => Tail(snap.left) # <<>>
      /\ \A x : Has(snap.left, x) <=> e = x \/ Has(Tail(snap.left), x)
      /\ ~(Len(snap.left) > 1) => \A x : Has(snap.left, x) => e = x
  BY <1>1, <1>2, FirstAndRest
<1> DEFINE more == Append(snap.held, e)
<1>5. /\ more \in Seq(Entries) /\ more # <<>>
      /\ \A x : Has(more, x) <=> Has(snap.held, x) \/ e = x
  <2> HIDE DEF e
  <2> QED BY <1>2, <1>4, HasAppended
<1>6. UNCHANGED <<disk, foreign, compatible, stage, clock, docs, ended, failure, verdict, ran, whole>>
  BY DEF bind, files, journal, truth
<1>7. clock \in Nat /\ stage \in STAGES /\ Len(docs) \in Nat
  BY LenProperties DEF IInv, TypeOK
<1>8. AcceptedRanAsPlanned'
  BY <1>6, AcceptedStays
<1>9. disk[e[1]] = e[2] /\ pc = "verify" => Settled(more)
  <2> SUFFICES ASSUME disk[e[1]] = e[2], pc = "verify", NEW k \in 1 .. Len(more), more[k][2] # "own"
               PROVE  disk[more[k][1]] = more[k][2]
    BY DEF Settled
  <2>1. Has(more, more[k])
    BY DEF Has
  <2>2. CASE e = more[k]
    BY <2>2
  <2>3. CASE Has(snap.held, more[k])
    <3>1. PICK j \in 1 .. Len(snap.held) : snap.held[j] = more[k]
      BY <2>3 DEF Has
    <3> QED BY <1>1, <3>1 DEF IInv, EvidenceOK, Settled
  <2> HIDE DEF more, e
  <2> QED BY <1>5, <2>1, <2>2, <2>3
<1>10. /\ Bound(e[1], e[2]) => disk[e[1]] = e[2]
       /\ \/ Bound(e[1], e[2]) /\ Len(snap.left) > 1
             /\ snap' = [snap EXCEPT !.left = Tail(@), !.held = more] /\ UNCHANGED <<pc, kept>>
          \/ Bound(e[1], e[2]) /\ ~(Len(snap.left) > 1)
             /\ pc' = snap.then /\ kept' = more /\ snap' = Idle
          \/ ~Bound(e[1], e[2]) /\ pc' = snap.fail /\ snap' = Idle /\ UNCHANGED kept
  BY DEF bind, Bound
<1> HIDE DEF more, e
<1>11. CASE /\ disk[e[1]] = e[2]
            /\ Len(snap.left) > 1
            /\ snap' = [snap EXCEPT !.left = Tail(@), !.held = more] /\ UNCHANGED <<pc, kept>>
  <2>1. /\ snap' \in Snapshots /\ snap'.left = Tail(snap.left) /\ snap'.held = more
        /\ snap'.phase = "read" /\ snap'.then = snap.then /\ snap'.fail = snap.fail
    BY <1>1, <1>4, <1>5, <1>11 DEF Snapshots
  <2>2. snap' # Idle
    BY <2>1, IdlePhase
  <2>3. TypeOK'
    BY <1>2, <1>4, <1>6, <1>11, <2>1 DEF IInv, TypeOK, SnapOK
  <2>4. UnderWay <=> UnderWay'
    BY <1>1, <1>11, <2>2 DEF UnderWay
  <2>5. PlaceOK'
    BY <1>6, <1>11, <2>2, <2>4 DEF IInv, PlaceOK
  <2>6. BinaryOK'
    <3>1. pc = "admit" => Has(more, Binary(stage)) \/ Has(Tail(snap.left), Binary(stage))
      BY <1>1, <1>4, <1>5 DEF IInv, BinaryOK
    <3>2. pc \notin {"spawn", "work", "logs", "logs2", "same"}
      BY <1>3
    <3> QED BY <1>6, <1>11, <2>1, <3>1, <3>2 DEF IInv, BinaryOK, Binary
  <2>7. JournalOK'
    BY <1>1, <1>6, <1>7, <1>11, <2>2, <2>4, JournalStays DEF Starting
  <2>8. EvidenceOK'
    <3>1. pc # "verifyagain" /\ pc # "judge"
      BY <1>3
    <3> QED BY <1>6, <1>9, <1>11, <2>1, <3>1 DEF EvidenceOK, Settled
  <2>9. JudgedAtOneMoment'
    BY <1>6, <1>11, JudgedStays
  <2> QED BY <1>8, <2>3, <2>5, <2>6, <2>7, <2>8, <2>9 DEF IInv
<1>12. CASE /\ disk[e[1]] = e[2] /\ ~(Len(snap.left) > 1)
            /\ pc' = snap.then /\ kept' = more /\ snap' = Idle
  <2>1. \/ pc = "load" /\ pc' = "install"
        \/ pc = "admit" /\ pc' = "spawn"
        \/ pc = "check" /\ pc' = "recheck"
        \/ pc = "verify" /\ pc' = "verifyagain"
    BY <1>3, <1>12
  <2>2. TypeOK'
    BY <1>5, <1>6, <1>12, <2>1 DEF IInv, TypeOK, SnapOK, Places, Early, InStage, Late
  <2>3. UnderWay <=> UnderWay'
    BY <1>1, <1>12, <2>1 DEF UnderWay, InStage
  <2>4. PlaceOK'
    BY <1>5, <1>6, <1>12, <2>1, <2>3 DEF IInv, PlaceOK, Early, Late
  <2>5. BinaryOK'
    <3>1. pc = "admit" => Has(more, Binary(stage))
      BY <1>1, <1>4, <1>5, <1>12 DEF IInv, BinaryOK
    <3> QED BY <1>6, <1>12, <2>1, <3>1 DEF IInv, BinaryOK, Binary
  <2>6. JournalOK'
    BY <1>1, <1>6, <1>7, <2>1, <2>3, JournalStays DEF Starting
  <2>7. EvidenceOK'
    BY <1>6, <1>9, <1>12, <2>1 DEF EvidenceOK, Settled
  <2>8. JudgedAtOneMoment'
    BY <1>6, <2>1, JudgedStays
  <2> QED BY <1>8, <2>2, <2>4, <2>5, <2>6, <2>7, <2>8 DEF IInv
<1>13. CASE pc' = snap.fail /\ snap' = Idle /\ UNCHANGED kept
  <2>1. \/ pc = "load" /\ pc' = "error"
        \/ pc = "admit" /\ pc' = "captureerror"
        \/ pc = "check" /\ pc' = "captureerror"
        \/ pc = "verify" /\ pc' = "error"
    BY <1>3, <1>13
  <2>2. TypeOK'
    BY <1>6, <1>13, <2>1 DEF IInv, TypeOK, SnapOK, Places, Early, InStage, Late
  <2>3. UnderWay <=> UnderWay'
    BY <1>1, <1>13, <2>1 DEF UnderWay, InStage
  <2>4. PlaceOK'
    BY <1>6, <1>13, <2>1, <2>3 DEF IInv, PlaceOK, Early, Late
  <2>5. BinaryOK'
    BY <1>6, <2>1 DEF IInv, BinaryOK
  <2>6. JournalOK'
    BY <1>1, <1>6, <1>7, <2>1, <2>3, JournalStays DEF Starting
  <2>7. EvidenceOK'
    BY <2>1 DEF EvidenceOK
  <2>8. JudgedAtOneMoment'
    BY <1>6, <2>1, JudgedStays
  <2> QED BY <1>8, <2>2, <2>4, <2>5, <2>6, <2>7, <2>8 DEF IInv
<1> QED BY <1>10, <1>11, <1>12, <1>13

LEMMA unchangedKeeps == ASSUME IInv, unchanged PROVE IInv'
<1> DEFINE e == Head(snap.left)
<1>1. snap # Idle /\ snap \in Snapshots /\ snap.phase = "recheck" /\ snap.left # <<>>
  <2>1. snap.phase = "recheck"
    BY DEF unchanged
  <2>2. snap # Idle
    BY <2>1, IdlePhase
  <2> QED BY <2>1, <2>2 DEF IInv, TypeOK, SnapOK
<1>2. /\ snap.left \in Seq(Entries) /\ snap.held \in Seq(Entries)
      /\ <<pc, snap.then, snap.fail>> \in Rereadings
  BY <1>1 DEF IInv, TypeOK, SnapOK, Snapshots
<1>3. /\ \/ pc = "install" /\ snap.then = "plan" /\ snap.fail = "error"
         \/ pc = "logs2" /\ snap.then = "same" /\ snap.fail = "changed"
         \/ pc = "recheck" /\ snap.then = "checked" /\ snap.fail = "captureerror"
         \/ pc = "verifyagain" /\ snap.then = "judge" /\ snap.fail = "error"
  BY <1>2 DEF Rereadings
<1>4. /\ e \in Entries /\ Tail(snap.left) \in Seq(Entries)
      /\ Len(snap.left) > 1 => Tail(snap.left) # <<>>
      /\ \A x : Has(snap.left, x) <=> e = x \/ Has(Tail(snap.left), x)
      /\ ~(Len(snap.left) > 1) => \A x : Has(snap.left, x) => e = x
  BY <1>1, <1>2, FirstAndRest
<1>5. /\ UNCHANGED <<disk, foreign, compatible, stage, clock, docs, ended, failure, verdict, ran, whole>>
      /\ kept' = <<>> /\ kept' \in Seq(Entries)
  BY DEF unchanged, files, journal, truth
<1>6. clock \in Nat /\ stage \in STAGES /\ Len(docs) \in Nat
  BY LenProperties DEF IInv, TypeOK
<1>7. AcceptedRanAsPlanned'
  BY <1>5, AcceptedStays
<1>8. disk[e[1]] = e[2] /\ pc = "logs2" =>
        \/ ran[stage].binary = "own"
        \/ Len(snap.left) > 1 /\ Has(Tail(snap.left), Binary(stage))
  <2> SUFFICES ASSUME disk[e[1]] = e[2], pc = "logs2", ran[stage].binary # "own"
               PROVE  Len(snap.left) > 1 /\ Has(Tail(snap.left), Binary(stage))
    OBVIOUS
  <2>1. Has(snap.left, Binary(stage))
    BY <1>1 DEF IInv, BinaryOK
  <2>2. e # Binary(stage)
    BY FoundUnchanged DEF Binary
  <2> QED BY <1>4, <2>1, <2>2
<1>9. disk[e[1]] = e[2] /\ pc = "verifyagain" /\ ~whole =>
        /\ Len(snap.left) > 1
        /\ \E k \in 1 .. Len(Tail(snap.left)) :
             Tail(snap.left)[k][2] = "own" /\ disk[Tail(snap.left)[k][1]] # "own"
  <2> SUFFICES ASSUME disk[e[1]] = e[2], pc = "verifyagain", ~whole
               PROVE  /\ Len(snap.left) > 1
                      /\ \E k \in 1 .. Len(Tail(snap.left)) :
                           Tail(snap.left)[k][2] = "own" /\ disk[Tail(snap.left)[k][1]] # "own"
    OBVIOUS
  <2>1. PICK k \in 1 .. Len(snap.left) : snap.left[k][2] = "own" /\ disk[snap.left[k][1]] # "own"
    BY <1>1 DEF IInv, EvidenceOK
  <2>2. Has(snap.left, snap.left[k]) /\ e # snap.left[k]
    BY <2>1 DEF Has
  <2>3. Len(snap.left) > 1 /\ Has(Tail(snap.left), snap.left[k])
    BY <1>4, <2>2
  <2> QED BY <2>1, <2>3 DEF Has
<1>10. \/ /\ disk[e[1]] = e[2] /\ Len(snap.left) > 1
          /\ snap' = [snap EXCEPT !.left = Tail(@)] /\ UNCHANGED pc
       \/ disk[e[1]] = e[2] /\ ~(Len(snap.left) > 1) /\ pc' = snap.then /\ snap' = Idle
       \/ pc' = snap.fail /\ snap' = Idle
  BY DEF unchanged
<1> HIDE DEF e
<1>11. CASE /\ disk[e[1]] = e[2] /\ Len(snap.left) > 1
            /\ snap' = [snap EXCEPT !.left = Tail(@)] /\ UNCHANGED pc
  <2>1. /\ snap' \in Snapshots /\ snap'.left = Tail(snap.left)
        /\ snap'.phase = "recheck" /\ snap'.then = snap.then /\ snap'.fail = snap.fail
    BY <1>1, <1>4, <1>11 DEF Snapshots
  <2>2. snap' # Idle
    BY <2>1, IdlePhase
  <2>3. TypeOK'
    BY <1>2, <1>4, <1>5, <1>11, <2>1 DEF IInv, TypeOK, SnapOK
  <2>4. UnderWay <=> UnderWay'
    BY <1>1, <1>11, <2>2 DEF UnderWay
  <2>5. PlaceOK'
    BY <1>5, <1>11, <2>2, <2>4 DEF IInv, PlaceOK
  <2>6. BinaryOK'
    <3>1. pc \notin {"admit", "spawn", "work", "logs", "same"}
      BY <1>3
    <3> QED BY <1>5, <1>8, <1>11, <2>1, <2>2, <3>1 DEF IInv, BinaryOK, Binary
  <2>7. JournalOK'
    BY <1>1, <1>5, <1>6, <1>11, <2>2, <2>4, JournalStays DEF Starting
  <2>8. EvidenceOK'
    <3>1. pc # "verify" /\ pc # "judge"
      BY <1>3
    <3> QED BY <1>5, <1>9, <1>11, <2>1, <2>2, <3>1 DEF EvidenceOK
  <2>9. JudgedAtOneMoment'
    BY <1>5, <1>11, JudgedStays
  <2> QED BY <1>7, <2>3, <2>5, <2>6, <2>7, <2>8, <2>9 DEF IInv
<1>12. CASE disk[e[1]] = e[2] /\ ~(Len(snap.left) > 1) /\ pc' = snap.then /\ snap' = Idle
  <2>1. \/ pc = "install" /\ pc' = "plan"
        \/ pc = "logs2" /\ pc' = "same"
        \/ pc = "recheck" /\ pc' = "checked"
        \/ pc = "verifyagain" /\ pc' = "judge"
    BY <1>3, <1>12
  <2>2. TypeOK'
    BY <1>5, <1>12, <2>1 DEF IInv, TypeOK, SnapOK, Places, Early, InStage, Late
  <2>3. UnderWay <=> UnderWay'
    BY <1>1, <1>12, <2>1 DEF UnderWay, InStage
  <2>4. PlaceOK'
    BY <1>5, <1>12, <2>1, <2>3 DEF IInv, PlaceOK, Early, Late
  <2>5. BinaryOK'
    BY <1>5, <1>8, <1>12, <2>1 DEF IInv, BinaryOK
  <2>6. JournalOK'
    BY <1>1, <1>5, <1>6, <2>1, <2>3, JournalStays DEF Starting
  <2>7. EvidenceOK'
    BY <1>5, <1>9, <1>12, <2>1 DEF EvidenceOK
  <2>8. JudgedAtOneMoment'
    BY <1>5, <2>1, JudgedStays
  <2> QED BY <1>7, <2>2, <2>4, <2>5, <2>6, <2>7, <2>8 DEF IInv
<1>13. CASE pc' = snap.fail /\ snap' = Idle
  <2>1. \/ pc = "install" /\ pc' = "error"
        \/ pc = "logs2" /\ pc' = "changed"
        \/ pc = "recheck" /\ pc' = "captureerror"
        \/ pc = "verifyagain" /\ pc' = "error"
    BY <1>3, <1>13
  <2>2. TypeOK'
    BY <1>5, <1>13, <2>1 DEF IInv, TypeOK, SnapOK, Places, Early, InStage, Late
  <2>3. UnderWay <=> UnderWay'
    BY <1>1, <1>13, <2>1 DEF UnderWay, InStage
  <2>4. PlaceOK'
    BY <1>5, <1>13, <2>1, <2>3 DEF IInv, PlaceOK, Early, Late
  <2>5. BinaryOK'
    BY <1>5, <2>1 DEF IInv, BinaryOK
  <2>6. JournalOK'
    BY <1>1, <1>5, <1>6, <2>1, <2>3, JournalStays DEF Starting
  <2>7. EvidenceOK'
    BY <2>1 DEF EvidenceOK
  <2>8. JudgedAtOneMoment'
    BY <1>5, <2>1, JudgedStays
  <2> QED BY <1>7, <2>2, <2>4, <2>5, <2>6, <2>7, <2>8 DEF IInv
<1> QED BY <1>10, <1>11, <1>12, <1>13

-----------------------------------------------------------------------------
(***************************************************************************)
(* What the controller's steps have in common.                             *)
(***************************************************************************)
LEMMA ReadStarts ==
    ASSUME NEW list \in Seq(Entries), list # <<>>, NEW ph \in {"read", "recheck"},
           NEW a \in Places, NEW b \in Places, NEW r,
           r = [phase |-> ph, left |-> list, held |-> <<>>, then |-> a, fail |-> b]
    PROVE  /\ r \in Snapshots /\ r.phase = ph /\ r.left = list /\ r.held = <<>>
           /\ r.then = a /\ r.fail = b /\ r # Idle
<1>1. r.phase = ph /\ r.left = list /\ r.held = <<>> /\ r.then = a /\ r.fail = b
  OBVIOUS
<1>2. r \in Snapshots
  <2>1. <<>> \in Seq(Entries)
    OBVIOUS
  <2> QED BY <2>1 DEF Snapshots
<1>3. r # Idle
  BY <1>1, IdlePhase
<1> QED BY <1>1, <1>2, <1>3

LEMMA AtIsIdle == ASSUME IInv, NEW l, At(l) PROVE pc = l /\ snap = Idle
BY PhaseTellsIdle DEF At

(* Writing a file of a stage leaves the campaign's receipt and every       *)
(* binary alone.                                                           *)
LEMMA StageFileWritten ==
    ASSUME IInv, NEW f \in {"start", "stdout", "stderr", "receipt", "end"},
           disk' = [disk EXCEPT ![<<Dir(stage), f>>] = "own"]
    PROVE  /\ disk' \in [Names -> Values] /\ disk'[<<"campaign">>] = disk[<<"campaign">>]
           /\ \A i \in STAGES : disk'[<<Dir(i), "binary">>] = disk[<<Dir(i), "binary">>]
<1>1. disk \in [Names -> Values] /\ stage \in STAGES
  BY DEF IInv, TypeOK
<1>2. <<Dir(stage), f>> # <<"campaign">> /\ \A i \in STAGES : <<Dir(i), "binary">> # <<Dir(stage), f>>
  BY NamesDiffer
<1>3. disk' \in [Names -> Values]
  BY <1>1 DEF Values
<1> QED BY <1>1, <1>2, <1>3, FileNames, CapsuleAssumption

(* While a stage is under way its entry is the journal's last. *)
LEMMA CurrentStage ==
    ASSUME IInv, UnderWay
    PROVE  /\ docs # <<>> /\ Len(docs) = stage /\ stage \in STAGES /\ stage \in 1 .. Len(docs)
           /\ docs[stage] \in Docs /\ Len(docs) \in Nat
           /\ pc \notin Late /\ pc \notin Early /\ pc # "finish"
<1>1. docs \in Seq(Docs) /\ Len(docs) = stage /\ stage \in STAGES
  BY DEF IInv, TypeOK, PlaceOK
<1>2. stage \in Nat /\ stage >= 1
  BY <1>1, StageNumbers
<1>3. docs # <<>> /\ stage \in 1 .. Len(docs)
  BY <1>1, <1>2
<1> QED BY <1>1, <1>2, <1>3, ElementOfSeq DEF UnderWay, Late, Early, InStage

(* A new entry d in place of the last one, with what it says of the worker *)
(* unchanged.                                                              *)
LEMMA JournalChanges ==
    ASSUME IInv, UnderWay, NEW d \in Docs, docs' = [docs EXCEPT ![Len(docs)] = d],
           UNCHANGED <<ran, clock, stage>>, UnderWay', pc' # "work", ~Starting',
           d.started = docs[stage].started, d.outcome = docs[stage].outcome,
           d.complete = docs[stage].complete,
           d.unchanged => docs[stage].unchanged \/ ran[stage].binary = "own"
    PROVE  JournalOK' /\ docs' \in Seq(Docs) /\ Len(docs') = Len(docs)
<1>1. /\ docs # <<>> /\ Len(docs) = stage /\ stage \in 1 .. Len(docs)
      /\ docs \in Seq(Docs)
  BY CurrentStage DEF IInv, TypeOK
<1>2. /\ docs' \in Seq(Docs) /\ Len(docs') = Len(docs) /\ docs'[stage] = d
      /\ \A i \in 1 .. Len(docs) : i # stage => docs'[i] = docs[i]
  BY <1>1, LastUpdated
<1>3. ASSUME NEW i \in 1 .. Len(docs) PROVE Truthful(i)'
  <2>1. Truthful(i)
    BY DEF IInv, JournalOK
  <2>2. CASE i = stage
    BY <1>1, <1>2, <2>1, <2>2 DEF Truthful
  <2>3. CASE i # stage
    BY <1>1, <1>2, <2>1, <2>3 DEF Truthful
  <2> QED BY <2>2, <2>3
<1> QED BY <1>2, <1>3 DEF JournalOK

-----------------------------------------------------------------------------
(***************************************************************************)
(* Before the window opens.                                                *)
(***************************************************************************)

LEMMA loadKeeps == ASSUME IInv, load PROVE IInv'
<1> USE DEF load, files, journal, truth
<1>1. pc = "load" /\ snap = Idle /\ pc' = "load"
  BY AtIsIdle
<1>2. /\ snap' \in Snapshots /\ snap'.phase = "read" /\ snap'.left # <<>>
      /\ snap'.then = "install" /\ snap'.fail = "error" /\ snap' # Idle
  <2> DEFINE list == Members("A", "own") \o Members("B", "own")
  <2>1. list \in Seq(Entries) /\ list # <<>> /\ "install" \in Places /\ "error" \in Places
    BY LoadedMembers DEF Places, Early, Late
  <2>2. snap' = [phase |-> "read", left |-> list, held |-> <<>>, then |-> "install", fail |-> "error"]
    BY DEF ReadAll
  <2> HIDE DEF list
  <2> QED BY <2>1, <2>2, ReadStarts
<1>3. TypeOK'
  BY <1>1, <1>2 DEF IInv, TypeOK, SnapOK, Readings
<1>4. ~UnderWay /\ ~UnderWay' /\ ~Starting'
  BY <1>1 DEF UnderWay, Starting, InStage
<1>5. PlaceOK' /\ BinaryOK'
  BY <1>1, <1>2, <1>4 DEF IInv, PlaceOK, BinaryOK
<1>6. JournalOK'
  <2>1. clock \in Nat
    BY DEF IInv, TypeOK
  <2> QED BY <1>1, <1>4, <2>1, JournalStays
<1>7. EvidenceOK'
  BY <1>1 DEF EvidenceOK
<1>8. AcceptedRanAsPlanned' /\ JudgedAtOneMoment'
  BY <1>1, AcceptedStays, JudgedStays
<1> QED BY <1>3, <1>5, <1>6, <1>7, <1>8 DEF IInv

LEMMA installKeeps == ASSUME IInv, install PROVE IInv'
<1> USE DEF install, journal, truth
<1>1. /\ pc = "install" /\ snap = Idle /\ kept # <<>> /\ kept \in Seq(Entries)
      /\ \A i \in STAGES : ran[i] = NotRun
  BY AtIsIdle DEF IInv, TypeOK, PlaceOK, Early
<1>2. disk' \in [Names -> Values] /\ disk'[<<"campaign">>] = disk[<<"campaign">>]
  <2>1. CASE compatible
    <3> DEFINE installed == {<<Dir(i), m>> : i \in STAGES, m \in ToSet(Capsule)}
    <3>1. <<"campaign">> \notin installed
      BY NamesDiffer
    <3>2. disk' = [n \in Names |-> IF n \in installed THEN "own" ELSE disk[n]]
      BY <2>1
    <3> HIDE DEF installed
    <3> QED BY <3>1, <3>2, FileNames DEF IInv, TypeOK, Values
  <2>2. CASE ~compatible
    BY <2>2 DEF IInv, TypeOK
  <2> QED BY <2>1, <2>2
<1>3. \/ pc' = "error" /\ snap' = Idle
      \/ /\ pc' = "install" /\ snap' \in Snapshots /\ snap'.phase = "recheck" /\ snap'.left # <<>>
         /\ snap'.then = "plan" /\ snap'.fail = "error" /\ snap' # Idle
  BY <1>1, ReadStarts DEF ReadAgain, Places, Early, Late
<1>4. TypeOK'
  BY <1>1, <1>2, <1>3 DEF IInv, TypeOK, SnapOK, Rereadings, Places, Late
<1>5. ~UnderWay /\ ~UnderWay' /\ ~Starting'
  BY <1>1, <1>3 DEF UnderWay, Starting, InStage
<1>6. PlaceOK'
  BY <1>1, <1>2, <1>3, <1>5 DEF IInv, PlaceOK, Early, Late
<1>7. BinaryOK'
  BY <1>1, <1>3 DEF BinaryOK, NotRun
<1>8. JournalOK'
  <2>1. clock \in Nat
    BY DEF IInv, TypeOK
  <2> QED BY <1>1, <1>3, <1>5, <2>1, JournalStays
<1>9. EvidenceOK'
  BY <1>3 DEF EvidenceOK
<1>10. AcceptedRanAsPlanned' /\ JudgedAtOneMoment'
  BY <1>3, AcceptedStays, JudgedStays
<1> QED BY <1>4, <1>6, <1>7, <1>8, <1>9, <1>10 DEF IInv

LEMMA savePlanKeeps == ASSUME IInv, savePlan PROVE IInv'
<1> USE DEF savePlan, journal, truth
<1>1. /\ pc = "plan" /\ snap = Idle /\ pc' = "admit" /\ snap' = Idle
      /\ docs = <<>> /\ stage = 1 /\ \A i \in STAGES : ran[i] = NotRun
  BY AtIsIdle DEF IInv, PlaceOK, Early
<1>2. disk' \in [Names -> Values] /\ disk'[<<"campaign">>] = disk[<<"campaign">>]
  BY NamesDiffer, FileNames DEF IInv, TypeOK, Values
<1>3. TypeOK'
  BY <1>1, <1>2 DEF IInv, TypeOK, SnapOK, Places
<1>4. ~UnderWay /\ ~UnderWay' /\ ~Starting'
  BY <1>1 DEF UnderWay, Starting, InStage
<1>5. PlaceOK'
  BY <1>1, <1>2, <1>4 DEF IInv, PlaceOK, Early, Late
<1>6. BinaryOK'
  BY <1>1 DEF BinaryOK, NotRun
<1>7. JournalOK'
  <2>1. clock \in Nat
    BY DEF IInv, TypeOK
  <2> QED BY <1>1, <1>4, <2>1, JournalStays
<1>8. EvidenceOK'
  BY <1>1 DEF EvidenceOK
<1>9. AcceptedRanAsPlanned' /\ JudgedAtOneMoment'
  BY <1>1, AcceptedStays, JudgedStays
<1> QED BY <1>3, <1>5, <1>6, <1>7, <1>8, <1>9 DEF IInv

-----------------------------------------------------------------------------
(***************************************************************************)
(* One stage.                                                              *)
(***************************************************************************)

LEMMA admitKeeps == ASSUME IInv, admit PROVE IInv'
<1> USE DEF journal, truth
<1>1. /\ pc = "admit" /\ snap = Idle /\ Len(docs) = stage - 1 /\ stage \in STAGES
      /\ clock \in Nat /\ docs \in Seq(Docs) /\ Len(docs) \in Nat
  BY AtIsIdle, LenProperties DEF admit, IInv, TypeOK, PlaceOK
<1>2. ~UnderWay
  BY <1>1 DEF UnderWay, InStage
<1>3. UNCHANGED <<foreign, compatible, stage, kept, clock, ended, verdict, ran, whole>>
  BY DEF admit
<1>4. AcceptedRanAsPlanned' /\ JudgedAtOneMoment'
  BY <1>1, <1>3, NoVerdictYet DEF Late
<1>5. CASE failure' = TRUE /\ pc' = "finish" /\ UNCHANGED <<disk, docs, snap>>
  <2>1. TypeOK'
    BY <1>1, <1>3, <1>5 DEF IInv, TypeOK, SnapOK, Places
  <2>2. ~UnderWay' /\ ~Starting'
    BY <1>5 DEF UnderWay, Starting, InStage
  <2>3. PlaceOK'
    BY <1>1, <1>3, <1>5, <2>2 DEF IInv, PlaceOK, Early, Late
  <2>4. BinaryOK'
    BY <1>3, <1>5 DEF IInv, BinaryOK
  <2>5. JournalOK'
    BY <1>1, <1>2, <1>3, <1>5, <2>2, JournalStays
  <2>6. EvidenceOK'
    BY <1>5 DEF EvidenceOK
  <2> QED BY <1>4, <2>1, <2>3, <2>4, <2>5, <2>6 DEF IInv
<1>6. CASE /\ docs' = Append(docs, NewDoc(clock))
           /\ disk' = [disk EXCEPT ![<<Dir(stage), "start">>] = "own"]
           /\ ReadAll(Members(Dir(stage), "own"), "spawn", "captureerror")
           /\ UNCHANGED <<failure, pc>>
  <2>1. /\ NewDoc(clock) \in Docs /\ docs' \in Seq(Docs) /\ Len(docs') = stage
        /\ docs'[stage] = NewDoc(clock) /\ \A i \in 1 .. Len(docs) : docs'[i] = docs[i]
    <3>1. NewDoc(clock) \in Docs
      BY <1>1, NewDocType
    <3>2. stage \in Nat
      BY <1>1, StageNumbers
    <3> HIDE DEF NewDoc
    <3> QED BY <1>1, <1>6, <3>1, <3>2, AppendProperties
  <2>2. /\ snap' \in Snapshots /\ snap'.phase = "read" /\ snap'.left # <<>>
        /\ snap'.then = "spawn" /\ snap'.fail = "captureerror" /\ snap' # Idle
        /\ Has(snap'.left, Binary(stage))
    <3> DEFINE list == Members(Dir(stage), "own")
    <3>1. list \in Seq(Entries) /\ list # <<>> /\ Has(list, Binary(stage))
      BY <1>1, FileNames, MembersType DEF Binary
    <3>2. "spawn" \in Places /\ "captureerror" \in Places
      BY DEF Places, InStage
    <3>3. snap' = [phase |-> "read", left |-> list, held |-> <<>>, then |-> "spawn", fail |-> "captureerror"]
      BY <1>6 DEF ReadAll
    <3> HIDE DEF list
    <3> QED BY <3>1, <3>2, <3>3, ReadStarts
  <2>3. /\ disk' \in [Names -> Values] /\ disk'[<<"campaign">>] = disk[<<"campaign">>]
        /\ \A i \in STAGES : disk'[<<Dir(i), "binary">>] = disk[<<Dir(i), "binary">>]
    BY <1>6, StageFileWritten
  <2>4. TypeOK'
    BY <1>1, <1>3, <1>6, <2>1, <2>2, <2>3 DEF IInv, TypeOK, SnapOK, Readings
  <2>5. UnderWay' /\ Starting'
    BY <1>1, <1>6, <2>2 DEF UnderWay, Starting
  <2>6. PlaceOK'
    BY <1>1, <1>3, <1>6, <2>1, <2>2, <2>3, <2>5, StageNumbers DEF IInv, PlaceOK, Early, Late
  <2>7. BinaryOK'
    BY <1>1, <1>3, <1>6, <2>2, <2>3 DEF IInv, BinaryOK, Binary
  <2>8. JournalOK'
    <3>1. ASSUME NEW i \in 1 .. Len(docs) PROVE Truthful(i)'
      <4>1. Truthful(i) /\ i # Len(docs')
        BY <1>1, <2>1 DEF IInv, JournalOK
      <4> QED BY <1>2, <1>3, <2>1, <4>1 DEF Truthful
    <3>2. /\ docs'[stage].started = clock /\ docs'[stage].unchanged = FALSE
          /\ docs'[stage].outcome = "none"
      BY <2>1 DEF NewDoc
    <3>3. Truthful(stage)'
      BY <1>1, <1>3, <3>2 DEF Truthful
    <3>4. \A i \in 1 .. Len(docs') : i \in 1 .. Len(docs) \/ i = stage
      BY <1>1, <2>1
    <3> QED BY <1>1, <1>3, <1>6, <3>1, <3>2, <3>3, <3>4 DEF JournalOK
  <2>9. EvidenceOK'
    BY <1>1, <1>6 DEF EvidenceOK
  <2> QED BY <1>4, <2>4, <2>6, <2>7, <2>8, <2>9 DEF IInv
<1> QED BY <1>5, <1>6 DEF admit

(* The worker is whatever the binary's file holds when it is started. *)
LEMMA spawnKeeps == ASSUME IInv, spawn PROVE IInv'
<1> USE DEF journal, truth
<1>1. pc = "spawn" /\ snap = Idle /\ pc' = "work" /\ snap' = Idle
  BY AtIsIdle DEF spawn
<1>2. UnderWay /\ UnderWay' /\ ~Starting' /\ Starting
  BY <1>1 DEF UnderWay, Starting, InStage
<1>3. UNCHANGED <<foreign, compatible, stage, kept, clock, docs, ended, failure, verdict, whole>>
  BY DEF spawn
<1>4. AcceptedRanAsPlanned' /\ JudgedAtOneMoment'
  BY <1>1, <1>3, NoVerdictYet DEF Late
<1>5. /\ docs # <<>> /\ Len(docs) = stage /\ stage \in STAGES /\ stage \in 1 .. Len(docs)
      /\ docs[stage] \in Docs /\ Len(docs) \in Nat
  BY <1>2, CurrentStage
<1>6. disk \in [Names -> Values] /\ ran \in [STAGES -> Runs] /\ clock \in Nat
  BY DEF IInv, TypeOK
<1>7. disk[<<Dir(stage), "binary">>] \in Values
  BY <1>5, <1>6, FileNames, CapsuleAssumption
<1>8. /\ ran' \in [STAGES -> Runs] /\ \A i \in STAGES : i # stage => ran'[i] = ran[i]
      /\ ran'[stage].binary = disk[<<Dir(stage), "binary">>] /\ ran'[stage].from = clock
  <2> DEFINE b == disk[<<Dir(stage), "binary">>]
  <2>1. ran' = [ran EXCEPT ![stage].binary = b, ![stage].from = clock]
    BY DEF spawn
  <2>2. b \in Values
    BY <1>7
  <2> HIDE DEF b
  <2>3. ran[stage] \in Runs
    BY <1>5, <1>6
  <2>4. [ran[stage] EXCEPT !.binary = b, !.from = clock] \in Runs
    BY <1>6, <2>2, <2>3 DEF Runs
  <2>5. ran'[stage] = [ran[stage] EXCEPT !.binary = b, !.from = clock]
    BY <1>5, <1>6, <2>1
  <2>6. ran'[stage].binary = b /\ ran'[stage].from = clock
    BY <2>3, <2>5 DEF Runs
  <2>7. ran' \in [STAGES -> Runs] /\ \A i \in STAGES : i # stage => ran'[i] = ran[i]
    BY <1>5, <1>6, <2>1, <2>4, <2>5
  <2> QED BY <2>6, <2>7 DEF b
<1>9. /\ disk' \in [Names -> Values] /\ disk'[<<"campaign">>] = disk[<<"campaign">>]
      /\ \A i \in STAGES : disk'[<<Dir(i), "binary">>] = disk[<<Dir(i), "binary">>]
  <2>1. disk' = [disk EXCEPT ![<<Dir(stage), "stdout">>] = "own", ![<<Dir(stage), "stderr">>] = "own"]
    BY DEF spawn
  <2>2. disk' \in [Names -> Values]
    BY <1>6, <2>1 DEF Values
  <2>3. \A n \in Names : n # <<Dir(stage), "stdout">> /\ n # <<Dir(stage), "stderr">> => disk'[n] = disk[n]
    BY <1>6, <2>1
  <2>4. <<"campaign">> # <<Dir(stage), "stdout">> /\ <<"campaign">> # <<Dir(stage), "stderr">>
    BY NamesDiffer
  <2>5. \A i \in STAGES : /\ <<Dir(i), "binary">> # <<Dir(stage), "stdout">>
                          /\ <<Dir(i), "binary">> # <<Dir(stage), "stderr">>
    BY NamesDiffer
  <2>6. \A i \in STAGES : <<Dir(i), "binary">> \in Names
    BY FileNames, CapsuleAssumption
  <2> QED BY <2>2, <2>3, <2>4, <2>5, <2>6, FileNames
<1>10. TypeOK'
  BY <1>1, <1>3, <1>8, <1>9 DEF IInv, TypeOK, SnapOK, Places, InStage
<1>11. PlaceOK'
  BY <1>1, <1>2, <1>3, <1>9 DEF IInv, PlaceOK, Early, Late
<1>12. BinaryOK'
  <2>1. ASSUME NEW i \in STAGES, ran'[i].binary \in {"absent", "foreign"}
        PROVE  disk'[<<Dir(i), "binary">>] # "own"
    <3>1. CASE i = stage
      BY <1>8, <1>9, <2>1, <3>1
    <3>2. CASE i # stage
      BY <1>8, <1>9, <2>1, <3>2 DEF IInv, BinaryOK
    <3> QED BY <3>1, <3>2
  <2>2. ran'[stage].binary # "none"
    BY <1>7, <1>8 DEF Values
  <2>3. Has(kept, Binary(stage))
    BY <1>1 DEF IInv, BinaryOK
  <2> QED BY <1>1, <1>3, <2>1, <2>2, <2>3 DEF BinaryOK, Binary
<1>13. JournalOK'
  <2>1. ~docs[stage].unchanged /\ docs[stage].outcome = "none" /\ docs[stage].started <= clock
    BY <1>2, <1>5 DEF IInv, JournalOK, Truthful
  <2>2. ASSUME NEW i \in 1 .. Len(docs) PROVE Truthful(i)'
    <3>1. Truthful(i)
      BY DEF IInv, JournalOK
    <3>2. CASE i = stage
      BY <1>3, <2>1, <3>2 DEF Truthful
    <3>3. CASE i # stage
      <4>1. ran'[i] = ran[i]
        BY <1>5, <1>8, <3>3, StageNumbers
      <4> QED BY <1>2, <1>3, <3>1, <4>1 DEF Truthful
    <3> QED BY <3>2, <3>3
  <2>3. ran'[stage].from <= clock
    BY <1>6, <1>8
  <2> QED BY <1>2, <1>3, <1>8, <2>1, <2>2, <2>3 DEF JournalOK
<1>14. EvidenceOK'
  BY <1>1 DEF EvidenceOK
<1> QED BY <1>4, <1>10, <1>11, <1>12, <1>13, <1>14 DEF IInv

LEMMA executeKeeps ==
    ASSUME IInv, NEW ending \in Outcomes \ {"none"}, NEW complete \in BOOLEAN,
           execute(ending, complete)
    PROVE  IInv'
<1> USE DEF files, truth
<1>1. pc = "work" /\ snap = Idle /\ pc' = "logs" /\ snap' = Idle
  BY AtIsIdle DEF execute
<1>2. UnderWay /\ UnderWay' /\ ~Starting'
  BY <1>1 DEF UnderWay, Starting, InStage
<1>3. UNCHANGED <<disk, foreign, compatible, stage, kept, clock, ended, failure, verdict, whole>>
  BY DEF execute
<1>4. AcceptedRanAsPlanned' /\ JudgedAtOneMoment'
  BY <1>1, <1>3, NoVerdictYet DEF Late
<1>5. /\ docs # <<>> /\ Len(docs) = stage /\ stage \in STAGES /\ stage \in 1 .. Len(docs)
      /\ docs[stage] \in Docs /\ Len(docs) \in Nat
  BY <1>2, CurrentStage
<1>6. docs \in Seq(Docs) /\ ran \in [STAGES -> Runs] /\ clock \in Nat
  BY DEF IInv, TypeOK
<1>7. /\ ran' \in [STAGES -> Runs] /\ \A i \in STAGES : i # stage => ran'[i] = ran[i]
      /\ ran'[stage].binary = ran[stage].binary /\ ran'[stage].from = ran[stage].from
      /\ ran'[stage].outcome = ending /\ ran'[stage].complete = complete /\ ran'[stage].to = clock
  <2>1. ran' = [ran EXCEPT ![stage].outcome = ending, ![stage].complete = complete,
                           ![stage].to = clock]
    BY DEF execute
  <2>2. ran[stage] \in Runs
    BY <1>5, <1>6
  <2> DEFINE r == [ran[stage] EXCEPT !.outcome = ending, !.complete = complete, !.to = clock]
  <2>3. /\ r \in Runs /\ r.binary = ran[stage].binary /\ r.from = ran[stage].from
        /\ r.outcome = ending /\ r.complete = complete /\ r.to = clock
    BY <1>6, <2>2 DEF Runs
  <2>4. ran'[stage] = r
    BY <1>5, <1>6, <2>1
  <2> HIDE DEF r
  <2>5. ran' \in [STAGES -> Runs] /\ \A i \in STAGES : i # stage => ran'[i] = ran[i]
    BY <1>5, <1>6, <2>1, <2>3, <2>4
  <2> QED BY <2>3, <2>4, <2>5
<1>8. PICK d \in Docs :
         /\ docs' = [docs EXCEPT ![Len(docs)] = d]
         /\ d.started = docs[stage].started /\ d.unchanged = docs[stage].unchanged
         /\ d.outcome = ending /\ d.complete = complete
  <2> DEFINE d == [docs[stage] EXCEPT !.outcome = ending, !.complete = complete]
  <2>1. /\ d \in Docs /\ d.started = docs[stage].started /\ d.unchanged = docs[stage].unchanged
        /\ d.outcome = ending /\ d.complete = complete
    BY <1>5 DEF Docs
  <2>2. docs' = [docs EXCEPT ![Len(docs)] = d]
    BY <1>5, <1>6 DEF execute
  <2> HIDE DEF d
  <2> QED BY <2>1, <2>2
<1>9. /\ docs' \in Seq(Docs) /\ Len(docs') = Len(docs) /\ docs'[stage] = d
      /\ \A i \in 1 .. Len(docs) : i # stage => docs'[i] = docs[i]
  BY <1>5, <1>6, <1>8, LastUpdated
<1>10. TypeOK'
  BY <1>1, <1>3, <1>7, <1>9 DEF IInv, TypeOK, SnapOK, Places, InStage
<1>11. PlaceOK'
  BY <1>1, <1>2, <1>3, <1>9 DEF IInv, PlaceOK, Early, Late
<1>12. BinaryOK'
  BY <1>1, <1>3, <1>5, <1>7 DEF IInv, BinaryOK, Binary
<1>13. JournalOK'
  <2>1. ASSUME NEW i \in 1 .. Len(docs) PROVE Truthful(i)'
    <3>1. Truthful(i)
      BY DEF IInv, JournalOK
    <3>2. CASE i = stage
      <4>1. docs[stage].started <= ran[stage].from /\ ran[stage].from <= clock
        BY <1>1 DEF IInv, JournalOK
      <4>2. ran'[stage].to <= clock
        BY <1>6, <1>7
      <4> QED BY <1>2, <1>3, <1>5, <1>7, <1>8, <1>9, <3>1, <3>2, <4>1, <4>2 DEF Truthful
    <3>3. CASE i # stage
      <4>1. ran'[i] = ran[i]
        BY <1>5, <1>7, <3>3, StageNumbers
      <4> QED BY <1>2, <1>3, <1>9, <3>1, <3>3, <4>1 DEF Truthful
    <3> QED BY <3>2, <3>3
  <2> QED BY <1>1, <1>2, <1>9, <2>1 DEF JournalOK
<1>14. EvidenceOK'
  BY <1>1 DEF EvidenceOK
<1> QED BY <1>4, <1>10, <1>11, <1>12, <1>13, <1>14 DEF IInv

(* A step inside a stage that writes at most the stage's receipt and at    *)
(* most one field of its entry.                                            *)
LEMMA StageGoesOn ==
    ASSUME IInv, pc \in InStage \ {"spawn", "work"},
           pc' \in InStage \ {"spawn", "work", "logs", "same"},
           UNCHANGED <<foreign, compatible, stage, kept, clock, ended, failure, verdict, ran, whole>>,
           UNCHANGED disk \/ disk' = [disk EXCEPT ![<<Dir(stage), "receipt">>] = "own"],
           \/ UNCHANGED docs
           \/ \E d \in Docs :
                /\ docs' = [docs EXCEPT ![Len(docs)] = d]
                /\ d.started = docs[stage].started /\ d.outcome = docs[stage].outcome
                /\ d.complete = docs[stage].complete
                /\ d.unchanged => docs[stage].unchanged \/ ran[stage].binary = "own",
           \/ snap' = Idle
           \/ /\ snap' \in Snapshots /\ snap'.left # <<>>
              /\ snap'.phase = "read" => <<pc', snap'.then, snap'.fail>> \in Readings
              /\ snap'.phase = "recheck" => <<pc', snap'.then, snap'.fail>> \in Rereadings,
           pc' \in {"logs2", "recheck"} /\ snap' = Idle => kept # <<>>,
           pc' = "logs2" => pc \in {"logs", "logs2"},
           pc' = "logs2" /\ snap' = Idle => Has(kept, Binary(stage)),
           pc' = "logs2" /\ snap' # Idle => Has(snap'.left, Binary(stage))
    PROVE  IInv'
<1>1. UnderWay /\ UnderWay' /\ ~Starting'
  BY DEF UnderWay, Starting, InStage
<1>2. AcceptedRanAsPlanned' /\ JudgedAtOneMoment'
  BY NoVerdictYet DEF Late, InStage
<1>3. /\ disk' \in [Names -> Values] /\ disk'[<<"campaign">>] = disk[<<"campaign">>]
      /\ \A i \in STAGES : disk'[<<Dir(i), "binary">>] = disk[<<Dir(i), "binary">>]
  <2>1. CASE UNCHANGED disk
    BY <2>1 DEF IInv, TypeOK
  <2>2. CASE disk' = [disk EXCEPT ![<<Dir(stage), "receipt">>] = "own"]
    BY <2>2, StageFileWritten
  <2> QED BY <2>1, <2>2
<1>4. JournalOK' /\ docs' \in Seq(Docs) /\ Len(docs') = Len(docs)
  <2>1. CASE UNCHANGED docs
    <3>1. clock \in Nat /\ docs \in Seq(Docs)
      BY DEF IInv, TypeOK
    <3>2. pc' # "work"
      BY DEF InStage
    <3> QED BY <1>1, <2>1, <3>1, <3>2, JournalStays
  <2>2. ASSUME NEW d \in Docs,
               docs' = [docs EXCEPT ![Len(docs)] = d],
               d.started = docs[stage].started, d.outcome = docs[stage].outcome,
               d.complete = docs[stage].complete,
               d.unchanged => docs[stage].unchanged \/ ran[stage].binary = "own"
        PROVE  JournalOK' /\ docs' \in Seq(Docs) /\ Len(docs') = Len(docs)
    BY <1>1, <2>2, JournalChanges DEF InStage
  <2> QED BY <2>1, <2>2
<1>5. TypeOK'
  BY <1>3, <1>4 DEF IInv, TypeOK, SnapOK, Places
<1>6. PlaceOK'
  <2>1. pc \notin Late /\ pc' \notin Early /\ pc' # "admit"
    BY DEF Late, Early, InStage
  <2>2. pc' \notin {"install", "spawn", "work", "logs", "verifyagain"}
    BY DEF InStage
  <2> QED BY <1>1, <1>3, <1>4, <2>1, <2>2 DEF IInv, PlaceOK
<1>7. BinaryOK'
  <2>1. pc' # "admit" /\ pc' # "spawn" /\ pc' # "work"
    BY DEF InStage
  <2> QED BY <1>3, <2>1 DEF IInv, BinaryOK, Binary
<1>8. EvidenceOK'
  BY DEF EvidenceOK, InStage
<1> QED BY <1>2, <1>4, <1>5, <1>6, <1>7, <1>8 DEF IInv

LEMMA RereadsTheStage ==
    ASSUME NEW list \in Seq(Entries), list # <<>>, NEW r,
           r = [phase |-> "recheck", left |-> list, held |-> <<>>, then |-> "same", fail |-> "changed"]
    PROVE  /\ r \in Snapshots /\ r.phase = "recheck" /\ r.left = list
           /\ r.then = "same" /\ r.fail = "changed"
<1>1. "same" \in Places /\ "changed" \in Places
  BY DEF Places, InStage
<1> QED BY <1>1, ReadStarts

LEMMA boundedLogKeeps ==
    ASSUME IInv, boundedLog("stdout", "") \/ boundedLog("stderr", "same") PROVE IInv'
<1> USE DEF files, truth
<1>1. PICK f \in {"stdout", "stderr"}, t \in {"", "same"} :
         boundedLog(f, t) /\ (f = "stdout" <=> t = "")
  OBVIOUS
<1>2. /\ snap = Idle /\ f = "stdout" => pc = "logs"
      /\ f = "stderr" => pc = "logs2"
      /\ pc \in {"logs", "logs2"}
  BY <1>1, AtIsIdle DEF boundedLog
<1>3. UNCHANGED <<disk, foreign, compatible, stage, kept, clock, ended, failure, verdict, ran, whole>>
  BY <1>1 DEF boundedLog
<1>4. snap = Idle
  BY <1>1, PhaseTellsIdle DEF boundedLog, At
<1>5. kept # <<>> /\ kept \in Seq(Entries) /\ Has(kept, Binary(stage))
  BY <1>2, <1>4 DEF IInv, TypeOK, PlaceOK, BinaryOK
<1>6. UnderWay
  BY <1>2 DEF UnderWay, InStage
<1>7. docs[stage] \in Docs /\ Len(docs) = stage /\ stage \in STAGES
  BY <1>6, CurrentStage
<1>8. CASE pc' = "captureerror" /\ UNCHANGED <<docs, snap>>
  <2>1. pc' \in InStage \ {"spawn", "work", "logs", "same"} /\ pc \in InStage \ {"spawn", "work"}
    BY <1>2, <1>8 DEF InStage
  <2> QED BY <1>3, <1>4, <1>8, <2>1, StageGoesOn
<1>9. CASE /\ Record(f, disk[<<Dir(stage), f>>])
           /\ IF t = "" THEN pc' = "logs2" /\ UNCHANGED snap
                        ELSE ReadAgain(kept, t, "changed") /\ UNCHANGED pc
  <2>1. disk[<<Dir(stage), f>>] \in Values
    BY <1>7, FileNames DEF IInv, TypeOK
  <2>2. PICK v \in Values : v = disk[<<Dir(stage), f>>]
    BY <2>1
  <2>3. \E d \in Docs :
          /\ docs' = [docs EXCEPT ![Len(docs)] = d]
          /\ d.started = docs[stage].started /\ d.outcome = docs[stage].outcome
          /\ d.complete = docs[stage].complete /\ d.unchanged = docs[stage].unchanged
    <3> DEFINE d == [docs[stage] EXCEPT ![f] = v]
    <3>1. docs' = [docs EXCEPT ![Len(docs)] = d]
      BY <1>7, <1>9, <2>2 DEF Record
    <3>2. d \in Docs
      BY <1>7, DocTypes
    <3>3. /\ d.started = docs[stage].started /\ d.outcome = docs[stage].outcome
          /\ d.complete = docs[stage].complete /\ d.unchanged = docs[stage].unchanged
      BY <1>7 DEF Docs
    <3> HIDE DEF d
    <3> QED BY <3>1, <3>2, <3>3
  <2>4. pc' = "logs2"
    BY <1>1, <1>2, <1>9
  <2>5. \/ snap' = Idle
        \/ /\ snap' \in Snapshots /\ snap'.phase = "recheck" /\ snap'.left = kept
           /\ snap'.then = "same" /\ snap'.fail = "changed"
    <3>1. CASE t = ""
      BY <1>4, <1>9, <3>1
    <3>2. CASE t = "same"
      <4>2. snap' = [phase |-> "recheck", left |-> kept, held |-> <<>>, then |-> "same", fail |-> "changed"]
        BY <1>9, <3>2 DEF ReadAgain
      <4>3. /\ snap' \in Snapshots /\ snap'.phase = "recheck" /\ snap'.left = kept
            /\ snap'.then = "same" /\ snap'.fail = "changed"
        <5>1. kept \in Seq(Entries) /\ kept # <<>>
          BY <1>5
        <5>2. PICK r : r = snap'
          OBVIOUS
        <5>3. r = [phase |-> "recheck", left |-> kept, held |-> <<>>, then |-> "same", fail |-> "changed"]
          BY <4>2, <5>2
        <5>4. /\ r \in Snapshots /\ r.phase = "recheck" /\ r.left = kept
              /\ r.then = "same" /\ r.fail = "changed"
          BY <5>1, <5>3, RereadsTheStage
        <5> QED BY <5>2, <5>4
      <4> QED BY <4>3
    <3> QED BY <3>1, <3>2
  <2>6. \/ snap' = Idle
        \/ /\ snap' \in Snapshots /\ snap'.left # <<>>
           /\ snap'.phase = "read" => <<pc', snap'.then, snap'.fail>> \in Readings
           /\ snap'.phase = "recheck" => <<pc', snap'.then, snap'.fail>> \in Rereadings
    BY <1>5, <2>4, <2>5 DEF Rereadings
  <2>7. snap' # Idle => Has(snap'.left, Binary(stage))
    BY <1>5, <2>5
  <2>8. pc' \in InStage \ {"spawn", "work", "logs", "same"} /\ pc \in InStage \ {"spawn", "work"}
    BY <1>2, <2>4 DEF InStage
  <2> QED BY <1>2, <1>3, <1>5, <2>3, <2>4, <2>6, <2>7, <2>8, StageGoesOn
<1> QED BY <1>1, <1>8, <1>9 DEF boundedLog

LEMMA writeReceiptKeeps == ASSUME IInv, writeReceipt PROVE IInv'
<1> USE DEF truth
<1>1. /\ pc \in {"same", "changed"} /\ snap = Idle /\ pc' = "pin" /\ snap' = Idle
      /\ pc \in InStage \ {"spawn", "work"} /\ pc' \in InStage \ {"spawn", "work", "logs", "same"}
      /\ disk' = [disk EXCEPT ![<<Dir(stage), "receipt">>] = "own"]
      /\ UNCHANGED <<foreign, compatible, stage, kept, clock, ended, failure, verdict, ran, whole>>
  BY PhaseTellsIdle DEF writeReceipt, InStage
<1>2. docs[stage] \in Docs /\ Len(docs) = stage
  BY <1>1, CurrentStage DEF UnderWay
<1>3. PICK b \in BOOLEAN : b = (pc = "same")
  OBVIOUS
<1>4. b => ran[stage].binary = "own"
  BY <1>3 DEF IInv, BinaryOK
<1>5. \E d \in Docs :
        /\ docs' = [docs EXCEPT ![Len(docs)] = d]
        /\ d.started = docs[stage].started /\ d.outcome = docs[stage].outcome
        /\ d.complete = docs[stage].complete /\ d.unchanged = b
  <2> DEFINE d == [docs[stage] EXCEPT !["unchanged"] = b]
  <2>1. docs' = [docs EXCEPT ![Len(docs)] = d]
    BY <1>2, <1>3 DEF Record, writeReceipt
  <2>2. d \in Docs
    BY <1>2, DocTypes
  <2>3. /\ d.started = docs[stage].started /\ d.outcome = docs[stage].outcome
        /\ d.complete = docs[stage].complete /\ d.unchanged = b
    BY <1>2 DEF Docs
  <2> HIDE DEF d
  <2> QED BY <2>1, <2>2, <2>3
<1> QED BY <1>1, <1>4, <1>5, StageGoesOn

LEMMA pinReceiptKeeps == ASSUME IInv, pinReceipt PROVE IInv'
<1> USE DEF files, truth
<1>1. /\ pc = "pin" /\ snap = Idle /\ pc' = "check" /\ snap' = Idle
      /\ pc \in InStage \ {"spawn", "work"} /\ pc' \in InStage \ {"spawn", "work", "logs", "same"}
      /\ UNCHANGED <<disk, foreign, compatible, stage, kept, clock, ended, failure, verdict, ran, whole>>
  BY AtIsIdle DEF pinReceipt, InStage
<1>2. docs[stage] \in Docs /\ Len(docs) = stage /\ stage \in STAGES
  BY <1>1, CurrentStage DEF UnderWay
<1>3. PICK v \in Values : v = disk[<<Dir(stage), "receipt">>]
  BY <1>2, FileNames DEF IInv, TypeOK
<1>4. \E d \in Docs :
        /\ docs' = [docs EXCEPT ![Len(docs)] = d]
        /\ d.started = docs[stage].started /\ d.outcome = docs[stage].outcome
        /\ d.complete = docs[stage].complete /\ d.unchanged = docs[stage].unchanged
  <2> DEFINE d == [docs[stage] EXCEPT !["receipt"] = v]
  <2>1. docs' = [docs EXCEPT ![Len(docs)] = d]
    BY <1>2, <1>3 DEF Record, pinReceipt
  <2>2. d \in Docs
    BY <1>2, DocTypes
  <2>3. /\ d.started = docs[stage].started /\ d.outcome = docs[stage].outcome
        /\ d.complete = docs[stage].complete /\ d.unchanged = docs[stage].unchanged
    BY <1>2 DEF Docs
  <2> HIDE DEF d
  <2> QED BY <2>1, <2>2, <2>3
<1> QED BY <1>1, <1>4, StageGoesOn

LEMMA checkStageKeeps == ASSUME IInv, checkStage PROVE IInv'
<1> USE DEF files, journal, truth
<1>1. /\ pc = "check" /\ snap = Idle /\ pc' = "check"
      /\ pc \in InStage \ {"spawn", "work"} /\ pc' \in InStage \ {"spawn", "work", "logs", "same"}
      /\ UNCHANGED <<disk, foreign, compatible, stage, kept, clock, docs, ended, failure, verdict, ran, whole>>
  BY AtIsIdle DEF checkStage, InStage
<1>2. docs[stage] \in Docs /\ stage \in STAGES
  BY <1>1, CurrentStage DEF UnderWay
<1>3. /\ snap' \in Snapshots /\ snap'.phase = "read" /\ snap'.left # <<>>
      /\ snap'.then = "recheck" /\ snap'.fail = "captureerror"
  <2> DEFINE list == StageMembers(stage)
  <2>1. /\ list \in Seq(Entries) /\ list # <<>>
        /\ "recheck" \in Places /\ "captureerror" \in Places
    BY <1>2, StageMembersType DEF Places, InStage
  <2>2. snap' = [phase |-> "read", left |-> list, held |-> <<>>, then |-> "recheck", fail |-> "captureerror"]
    BY DEF ReadAll, checkStage
  <2> HIDE DEF list
  <2> QED BY <2>1, <2>2, ReadStarts
<1>4. <<pc', snap'.then, snap'.fail>> \in Readings
  BY <1>1, <1>3 DEF Readings
<1> QED BY <1>1, <1>3, <1>4, StageGoesOn

LEMMA recheckStageKeeps == ASSUME IInv, recheckStage PROVE IInv'
<1> USE DEF files, journal, truth
<1>1. /\ pc = "recheck" /\ snap = Idle /\ pc' = "recheck"
      /\ pc \in InStage \ {"spawn", "work"} /\ pc' \in InStage \ {"spawn", "work", "logs", "same"}
      /\ UNCHANGED <<disk, foreign, compatible, stage, kept, clock, docs, ended, failure, verdict, ran, whole>>
  BY AtIsIdle DEF recheckStage, InStage
<1>2. kept # <<>> /\ kept \in Seq(Entries)
  BY <1>1 DEF IInv, TypeOK, PlaceOK
<1>3. /\ snap' \in Snapshots /\ snap'.phase = "recheck" /\ snap'.left # <<>>
      /\ snap'.then = "checked" /\ snap'.fail = "captureerror"
  <2>1. "checked" \in Places /\ "captureerror" \in Places
    BY DEF Places, InStage
  <2>2. snap' = [phase |-> "recheck", left |-> kept, held |-> <<>>, then |-> "checked", fail |-> "captureerror"]
    BY DEF ReadAgain, recheckStage
  <2> QED BY <1>2, <2>1, <2>2, ReadStarts
<1>4. <<pc', snap'.then, snap'.fail>> \in Rereadings
  BY <1>1, <1>3 DEF Rereadings
<1> QED BY <1>1, <1>2, <1>3, <1>4, StageGoesOn

LEMMA capturedKeeps == ASSUME IInv, captured PROVE IInv'
<1> USE DEF files, truth
<1>1. /\ pc \in {"checked", "captureerror"} /\ snap = Idle /\ pc' = "stageend" /\ snap' = Idle
      /\ pc \in InStage \ {"spawn", "work"} /\ pc' \in InStage \ {"spawn", "work", "logs", "same"}
      /\ UNCHANGED <<disk, foreign, compatible, stage, kept, clock, ended, failure, verdict, ran, whole>>
  BY PhaseTellsIdle DEF captured, InStage
<1>2. docs[stage] \in Docs /\ Len(docs) = stage /\ docs \in Seq(Docs) /\ stage \in 1 .. Len(docs)
  BY <1>1, CurrentStage DEF UnderWay, IInv, TypeOK
<1>3. PICK b \in BOOLEAN : b = (pc = "checked")
  OBVIOUS
<1>4. PICK c \in BOOLEAN : c = (pc = "checked" /\ StageAccepted(docs[Len(docs)]))
  OBVIOUS
<1>5. \E d \in Docs :
        /\ docs' = [docs EXCEPT ![Len(docs)] = d]
        /\ d.started = docs[stage].started /\ d.outcome = docs[stage].outcome
        /\ d.complete = docs[stage].complete /\ d.unchanged = docs[stage].unchanged
  <2> DEFINE d == [docs[stage] EXCEPT !.captured = b, !.accepted = c]
  <2>1. docs' = [docs EXCEPT ![Len(docs)].captured = b, ![Len(docs)].accepted = c]
    BY <1>3, <1>4 DEF captured
  <2>2. docs' = [docs EXCEPT ![Len(docs)] = d]
    BY <1>2, <2>1
  <2>3. d \in Docs
    BY <1>2, DocTypes
  <2>4. /\ d.started = docs[stage].started /\ d.outcome = docs[stage].outcome
        /\ d.complete = docs[stage].complete /\ d.unchanged = docs[stage].unchanged
    BY <1>2 DEF Docs
  <2> HIDE DEF d
  <2> QED BY <2>2, <2>3, <2>4
<1> QED BY <1>1, <1>5, StageGoesOn

(* The end of a stage is later than its worker's. *)
LEMMA endStageKeeps == ASSUME IInv, endStage PROVE IInv'
<1> USE DEF truth
<1>1. pc = "stageend" /\ snap = Idle /\ snap' = Idle
  BY AtIsIdle DEF endStage
<1>2. UNCHANGED <<foreign, compatible, kept, clock, ended, verdict, ran, whole>>
  BY DEF endStage
<1>3. UnderWay
  BY <1>1 DEF UnderWay, InStage
<1>4. /\ docs # <<>> /\ Len(docs) = stage /\ stage \in STAGES /\ stage \in 1 .. Len(docs)
      /\ docs[stage] \in Docs /\ Len(docs) \in Nat /\ docs \in Seq(Docs) /\ clock \in Nat
  BY <1>3, CurrentStage DEF IInv, TypeOK
<1>5. PICK d \in Docs :
        /\ docs' = [docs EXCEPT ![Len(docs)] = d]
        /\ d.started = docs[stage].started /\ d.outcome = docs[stage].outcome
        /\ d.complete = docs[stage].complete /\ d.unchanged = docs[stage].unchanged
        /\ d.ended = clock
  <2> DEFINE d == [docs[stage] EXCEPT !["ended"] = clock]
  <2>1. docs' = [docs EXCEPT ![Len(docs)] = d]
    BY <1>4 DEF Record, endStage
  <2>2. d \in Docs
    BY <1>4, DocTypes
  <2>3. /\ d.started = docs[stage].started /\ d.outcome = docs[stage].outcome
        /\ d.complete = docs[stage].complete /\ d.unchanged = docs[stage].unchanged
        /\ d.ended = clock
    BY <1>4 DEF Docs
  <2> HIDE DEF d
  <2> QED BY <2>1, <2>2, <2>3
<1>6. /\ docs' \in Seq(Docs) /\ Len(docs') = Len(docs) /\ docs'[stage] = d
      /\ \A i \in 1 .. Len(docs) : i # stage => docs'[i] = docs[i]
  BY <1>4, <1>5, LastUpdated
<1>7. /\ \/ pc' = "admit" /\ stage' = stage + 1 /\ stage < Len(Stages)
         \/ pc' = "finish" /\ stage' = stage
      /\ failure' \in BOOLEAN
  BY DEF endStage
<1>8. stage' \in STAGES /\ (pc' = "admit" => stage' - 1 = stage)
  BY <1>4, <1>7, StageNumbers
<1>9. /\ disk' \in [Names -> Values] /\ disk'[<<"campaign">>] = disk[<<"campaign">>]
      /\ \A i \in STAGES : disk'[<<Dir(i), "binary">>] = disk[<<Dir(i), "binary">>]
  BY StageFileWritten DEF endStage
<1>10. ~UnderWay' /\ ~Starting'
  BY <1>1, <1>7 DEF UnderWay, Starting, InStage
<1>11. TypeOK'
  BY <1>1, <1>2, <1>6, <1>7, <1>8, <1>9 DEF IInv, TypeOK, SnapOK, Places
<1>12. PlaceOK'
  BY <1>1, <1>2, <1>4, <1>6, <1>7, <1>8, <1>9, <1>10 DEF IInv, PlaceOK, Early, Late
<1>13. BinaryOK'
  BY <1>1, <1>2, <1>7, <1>9 DEF IInv, BinaryOK
<1>14. JournalOK'
  <2>1. ASSUME NEW i \in 1 .. Len(docs) PROVE Truthful(i)'
    <3>1. Truthful(i)
      BY DEF IInv, JournalOK
    <3>2. CASE i = stage
      BY <1>2, <1>5, <1>6, <1>10, <3>1, <3>2 DEF Truthful
    <3>3. CASE i # stage
      BY <1>2, <1>4, <1>6, <1>10, <3>1, <3>3 DEF Truthful
    <3> QED BY <3>2, <3>3
  <2> QED BY <1>6, <1>7, <1>10, <2>1 DEF JournalOK
<1>15. EvidenceOK'
  BY <1>7 DEF EvidenceOK
<1>16. AcceptedRanAsPlanned' /\ JudgedAtOneMoment'
  BY <1>1, <1>2, NoVerdictYet DEF Late
<1> QED BY <1>11, <1>12, <1>13, <1>14, <1>15, <1>16 DEF IInv

LEMMA finishKeeps == ASSUME IInv, finish PROVE IInv'
<1> USE DEF truth
<1>1. /\ pc = "finish" /\ snap = Idle /\ pc' = "verify" /\ snap' = Idle
      /\ UNCHANGED <<foreign, compatible, stage, kept, clock, docs, failure, verdict, ran, whole>>
      /\ ended' = clock /\ clock \in Nat
  BY AtIsIdle DEF finish, IInv, TypeOK
<1>2. /\ disk' \in [Names -> Values]
      /\ \A i \in STAGES : disk'[<<Dir(i), "binary">>] = disk[<<Dir(i), "binary">>]
  <2>1. disk' = [disk EXCEPT ![<<"campaign">>] = "own"] /\ disk \in [Names -> Values]
    BY DEF finish, IInv, TypeOK
  <2>2. \A i \in STAGES : <<Dir(i), "binary">> \in Names /\ <<Dir(i), "binary">> # <<"campaign">>
    BY FileNames, CapsuleAssumption, NamesDiffer
  <2> QED BY <2>1, <2>2 DEF Values
<1>3. ~UnderWay /\ ~UnderWay' /\ ~Starting'
  BY <1>1 DEF UnderWay, Starting, InStage
<1>4. TypeOK'
  BY <1>1, <1>2 DEF IInv, TypeOK, SnapOK, Places, Late
<1>5. PlaceOK'
  BY <1>1, <1>3 DEF IInv, PlaceOK, Early, Late
<1>6. BinaryOK'
  BY <1>1, <1>2 DEF IInv, BinaryOK
<1>7. JournalOK'
  BY <1>1, <1>3, JournalStays
<1>8. EvidenceOK'
  BY <1>1 DEF EvidenceOK
<1>9. AcceptedRanAsPlanned' /\ JudgedAtOneMoment'
  BY <1>1, AcceptedStays, JudgedStays
<1> QED BY <1>4, <1>5, <1>6, <1>7, <1>8, <1>9 DEF IInv

-----------------------------------------------------------------------------
(***************************************************************************)
(* The judgement.                                                          *)
(***************************************************************************)

(* A step after the last stage that changes no file, no journal and no     *)
(* truth keeps what was recorded.                                          *)
LEMMA LateStep ==
    ASSUME IInv, pc \in Late, pc' \in Late,
           UNCHANGED <<disk, foreign, compatible, stage, clock, docs, ended, failure, ran>>,
           kept' \in Seq(Entries), whole' \in BOOLEAN,
           \/ snap' = Idle
           \/ /\ snap' \in Snapshots /\ snap'.left # <<>>
              /\ snap'.phase = "read" => <<pc', snap'.then, snap'.fail>> \in Readings
              /\ snap'.phase = "recheck" => <<pc', snap'.then, snap'.fail>> \in Rereadings,
           verdict' \in [capture : {"none", "lost", "accepted", "refused", "error"},
                         replay : {"none", "accepted", "refused", "error"}],
           verdict'.replay # "none" => verdict'.capture # "none",
           pc' = "verifyagain" => snap' # Idle
    PROVE  TypeOK' /\ PlaceOK' /\ BinaryOK' /\ JournalOK'
<1>1. ~UnderWay /\ ~UnderWay' /\ ~Starting'
  BY DEF UnderWay, Starting, InStage, Late
<1>2. TypeOK'
  BY DEF IInv, TypeOK, SnapOK, Places
<1>3. PlaceOK'
  <2>1. pc' \notin Early \cup {"admit", "spawn", "work", "logs", "logs2", "recheck"}
    BY DEF Late, Early
  <2> QED BY <1>1, <2>1 DEF IInv, PlaceOK, Early
<1>4. BinaryOK'
  <2>1. pc' \notin {"admit", "spawn", "work", "logs", "logs2", "same"}
    BY DEF Late
  <2> QED BY <2>1 DEF IInv, BinaryOK
<1>5. JournalOK'
  <2>1. clock \in Nat /\ pc' # "work"
    BY DEF IInv, TypeOK, Late
  <2> QED BY <1>1, <2>1, JournalStays
<1> QED BY <1>2, <1>3, <1>4, <1>5

LEMMA verifyKeeps == ASSUME IInv, verify PROVE IInv'
<1> USE DEF files, journal, truth
<1>1. /\ pc = "verify" /\ snap = Idle /\ pc' = "verify" /\ pc \in Late
      /\ UNCHANGED <<disk, foreign, compatible, stage, kept, clock, docs, ended, failure, verdict, ran, whole>>
  BY AtIsIdle DEF verify, Late
<1>2. /\ snap' \in Snapshots /\ snap'.phase = "read" /\ snap'.left # <<>> /\ snap'.held = <<>>
      /\ snap'.then = "verifyagain" /\ snap'.fail = "error" /\ snap' # Idle
  <2> DEFINE list == CampaignMembers
  <2>1. /\ list \in Seq(Entries) /\ list # <<>> /\ "verifyagain" \in Places /\ "error" \in Places
    BY CampaignMembersType DEF IInv, TypeOK, PlaceOK, Places, Late
  <2>2. snap' = [phase |-> "read", left |-> list, held |-> <<>>, then |-> "verifyagain", fail |-> "error"]
    BY DEF ReadAll, verify
  <2> HIDE DEF list
  <2> QED BY <2>1, <2>2, ReadStarts
<1>3. TypeOK' /\ PlaceOK' /\ BinaryOK' /\ JournalOK'
  <2>1. <<pc', snap'.then, snap'.fail>> \in Readings
    BY <1>1, <1>2 DEF Readings
  <2>2. /\ kept \in Seq(Entries) /\ whole \in BOOLEAN
        /\ verdict \in [capture : {"none", "lost", "accepted", "refused", "error"},
                        replay : {"none", "accepted", "refused", "error"}]
        /\ verdict.replay # "none" => verdict.capture # "none"
    BY DEF IInv, TypeOK, PlaceOK
  <2> QED BY <1>1, <1>2, <2>1, <2>2, LateStep
<1>4. EvidenceOK'
  <2>1. Settled(snap.held)' 
    BY <1>2 DEF Settled
  <2> QED BY <1>1, <2>1 DEF EvidenceOK
<1>5. AcceptedRanAsPlanned' /\ JudgedAtOneMoment'
  BY <1>1, AcceptedStays, JudgedStays
<1> QED BY <1>3, <1>4, <1>5 DEF IInv

(* What is wrong when the second reading begins had the controller's bytes *)
(* when it was read first, and does not have them any more.                *)
LEMMA verifyAgainKeeps == ASSUME IInv, verifyAgain PROVE IInv'
<1> USE DEF files, journal
<1>1. /\ pc = "verifyagain" /\ snap = Idle /\ pc' = "verifyagain" /\ pc \in Late
      /\ UNCHANGED <<disk, foreign, compatible, stage, kept, clock, docs, ended, failure, verdict, ran>>
      /\ whole' = AllRight(kept)
  BY AtIsIdle DEF verifyAgain, Late
<1>2. kept # <<>> /\ kept \in Seq(Entries) /\ Settled(kept)
  BY <1>1 DEF IInv, TypeOK, PlaceOK, EvidenceOK
<1>3. /\ snap' \in Snapshots /\ snap'.phase = "recheck" /\ snap'.left = kept
      /\ snap'.then = "judge" /\ snap'.fail = "error" /\ snap' # Idle
  <2>1. "judge" \in Places /\ "error" \in Places
    BY DEF Places, Late
  <2>2. snap' = [phase |-> "recheck", left |-> kept, held |-> <<>>, then |-> "judge", fail |-> "error"]
    BY DEF ReadAgain, verifyAgain
  <2> QED BY <1>2, <2>1, <2>2, ReadStarts
<1>4. TypeOK' /\ PlaceOK' /\ BinaryOK' /\ JournalOK'
  <2>1. <<pc', snap'.then, snap'.fail>> \in Rereadings
    BY <1>1, <1>3 DEF Rereadings
  <2>2. /\ whole' \in BOOLEAN
        /\ verdict \in [capture : {"none", "lost", "accepted", "refused", "error"},
                        replay : {"none", "accepted", "refused", "error"}]
        /\ verdict.replay # "none" => verdict.capture # "none"
    BY <1>1 DEF IInv, TypeOK, PlaceOK, AllRight
  <2> QED BY <1>1, <1>2, <1>3, <2>1, <2>2, LateStep
<1>5. EvidenceOK'
  <2>1. ASSUME ~whole'
        PROVE  \E k \in 1 .. Len(kept) : kept[k][2] = "own" /\ disk[kept[k][1]] # "own"
    <3>1. PICK k \in 1 .. Len(kept) : disk[kept[k][1]] # kept[k][2]
      BY <1>1, <2>1 DEF AllRight
    <3>2. kept[k][2] = "own"
      BY <1>2, <3>1 DEF Settled
    <3> QED BY <3>1, <3>2
  <2> QED BY <1>1, <1>3, <2>1 DEF EvidenceOK
<1>6. AcceptedRanAsPlanned' /\ JudgedAtOneMoment'
  BY <1>1, AcceptedStays DEF JudgedAtOneMoment, At
<1> QED BY <1>4, <1>5, <1>6 DEF IInv

(* The verdict that is answered. *)
LEMMA Answered ==
    ASSUME IInv, NEW v \in {"accepted", "refused", "error"}, Answer(v)
    PROVE  /\ verdict' \in [capture : {"none", "lost", "accepted", "refused", "error"},
                            replay : {"none", "accepted", "refused", "error"}]
           /\ verdict'.capture # "none"
           /\ "accepted" \in {verdict'.capture, verdict'.replay} =>
                v = "accepted" \/ "accepted" \in {verdict.capture, verdict.replay}
           /\ verdict'.replay = "none" => verdict'.capture = v
           /\ verdict'.replay # "none" => verdict'.replay = v
<1>1. /\ verdict \in [capture : {"none", "lost", "accepted", "refused", "error"},
                      replay : {"none", "accepted", "refused", "error"}]
      /\ verdict.replay # "none" => verdict.capture # "none"
  BY DEF IInv, TypeOK, PlaceOK
<1>2. CASE verdict.capture = "none"
  <2>1. verdict' = [verdict EXCEPT !.capture = v]
    BY <1>2 DEF Answer
  <2> QED BY <1>1, <1>2, <2>1
<1>3. CASE verdict.capture # "none"
  <2>1. verdict' = [verdict EXCEPT !.replay = v]
    BY <1>3 DEF Answer
  <2> QED BY <1>1, <1>3, <2>1
<1> QED BY <1>2, <1>3

(* What the journal of an accepted campaign says is what happened. *)
LEMMA AcceptedIsTrue ==
    ASSUME IInv, CampaignAccepted, ~UnderWay, NEW i \in STAGES
    PROVE  /\ ran[i].binary = "own" /\ ran[i].outcome = "zero" /\ ran[i].complete
           /\ ran[i].from <= ran[i].to /\ docs[i].ended - ran[i].from <= StageBudget
           /\ docs[i].ended <= WindowBudget
           /\ i > 1 => /\ ran[i - 1].to <= ran[i].from
                       /\ docs[i].started - docs[i - 1].ended <= GapBudget
<1>1. /\ docs \in Seq(Docs) /\ Len(docs) = Len(Stages) /\ ran \in [STAGES -> Runs]
  BY DEF IInv, TypeOK, CampaignAccepted
<1>2. ASSUME NEW j \in STAGES
      PROVE  /\ docs[j].started \in Nat /\ docs[j].ended \in Nat
             /\ ran[j].from \in Nat /\ ran[j].to \in Nat
             /\ ran[j].binary = "own" /\ ran[j].outcome = "zero" /\ ran[j].complete
             /\ docs[j].started <= ran[j].from /\ ran[j].from <= ran[j].to
             /\ ran[j].to <= docs[j].ended
  <2>1. j \in 1 .. Len(docs)
    BY <1>1, StageNumbers
  <2>2. docs[j] \in Docs /\ ran[j] \in Runs
    BY <1>1, <2>1, ElementOfSeq
  <2>3. docs[j].started \in Nat /\ docs[j].ended \in Nat /\ ran[j].from \in Nat /\ ran[j].to \in Nat
    BY <2>2 DEF Docs, Runs
  <2>4. docs[j].complete /\ docs[j].outcome = "zero" /\ docs[j].unchanged
    BY DEF CampaignAccepted, StageAccepted
  <2>5. Truthful(j)
    BY <2>1 DEF IInv, JournalOK
  <2> QED BY <2>3, <2>4, <2>5 DEF Truthful
<1>3. /\ docs[i].ended <= WindowBudget /\ docs[i].ended - docs[i].started <= StageBudget
      /\ (IF i = 1 THEN 0 ELSE docs[i - 1].ended) <= docs[i].started
      /\ docs[i].started - (IF i = 1 THEN 0 ELSE docs[i - 1].ended) <= GapBudget
  BY DEF CampaignAccepted, interval
<1>4. StageBudget \in Nat
  BY BudgetAssumption
<1>5. docs[i].ended - ran[i].from <= StageBudget
  BY <1>2, <1>3, <1>4
<1>6. ASSUME i > 1
      PROVE  ran[i - 1].to <= ran[i].from /\ docs[i].started - docs[i - 1].ended <= GapBudget
  <2>1. i - 1 \in STAGES /\ i # 1
    BY <1>6, StageNumbers
  <2> QED BY <1>2, <1>3, <2>1
<1> QED BY <1>2, <1>3, <1>5, <1>6

LEMMA judgeKeeps == ASSUME IInv, judge PROVE IInv'
<1> USE DEF files, journal, truth
<1>1. /\ pc = "judge" /\ snap = Idle /\ pc' = "done" /\ snap' = Idle /\ pc \in Late /\ pc' \in Late
      /\ UNCHANGED <<disk, foreign, compatible, stage, kept, clock, docs, ended, failure, ran, whole>>
  BY AtIsIdle DEF judge, Late
<1>2. PICK v \in {"accepted", "refused", "error"} :
         Answer(v) /\ (v = "accepted" => CampaignAccepted)
  BY DEF judge
<1>3. /\ verdict' \in [capture : {"none", "lost", "accepted", "refused", "error"},
                       replay : {"none", "accepted", "refused", "error"}]
      /\ verdict'.capture # "none"
      /\ "accepted" \in {verdict'.capture, verdict'.replay} =>
           v = "accepted" \/ "accepted" \in {verdict.capture, verdict.replay}
  BY <1>2, Answered
<1>4. kept \in Seq(Entries) /\ whole
  BY <1>1 DEF IInv, TypeOK, EvidenceOK
<1>5. TypeOK' /\ PlaceOK' /\ BinaryOK' /\ JournalOK'
  BY <1>1, <1>3, <1>4, LateStep
<1>6. EvidenceOK' /\ JudgedAtOneMoment'
  BY <1>1, <1>4 DEF EvidenceOK, JudgedAtOneMoment
<1>7. AcceptedRanAsPlanned'
  <2>1. CASE "accepted" \in {verdict.capture, verdict.replay}
    BY <1>1, <2>1 DEF IInv, AcceptedRanAsPlanned
  <2>2. CASE v = "accepted"
    <3>1. ~UnderWay
      BY <1>1 DEF UnderWay, InStage
    <3> QED BY <1>1, <1>2, <2>2, <3>1, AcceptedIsTrue DEF AcceptedRanAsPlanned
  <2>3. CASE "accepted" \notin {verdict'.capture, verdict'.replay}
    BY <2>3 DEF AcceptedRanAsPlanned
  <2> QED BY <1>3, <2>1, <2>2, <2>3
<1> QED BY <1>5, <1>6, <1>7 DEF IInv

LEMMA errorKeeps == ASSUME IInv, error PROVE IInv'
<1> USE DEF files, journal, truth
<1>1. /\ pc = "error" /\ snap = Idle /\ pc' = "done" /\ snap' = Idle /\ pc \in Late /\ pc' \in Late
      /\ UNCHANGED <<disk, foreign, compatible, stage, kept, clock, docs, ended, failure, ran, whole>>
  BY AtIsIdle DEF error, Late
<1>2. /\ verdict' \in [capture : {"none", "lost", "accepted", "refused", "error"},
                       replay : {"none", "accepted", "refused", "error"}]
      /\ verdict'.capture # "none"
      /\ "accepted" \in {verdict'.capture, verdict'.replay} =>
           "accepted" \in {verdict.capture, verdict.replay}
      /\ verdict'.replay = "none" => verdict'.capture = "error"
      /\ verdict'.replay # "none" => verdict'.replay = "error"
  <2>1. Answer("error")
    BY DEF error
  <2> QED BY <2>1, Answered
<1>3. kept \in Seq(Entries) /\ whole \in BOOLEAN
  BY DEF IInv, TypeOK
<1>4. TypeOK' /\ PlaceOK' /\ BinaryOK' /\ JournalOK'
  BY <1>1, <1>2, <1>3, LateStep
<1>5. EvidenceOK' /\ JudgedAtOneMoment'
  BY <1>1, <1>2 DEF EvidenceOK, JudgedAtOneMoment
<1>6. AcceptedRanAsPlanned'
  BY <1>1, <1>2 DEF IInv, AcceptedRanAsPlanned
<1> QED BY <1>4, <1>5, <1>6 DEF IInv

LEMMA replayKeeps == ASSUME IInv, replay PROVE IInv'
<1> USE DEF files, journal, truth
<1>1. /\ pc \in {"done", "crashed"} /\ pc' = "verify" /\ kept' = <<>> /\ pc \in Late /\ pc' \in Late
      /\ UNCHANGED <<disk, foreign, compatible, stage, snap, clock, docs, ended, failure, verdict, ran, whole>>
  BY DEF replay, Late
<1>2. snap = Idle
  BY <1>1 DEF IInv, TypeOK, SnapOK, Snapshots, Readings, Rereadings
<1>3. /\ verdict \in [capture : {"none", "lost", "accepted", "refused", "error"},
                      replay : {"none", "accepted", "refused", "error"}]
      /\ verdict.replay # "none" => verdict.capture # "none"
      /\ whole \in BOOLEAN /\ kept' \in Seq(Entries)
  BY <1>1 DEF IInv, TypeOK, PlaceOK
<1>4. TypeOK' /\ PlaceOK' /\ BinaryOK' /\ JournalOK'
  BY <1>1, <1>2, <1>3, LateStep
<1>5. EvidenceOK' /\ AcceptedRanAsPlanned' /\ JudgedAtOneMoment'
  BY <1>1, <1>2, AcceptedStays, JudgedStays DEF EvidenceOK
<1> QED BY <1>4, <1>5 DEF IInv

-----------------------------------------------------------------------------
(***************************************************************************)
(* The theorems.                                                           *)
(***************************************************************************)
LEMMA Inductive == IInv /\ [Next]_vars => IInv'
<1> SUFFICES ASSUME IInv, [Next]_vars PROVE IInv'
  OBVIOUS
<1>1. CASE Controller
  BY <1>1, bindKeeps, unchangedKeeps, loadKeeps, installKeeps, savePlanKeeps, admitKeeps, spawnKeeps,
     boundedLogKeeps, writeReceiptKeeps, pinReceiptKeeps, checkStageKeeps, recheckStageKeeps,
     capturedKeeps, endStageKeeps, finishKeeps, verifyKeeps, verifyAgainKeeps, judgeKeeps, errorKeeps,
     replayKeeps DEF Controller
<1>2. CASE WorkerEnds \/ TimesOut
  BY <1>2, executeKeeps DEF WorkerEnds, TimesOut, Outcomes
<1>3. CASE Tick \/ Crash \/ (\E n \in Names : ForeignWrite(n))
  BY <1>3, TickKeeps, CrashKeeps, ForeignWriteKeeps
<1>4. CASE UNCHANGED vars
  <2>1. UNCHANGED <<disk, foreign, compatible, pc, stage, snap, kept, clock, docs, ended,
                    failure, verdict, ran, whole>>
    BY <1>4 DEF vars
  <2>2. TypeOK' /\ PlaceOK' /\ BinaryOK'
    BY <2>1 DEF IInv, TypeOK, SnapOK, PlaceOK, BinaryOK, UnderWay
  <2>3. JournalOK' /\ EvidenceOK'
    BY <2>1 DEF IInv, JournalOK, Truthful, UnderWay, Starting, EvidenceOK, Settled
  <2>4. AcceptedRanAsPlanned' /\ JudgedAtOneMoment'
    BY <2>1, AcceptedStays, JudgedStays
  <2> QED BY <2>2, <2>3, <2>4 DEF IInv
<1> QED BY <1>1, <1>2, <1>3, <1>4 DEF Next, Stopped

(* Every variable keeps its type; a snapshot in progress has members left  *)
(* to read and leads to the places the code continues at                   *)
(* (campaign::capture, campaign::verify).                                  *)
THEOREM TypeCorrect == Spec => []TypeOK
<1>1. IInv => TypeOK
  BY DEF IInv
<1> QED BY InitIInv, Inductive, <1>1, PTL DEF Spec

(* For any capsule, stages, budgets and foreign writes, across a crash: if *)
(* a capture or a replay accepts, each worker was the pinned binary, ended *)
(* with status zero and every case reported, one after the other, inside   *)
(* its stage, the window and the gaps.                                     *)
THEOREM AcceptedCampaignsRanAsPlanned == Spec => []AcceptedRanAsPlanned
<1>1. IInv => AcceptedRanAsPlanned
  BY DEF IInv
<1> QED BY InitIInv, Inductive, <1>1, PTL DEF Spec

(* A verdict is passed on evidence all of which was on disk at one moment  *)
(* (campaign::verify reads everything again before it judges).             *)
THEOREM JudgedTogether == Spec => []JudgedAtOneMoment
<1>1. IInv => JudgedAtOneMoment
  BY DEF IInv
<1> QED BY InitIInv, Inductive, <1>1, PTL DEF Spec

-----------------------------------------------------------------------------
(***************************************************************************)
(* The supervisor of a stage's worker (OwnedProcess), for any leader and   *)
(* any number of workers it may fork: a reported reaping means that nobody *)
(* of the group is alive, no signal follows the reaping of the leader, and *)
(* an accepted exit is the leader's own.                                   *)
(***************************************************************************)

Codes == {Owned!None, "zero", "nonzero", "signal"}
Reasons == {Owned!None, "cancelled", "spawn_failed", "output_limit", "guard_failed",
            "timeout", "poll_error", "exited"}
Signalling == {"signal", "list", "inspect", "again", "refused"}
OwnedPlaces == Owned!PollSites \cup Signalling \cup
          {"spawn", "size", "guard", "size2", "exitsize", "exitguard", "cancel", "time",
           "exited", "stopped", "unstopped", "pollerror", "term", "killed", "reap", "done"}

Envs == [cancelled : BOOLEAN, expired : BOOLEAN, broke : {Owned!None, "over", "bad"}]
Signals == [kill : BOOLEAN, then : {Owned!None, "reap", "wait1", "wait2"}]
Views == [list : SUBSET Owned!Procs, exited : SUBSET Owned!Procs, previous : SUBSET Owned!Procs,
          complete : BOOLEAN]
OwnedOutcomes == [reason : Reasons, code : Codes, reaped : BOOLEAN]

(* Every variable keeps its type. *)
OwnedTypeOK ==
  /\ proc \in [Owned!Procs -> {"absent", "alive", "dying", "zombie", "gone"}]
  /\ stubborn \subseteq Owned!Procs
  /\ code \in Codes
  /\ darwin \in BOOLEAN
  /\ mode \in {"execute", "run"}
  /\ env \in Envs
  /\ place \in OwnedPlaces
  /\ site \in Owned!PollSites \cup {Owned!None}
  /\ sig \in Signals
  /\ status \in Codes
  /\ view \in Views
  /\ stops \in 0 .. 2
  /\ outcome \in OwnedOutcomes
  /\ stray \in BOOLEAN

(* Process::status and the leader: it is set exactly when the leader has   *)
(* been reaped, to the way the leader ended.                               *)
StatusIsExit ==
  /\ status # Owned!None <=> proc[Leader] = "gone"
  /\ status # Owned!None => status = code
  /\ proc[Leader] \in {"zombie", "gone"} => code # Owned!None

(* What the place of the supervisor says of the leader. *)
OwnedPlaceOK ==
  /\ place = "spawn" => outcome = Owned!NoOutcome /\ \A p \in Owned!Procs : proc[p] = "absent"
  /\ place \in Signalling \cup {"term", "killed", "reap"} => status = Owned!None
  /\ place \in Signalling => sig.then # Owned!None
  /\ place \in Signalling /\ sig.then = "reap" => sig.kill /\ proc[Leader] = "zombie"
  /\ place = "reap" => proc[Leader] = "zombie" /\ Owned!Live = {}
  /\ place \in {"exited", "exitsize", "exitguard", "stopped"} => status # Owned!None

Ended(S) == \A p \in S : proc[p] \in {"zombie", "gone"}

(* Darwin's two listings: whoever was seen to have exited has, and a second *)
(* listing that adds nobody was made when nobody was left alive.           *)
ViewsOK ==
  /\ Ended(view.exited) /\ Ended(view.previous)
  /\ place = "inspect" /\ view.complete /\ view.list \cup view.exited \subseteq view.previous
       => Owned!Live = {}

(* Nobody is left alive once the leader is reaped or a reaping reported. *)
Quiet == status # Owned!None \/ outcome.reaped => Owned!Live = {}

(* An exit is accepted with the limits looked at after the group was gone. *)
AcceptOK ==
  /\ place = "exitguard" => env.broke # "over"
  /\ outcome.reason = "exited" =>
       /\ status # Owned!None /\ outcome.code = status
       /\ mode = "execute" => env.broke = Owned!None

(* The inductive invariant. *)
OwnedInv == OwnedTypeOK /\ StatusIsExit /\ OwnedPlaceOK /\ ViewsOK /\ Quiet /\ AcceptOK /\ ~stray
(***************************************************************************)
(* The records the actions build have their types.                         *)
(***************************************************************************)
LEMMA OutcomeTypes ==
  /\ \A r \in Reasons, c \in Codes, b \in BOOLEAN :
        [reason |-> r, code |-> c, reaped |-> b] \in OwnedOutcomes
  /\ \A o \in OwnedOutcomes, r \in Reasons : [o EXCEPT !.reason = r] \in OwnedOutcomes
  /\ \A o \in OwnedOutcomes, b \in BOOLEAN : [o EXCEPT !.reaped = b] \in OwnedOutcomes
BY DEF OwnedOutcomes

LEMMA ViewTypes ==
  /\ Owned!NoView \in Views
  /\ \A v \in Views, P \in SUBSET Owned!Procs :
        /\ [v EXCEPT !.list = P] \in Views
        /\ [v EXCEPT !.list = P, !.exited = {}] \in Views
        /\ [Owned!NoView EXCEPT !.previous = P, !.complete = TRUE] \in Views
  /\ \A v \in Views, P, Q \in SUBSET Owned!Procs : [v EXCEPT !.list = P, !.exited = Q] \in Views
BY DEF Views, Owned!NoView

LEMMA SignalTypes ==
  /\ Owned!NoSignal \in Signals
  /\ \A b \in BOOLEAN, t \in {Owned!None, "reap", "wait1", "wait2"} :
        [kill |-> b, then |-> t] \in Signals
BY DEF Signals, Owned!NoSignal

LEMMA ForkKeeps == ASSUME NEW p \in Owned!Procs, NEW q \in Workers, OwnedInv, Owned!Fork(p,
       q) PROVE OwnedInv'
BY DEF OwnedInv, OwnedTypeOK, StatusIsExit, OwnedPlaceOK, ViewsOK, Ended, Quiet, AcceptOK,
       Owned!Fork, Owned!Alive, Owned!Live, OwnedPlaces, Signalling, Owned!PollSites, Codes,
       Reasons, Owned!None, Owned!fixed, Owned!group, Owned!Procs, Envs, Signals, Views,
       OwnedOutcomes

LEMMA WorkerExitsKeeps == ASSUME NEW p \in Workers, OwnedInv,
       Owned!WorkerExits(p) PROVE OwnedInv'
BY DEF OwnedInv, OwnedTypeOK, StatusIsExit, OwnedPlaceOK, ViewsOK, Ended, Quiet, AcceptOK,
       Owned!WorkerExits, Owned!Alive, Owned!Live, OwnedPlaces, Signalling, Owned!PollSites,
       Codes, Reasons, Owned!None, Owned!fixed, Owned!group, Owned!Procs, Envs, Signals, Views,
       OwnedOutcomes

LEMMA WorkerReapedKeeps == ASSUME NEW p \in Workers, OwnedInv,
       Owned!WorkerReaped(p) PROVE OwnedInv'
BY DEF OwnedInv, OwnedTypeOK, StatusIsExit, OwnedPlaceOK, ViewsOK, Ended, Quiet, AcceptOK,
       Owned!WorkerReaped, Owned!Alive, Owned!Live, OwnedPlaces, Signalling, Owned!PollSites,
       Codes, Reasons, Owned!None, Owned!fixed, Owned!group, Owned!Procs, Envs, Signals, Views,
       OwnedOutcomes

LEMMA DiesKeeps == ASSUME NEW p \in Owned!Procs, OwnedInv, Owned!Dies(p) PROVE OwnedInv'
BY DEF OwnedInv, OwnedTypeOK, StatusIsExit, OwnedPlaceOK, ViewsOK, Ended, Quiet, AcceptOK,
       Owned!Dies, Owned!Alive, Owned!Live, OwnedPlaces, Signalling, Owned!PollSites, Codes,
       Reasons, Owned!None, Owned!fixed, Owned!group, Owned!Procs, Envs, Signals, Views,
       OwnedOutcomes

LEMMA LeaderExitsKeeps == ASSUME NEW c \in {"zero", "nonzero"}, OwnedInv,
       Owned!LeaderExits(c) PROVE OwnedInv'
BY DEF OwnedInv, OwnedTypeOK, StatusIsExit, OwnedPlaceOK, ViewsOK, Ended, Quiet, AcceptOK,
       Owned!LeaderExits, Owned!Alive, Owned!Live, OwnedPlaces, Signalling, Owned!PollSites,
       Codes, Reasons, Owned!None, Owned!fixed, Owned!group, Owned!Procs, Envs, Signals, Views,
       OwnedOutcomes

LEMMA CancelKeeps == ASSUME OwnedInv, Owned!Cancel PROVE OwnedInv'
<1>1. OwnedTypeOK'
  <2>1. env' \in Envs
    BY DEF OwnedInv, OwnedTypeOK, Owned!Cancel, Envs
  <2> QED BY <2>1 DEF OwnedInv, OwnedTypeOK, Owned!Cancel, Owned!fixed, Owned!group
<1>2. StatusIsExit'
  BY DEF OwnedInv, OwnedTypeOK, StatusIsExit, OwnedPlaceOK, ViewsOK, Ended, Quiet, AcceptOK,
         Owned!Cancel, Owned!Undisturbed, Owned!Watched, Owned!Alive, Owned!Live, OwnedPlaces,
         Signalling, Owned!PollSites, Codes, Reasons, Owned!None, Owned!fixed, Owned!group,
         Owned!Procs, Envs, Signals, Views, OwnedOutcomes
<1>3. OwnedPlaceOK'
  BY DEF OwnedInv, OwnedTypeOK, StatusIsExit, OwnedPlaceOK, ViewsOK, Ended, Quiet, AcceptOK,
         Owned!Cancel, Owned!Undisturbed, Owned!Watched, Owned!Alive, Owned!Live, OwnedPlaces,
         Signalling, Owned!PollSites, Codes, Reasons, Owned!None, Owned!fixed, Owned!group,
         Owned!Procs, Envs, Signals, Views, OwnedOutcomes
<1>4. ViewsOK'
  BY DEF OwnedInv, OwnedTypeOK, StatusIsExit, OwnedPlaceOK, ViewsOK, Ended, Quiet, AcceptOK,
         Owned!Cancel, Owned!Undisturbed, Owned!Watched, Owned!Alive, Owned!Live, OwnedPlaces,
         Signalling, Owned!PollSites, Codes, Reasons, Owned!None, Owned!fixed, Owned!group,
         Owned!Procs, Envs, Signals, Views, OwnedOutcomes
<1>5. Quiet'
  BY DEF OwnedInv, OwnedTypeOK, StatusIsExit, OwnedPlaceOK, ViewsOK, Ended, Quiet, AcceptOK,
         Owned!Cancel, Owned!Undisturbed, Owned!Watched, Owned!Alive, Owned!Live, OwnedPlaces,
         Signalling, Owned!PollSites, Codes, Reasons, Owned!None, Owned!fixed, Owned!group,
         Owned!Procs, Envs, Signals, Views, OwnedOutcomes
<1>6. AcceptOK'
  BY DEF OwnedInv, OwnedTypeOK, StatusIsExit, OwnedPlaceOK, ViewsOK, Ended, Quiet, AcceptOK,
         Owned!Cancel, Owned!Undisturbed, Owned!Watched, Owned!Alive, Owned!Live, OwnedPlaces,
         Signalling, Owned!PollSites, Codes, Reasons, Owned!None, Owned!fixed, Owned!group,
         Owned!Procs, Envs, Signals, Views, OwnedOutcomes
<1>7. ~stray'
  BY DEF OwnedInv, OwnedTypeOK, StatusIsExit, OwnedPlaceOK, ViewsOK, Ended, Quiet, AcceptOK,
         Owned!Cancel, Owned!Undisturbed, Owned!Watched, Owned!None, Owned!fixed, Owned!group
<1> QED BY <1>1, <1>2, <1>3, <1>4, <1>5, <1>6, <1>7 DEF OwnedInv

LEMMA ExpireKeeps == ASSUME OwnedInv, Owned!Expire PROVE OwnedInv'
<1>1. OwnedTypeOK'
  <2>1. env' \in Envs
    BY DEF OwnedInv, OwnedTypeOK, Owned!Expire, Envs
  <2> QED BY <2>1 DEF OwnedInv, OwnedTypeOK, Owned!Expire, Owned!fixed, Owned!group
<1>2. StatusIsExit'
  BY DEF OwnedInv, OwnedTypeOK, StatusIsExit, OwnedPlaceOK, ViewsOK, Ended, Quiet, AcceptOK,
         Owned!Expire, Owned!Watched, Owned!Alive, Owned!Live, OwnedPlaces, Signalling,
         Owned!PollSites, Codes, Reasons, Owned!None, Owned!fixed, Owned!group, Owned!Procs,
         Envs, Signals, Views, OwnedOutcomes
<1>3. OwnedPlaceOK'
  BY DEF OwnedInv, OwnedTypeOK, StatusIsExit, OwnedPlaceOK, ViewsOK, Ended, Quiet, AcceptOK,
         Owned!Expire, Owned!Watched, Owned!Alive, Owned!Live, OwnedPlaces, Signalling,
         Owned!PollSites, Codes, Reasons, Owned!None, Owned!fixed, Owned!group, Owned!Procs,
         Envs, Signals, Views, OwnedOutcomes
<1>4. ViewsOK'
  BY DEF OwnedInv, OwnedTypeOK, StatusIsExit, OwnedPlaceOK, ViewsOK, Ended, Quiet, AcceptOK,
         Owned!Expire, Owned!Watched, Owned!Alive, Owned!Live, OwnedPlaces, Signalling,
         Owned!PollSites, Codes, Reasons, Owned!None, Owned!fixed, Owned!group, Owned!Procs,
         Envs, Signals, Views, OwnedOutcomes
<1>5. Quiet'
  BY DEF OwnedInv, OwnedTypeOK, StatusIsExit, OwnedPlaceOK, ViewsOK, Ended, Quiet, AcceptOK,
         Owned!Expire, Owned!Watched, Owned!Alive, Owned!Live, OwnedPlaces, Signalling,
         Owned!PollSites, Codes, Reasons, Owned!None, Owned!fixed, Owned!group, Owned!Procs,
         Envs, Signals, Views, OwnedOutcomes
<1>6. AcceptOK'
  BY DEF OwnedInv, OwnedTypeOK, StatusIsExit, OwnedPlaceOK, ViewsOK, Ended, Quiet, AcceptOK,
         Owned!Expire, Owned!Watched, Owned!Alive, Owned!Live, OwnedPlaces, Signalling,
         Owned!PollSites, Codes, Reasons, Owned!None, Owned!fixed, Owned!group, Owned!Procs,
         Envs, Signals, Views, OwnedOutcomes
<1>7. ~stray'
  BY DEF OwnedInv, OwnedTypeOK, StatusIsExit, OwnedPlaceOK, ViewsOK, Ended, Quiet, AcceptOK,
         Owned!Expire, Owned!Watched, Owned!None, Owned!fixed, Owned!group
<1> QED BY <1>1, <1>2, <1>3, <1>4, <1>5, <1>6, <1>7 DEF OwnedInv

LEMMA OverflowKeeps == ASSUME NEW f \in {"over", "bad"}, OwnedInv,
       Owned!Overflow(f) PROVE OwnedInv'
BY DEF OwnedInv, OwnedTypeOK, StatusIsExit, OwnedPlaceOK, ViewsOK, Ended, Quiet, AcceptOK,
       Owned!Overflow, Owned!Undisturbed, Owned!Watched, Owned!Alive, Owned!Live, OwnedPlaces,
       Signalling, Owned!PollSites, Codes, Reasons, Owned!None, Owned!fixed, Owned!group,
       Owned!Procs, Envs, Signals, Views, OwnedOutcomes

LEMMA SpawnKeeps == ASSUME OwnedInv, Owned!Spawn PROVE OwnedInv'
<1>1. OwnedTypeOK'
  <2>1. outcome' \in OwnedOutcomes
    BY OutcomeTypes DEF OwnedInv, OwnedTypeOK, Owned!Spawn, Reasons, Codes, Owned!None
  <2>2. proc' \in [Owned!Procs -> {"absent", "alive", "dying", "zombie", "gone"}]
    BY DEF OwnedInv, OwnedTypeOK, Owned!Spawn, Owned!Procs
  <2>3. place' \in OwnedPlaces
    BY DEF OwnedInv, OwnedTypeOK, Owned!Spawn, OwnedPlaces, Owned!PollSites, Signalling
  <2> QED BY <2>1, <2>2, <2>3 DEF OwnedInv, OwnedTypeOK, Owned!Spawn, Owned!fixed, Owned!group
<1>2. StatusIsExit'
  BY DEF OwnedInv, OwnedTypeOK, StatusIsExit, OwnedPlaceOK, ViewsOK, Ended, Quiet, AcceptOK,
         Owned!Spawn, Owned!NoOutcome, Owned!Alive, Owned!Live, OwnedPlaces, Signalling,
         Owned!PollSites, Codes, Reasons, Owned!None, Owned!fixed, Owned!group, Owned!Procs,
         Envs, Signals, Views, OwnedOutcomes
<1>3. OwnedPlaceOK'
  BY DEF OwnedInv, OwnedTypeOK, StatusIsExit, OwnedPlaceOK, ViewsOK, Ended, Quiet, AcceptOK,
         Owned!Spawn, Owned!NoOutcome, Owned!Alive, Owned!Live, OwnedPlaces, Signalling,
         Owned!PollSites, Codes, Reasons, Owned!None, Owned!fixed, Owned!group, Owned!Procs,
         Envs, Signals, Views, OwnedOutcomes
<1>4. ViewsOK'
  BY DEF OwnedInv, OwnedTypeOK, StatusIsExit, OwnedPlaceOK, ViewsOK, Ended, Quiet, AcceptOK,
         Owned!Spawn, Owned!NoOutcome, Owned!Alive, Owned!Live, OwnedPlaces, Signalling,
         Owned!PollSites, Codes, Reasons, Owned!None, Owned!fixed, Owned!group, Owned!Procs,
         Envs, Signals, Views, OwnedOutcomes
<1>5. Quiet'
  BY DEF OwnedInv, OwnedTypeOK, StatusIsExit, OwnedPlaceOK, ViewsOK, Ended, Quiet, AcceptOK,
         Owned!Spawn, Owned!NoOutcome, Owned!Alive, Owned!Live, OwnedPlaces, Signalling,
         Owned!PollSites, Codes, Reasons, Owned!None, Owned!fixed, Owned!group, Owned!Procs,
         Envs, Signals, Views, OwnedOutcomes
<1>6. AcceptOK'
  BY DEF OwnedInv, OwnedTypeOK, StatusIsExit, OwnedPlaceOK, ViewsOK, Ended, Quiet, AcceptOK,
         Owned!Spawn, Owned!NoOutcome, Owned!Alive, Owned!Live, OwnedPlaces, Signalling,
         Owned!PollSites, Codes, Reasons, Owned!None, Owned!fixed, Owned!group, Owned!Procs,
         Envs, Signals, Views, OwnedOutcomes
<1>7. ~stray'
  BY DEF OwnedInv, OwnedTypeOK, StatusIsExit, OwnedPlaceOK, ViewsOK, Ended, Quiet, AcceptOK,
         Owned!Spawn, Owned!NoOutcome, Owned!None, Owned!fixed, Owned!group
<1> QED BY <1>1, <1>2, <1>3, <1>4, <1>5, <1>6, <1>7 DEF OwnedInv

LEMMA CheckSizeKeeps == ASSUME OwnedInv, Owned!CheckSize PROVE OwnedInv'
BY DEF OwnedInv, OwnedTypeOK, StatusIsExit, OwnedPlaceOK, ViewsOK, Ended, Quiet, AcceptOK,
       Owned!CheckSize, Owned!Break, Owned!Alive, Owned!Live, OwnedPlaces, Signalling,
       Owned!PollSites, Codes, Reasons, Owned!None, Owned!fixed, Owned!group, Owned!Procs, Envs,
       Signals, Views, OwnedOutcomes

LEMMA CheckGuardKeeps == ASSUME OwnedInv, Owned!CheckGuard PROVE OwnedInv'
<1>1. OwnedTypeOK'
  <2>1. outcome' \in OwnedOutcomes
    BY OutcomeTypes DEF OwnedInv, OwnedTypeOK, Owned!CheckGuard, Owned!Break, Owned!Decide,
                        Reasons, Codes, Owned!None
  <2>2. place' \in OwnedPlaces
    BY DEF Owned!CheckGuard, Owned!Break, Owned!Decide, OwnedPlaces, Owned!PollSites, Signalling
  <2>3. stops' \in 0 .. 2
    BY DEF OwnedInv, OwnedTypeOK, Owned!CheckGuard, Owned!Break
  <2> QED BY <2>1, <2>2, <2>3 DEF OwnedInv, OwnedTypeOK, Owned!CheckGuard, Owned!fixed,
                                  Owned!group
<1>2. StatusIsExit'
  BY DEF OwnedInv, OwnedTypeOK, StatusIsExit, OwnedPlaceOK, ViewsOK, Ended, Quiet, AcceptOK,
         Owned!CheckGuard, Owned!Break, Owned!Decide, Owned!Alive, Owned!Live, OwnedPlaces,
         Signalling, Owned!PollSites, Codes, Reasons, Owned!None, Owned!fixed, Owned!group,
         Owned!Procs, Envs, Signals, Views, OwnedOutcomes
<1>3. OwnedPlaceOK'
  BY DEF OwnedInv, OwnedTypeOK, StatusIsExit, OwnedPlaceOK, ViewsOK, Ended, Quiet, AcceptOK,
         Owned!CheckGuard, Owned!Break, Owned!Decide, Owned!Alive, Owned!Live, OwnedPlaces,
         Signalling, Owned!PollSites, Codes, Reasons, Owned!None, Owned!fixed, Owned!group,
         Owned!Procs, Envs, Signals, Views, OwnedOutcomes
<1>4. ViewsOK'
  BY DEF OwnedInv, OwnedTypeOK, StatusIsExit, OwnedPlaceOK, ViewsOK, Ended, Quiet, AcceptOK,
         Owned!CheckGuard, Owned!Break, Owned!Decide, Owned!Alive, Owned!Live, OwnedPlaces,
         Signalling, Owned!PollSites, Codes, Reasons, Owned!None, Owned!fixed, Owned!group,
         Owned!Procs, Envs, Signals, Views, OwnedOutcomes
<1>5. Quiet'
  BY DEF OwnedInv, OwnedTypeOK, StatusIsExit, OwnedPlaceOK, ViewsOK, Ended, Quiet, AcceptOK,
         Owned!CheckGuard, Owned!Break, Owned!Decide, Owned!Alive, Owned!Live, OwnedPlaces,
         Signalling, Owned!PollSites, Codes, Reasons, Owned!None, Owned!fixed, Owned!group,
         Owned!Procs, Envs, Signals, Views, OwnedOutcomes
<1>6. AcceptOK'
  BY DEF OwnedInv, OwnedTypeOK, StatusIsExit, OwnedPlaceOK, ViewsOK, Ended, Quiet, AcceptOK,
         Owned!CheckGuard, Owned!Break, Owned!Decide, Owned!Alive, Owned!Live, OwnedPlaces,
         Signalling, Owned!PollSites, Codes, Reasons, Owned!None, Owned!fixed, Owned!group,
         Owned!Procs, Envs, Signals, Views, OwnedOutcomes
<1>7. ~stray'
  BY DEF OwnedInv, OwnedTypeOK, StatusIsExit, OwnedPlaceOK, ViewsOK, Ended, Quiet, AcceptOK,
         Owned!CheckGuard, Owned!Break, Owned!Decide, Owned!None, Owned!fixed, Owned!group
<1> QED BY <1>1, <1>2, <1>3, <1>4, <1>5, <1>6, <1>7 DEF OwnedInv

LEMMA CheckCancelKeeps == ASSUME OwnedInv, Owned!CheckCancel PROVE OwnedInv'
BY DEF OwnedInv, OwnedTypeOK, StatusIsExit, OwnedPlaceOK, ViewsOK, Ended, Quiet, AcceptOK,
       Owned!CheckCancel, Owned!Break, Owned!Alive, Owned!Live, OwnedPlaces, Signalling,
       Owned!PollSites, Codes, Reasons, Owned!None, Owned!fixed, Owned!group, Owned!Procs, Envs,
       Signals, Views, OwnedOutcomes

LEMMA CheckTimeKeeps == ASSUME OwnedInv, Owned!CheckTime PROVE OwnedInv'
BY DEF OwnedInv, OwnedTypeOK, StatusIsExit, OwnedPlaceOK, ViewsOK, Ended, Quiet, AcceptOK,
       Owned!CheckTime, Owned!Break, Owned!Alive, Owned!Live, OwnedPlaces, Signalling,
       Owned!PollSites, Codes, Reasons, Owned!None, Owned!fixed, Owned!group, Owned!Procs, Envs,
       Signals, Views, OwnedOutcomes

LEMMA PollKeeps == ASSUME OwnedInv, Owned!Poll PROVE OwnedInv'
<1>1. OwnedTypeOK'
  <2>1. sig' \in Signals
    BY SignalTypes DEF OwnedInv, OwnedTypeOK, Owned!Poll, Owned!None
  <2>2. place' \in OwnedPlaces
    BY DEF Owned!Poll, Owned!OnStatus, Owned!OnNothing, Owned!OnError, OwnedPlaces,
           Owned!PollSites, Signalling
  <2>3. site' \in Owned!PollSites
    BY DEF Owned!Poll
  <2> QED BY <2>1, <2>2, <2>3 DEF OwnedInv, OwnedTypeOK, Owned!Poll, Owned!fixed, Owned!group
<1>2. StatusIsExit'
  BY DEF OwnedInv, OwnedTypeOK, StatusIsExit, OwnedPlaceOK, ViewsOK, Ended, Quiet, AcceptOK,
         Owned!Poll, Owned!OnStatus, Owned!OnNothing, Owned!OnError, Owned!Alive, Owned!Live,
         OwnedPlaces, Signalling, Owned!PollSites, Codes, Reasons, Owned!None, Owned!fixed,
         Owned!group, Owned!Procs, Envs, Signals, Views, OwnedOutcomes
<1>3. OwnedPlaceOK'
  BY DEF OwnedInv, OwnedTypeOK, StatusIsExit, OwnedPlaceOK, ViewsOK, Ended, Quiet, AcceptOK,
         Owned!Poll, Owned!OnStatus, Owned!OnNothing, Owned!OnError, Owned!Alive, Owned!Live,
         OwnedPlaces, Signalling, Owned!PollSites, Codes, Reasons, Owned!None, Owned!fixed,
         Owned!group, Owned!Procs, Envs, Signals, Views, OwnedOutcomes
<1>4. ViewsOK'
  BY DEF OwnedInv, OwnedTypeOK, StatusIsExit, OwnedPlaceOK, ViewsOK, Ended, Quiet, AcceptOK,
         Owned!Poll, Owned!OnStatus, Owned!OnNothing, Owned!OnError, Owned!Alive, Owned!Live,
         OwnedPlaces, Signalling, Owned!PollSites, Codes, Reasons, Owned!None, Owned!fixed,
         Owned!group, Owned!Procs, Envs, Signals, Views, OwnedOutcomes
<1>5. Quiet'
  BY DEF OwnedInv, OwnedTypeOK, StatusIsExit, OwnedPlaceOK, ViewsOK, Ended, Quiet, AcceptOK,
         Owned!Poll, Owned!OnStatus, Owned!OnNothing, Owned!OnError, Owned!Alive, Owned!Live,
         OwnedPlaces, Signalling, Owned!PollSites, Codes, Reasons, Owned!None, Owned!fixed,
         Owned!group, Owned!Procs, Envs, Signals, Views, OwnedOutcomes
<1>6. AcceptOK'
  BY DEF OwnedInv, OwnedTypeOK, StatusIsExit, OwnedPlaceOK, ViewsOK, Ended, Quiet, AcceptOK,
         Owned!Poll, Owned!OnStatus, Owned!OnNothing, Owned!OnError, Owned!Alive, Owned!Live,
         OwnedPlaces, Signalling, Owned!PollSites, Codes, Reasons, Owned!None, Owned!fixed,
         Owned!group, Owned!Procs, Envs, Signals, Views, OwnedOutcomes
<1>7. ~stray'
  BY DEF OwnedInv, OwnedTypeOK, StatusIsExit, OwnedPlaceOK, ViewsOK, Ended, Quiet, AcceptOK,
         Owned!Poll, Owned!OnStatus, Owned!OnNothing, Owned!OnError, Owned!None, Owned!fixed,
         Owned!group
<1> QED BY <1>1, <1>2, <1>3, <1>4, <1>5, <1>6, <1>7 DEF OwnedInv

LEMMA ReapKeeps == ASSUME OwnedInv, Owned!Reap PROVE OwnedInv'
BY DEF OwnedInv, OwnedTypeOK, StatusIsExit, OwnedPlaceOK, ViewsOK, Ended, Quiet, AcceptOK,
       Owned!Reap, Owned!OnStatus, Owned!Alive, Owned!Live, OwnedPlaces, Signalling,
       Owned!PollSites, Codes, Reasons, Owned!None, Owned!fixed, Owned!group, Owned!Procs, Envs,
       Signals, Views, OwnedOutcomes

LEMMA SendTermOrKillKeeps == ASSUME OwnedInv, Owned!SendTermOrKill PROVE OwnedInv'
BY DEF OwnedInv, OwnedTypeOK, StatusIsExit, OwnedPlaceOK, ViewsOK, Ended, Quiet, AcceptOK,
       Owned!SendTermOrKill, Owned!Alive, Owned!Live, OwnedPlaces, Signalling, Owned!PollSites,
       Codes, Reasons, Owned!None, Owned!fixed, Owned!group, Owned!Procs, Envs, Signals, Views,
       OwnedOutcomes

LEMMA DeliverKeeps == ASSUME OwnedInv, Owned!Deliver PROVE OwnedInv'
BY DEF OwnedInv, OwnedTypeOK, StatusIsExit, OwnedPlaceOK, ViewsOK, Ended, Quiet, AcceptOK,
       Owned!Deliver, Owned!Struck, Owned!Alive, Owned!Live, OwnedPlaces, Signalling,
       Owned!PollSites, Codes, Reasons, Owned!None, Owned!fixed, Owned!group, Owned!Procs, Envs,
       Signals, Views, OwnedOutcomes

LEMMA RefuseKeeps == ASSUME OwnedInv, Owned!Refuse PROVE OwnedInv'
BY DEF OwnedInv, OwnedTypeOK, StatusIsExit, OwnedPlaceOK, ViewsOK, Ended, Quiet, AcceptOK,
       Owned!Refuse, Owned!NoView, Owned!Alive, Owned!Live, OwnedPlaces, Signalling,
       Owned!PollSites, Codes, Reasons, Owned!None, Owned!fixed, Owned!group, Owned!Procs, Envs,
       Signals, Views, OwnedOutcomes

LEMMA ListGroupKeeps == ASSUME OwnedInv, Owned!ListGroup PROVE OwnedInv'
<1>1. OwnedTypeOK'
  <2>1. view' \in Views
    BY DEF OwnedInv, OwnedTypeOK, Owned!ListGroup, Views
  <2>2. place' \in OwnedPlaces
    BY DEF Owned!ListGroup, OwnedPlaces, Owned!PollSites, Signalling
  <2> QED BY <2>1, <2>2 DEF OwnedInv, OwnedTypeOK, Owned!ListGroup, Owned!fixed, Owned!group
<1>2. StatusIsExit'
  BY DEF OwnedInv, OwnedTypeOK, StatusIsExit, OwnedPlaceOK, ViewsOK, Ended, Quiet, AcceptOK,
         Owned!ListGroup, Owned!Alive, Owned!Live, OwnedPlaces, Signalling, Owned!PollSites,
         Codes, Reasons, Owned!None, Owned!fixed, Owned!group, Owned!Procs, Envs, Signals,
         Views, OwnedOutcomes
<1>3. OwnedPlaceOK'
  BY DEF OwnedInv, OwnedTypeOK, StatusIsExit, OwnedPlaceOK, ViewsOK, Ended, Quiet, AcceptOK,
         Owned!ListGroup, Owned!Alive, Owned!Live, OwnedPlaces, Signalling, Owned!PollSites,
         Codes, Reasons, Owned!None, Owned!fixed, Owned!group, Owned!Procs, Envs, Signals,
         Views, OwnedOutcomes
<1>4. ViewsOK'
  BY DEF OwnedInv, OwnedTypeOK, StatusIsExit, OwnedPlaceOK, ViewsOK, Ended, Quiet, AcceptOK,
         Owned!ListGroup, Owned!Alive, Owned!Live, OwnedPlaces, Signalling, Owned!PollSites,
         Codes, Reasons, Owned!None, Owned!fixed, Owned!group, Owned!Procs, Envs, Signals,
         Views, OwnedOutcomes
<1>5. Quiet'
  BY DEF OwnedInv, OwnedTypeOK, StatusIsExit, OwnedPlaceOK, ViewsOK, Ended, Quiet, AcceptOK,
         Owned!ListGroup, Owned!Alive, Owned!Live, OwnedPlaces, Signalling, Owned!PollSites,
         Codes, Reasons, Owned!None, Owned!fixed, Owned!group, Owned!Procs, Envs, Signals,
         Views, OwnedOutcomes
<1>6. AcceptOK'
  BY DEF OwnedInv, OwnedTypeOK, StatusIsExit, OwnedPlaceOK, ViewsOK, Ended, Quiet, AcceptOK,
         Owned!ListGroup, Owned!Alive, Owned!Live, OwnedPlaces, Signalling, Owned!PollSites,
         Codes, Reasons, Owned!None, Owned!fixed, Owned!group, Owned!Procs, Envs, Signals,
         Views, OwnedOutcomes
<1>7. ~stray'
  BY DEF OwnedInv, OwnedTypeOK, StatusIsExit, OwnedPlaceOK, ViewsOK, Ended, Quiet, AcceptOK,
         Owned!ListGroup, Owned!None, Owned!fixed, Owned!group
<1> QED BY <1>1, <1>2, <1>3, <1>4, <1>5, <1>6, <1>7 DEF OwnedInv

LEMMA InspectMemberKeeps == ASSUME NEW p \in Owned!Procs, OwnedInv,
       Owned!InspectMember(p) PROVE OwnedInv'
<1>1. OwnedTypeOK'
  <2>1. view' \in Views
    <3>1. view.list \ {p} \in SUBSET Owned!Procs /\ view.exited \cup {p} \in SUBSET Owned!Procs
      BY DEF OwnedInv, OwnedTypeOK, Views
    <3>2. \/ view' = Owned!NoView
          \/ view' = [view EXCEPT !.list = view.list \ {p}, !.exited = view.exited \cup {p}]
      BY DEF Owned!InspectMember, OwnedInv, OwnedTypeOK, Views
    <3>3. view \in Views /\ Owned!NoView \in Views
      BY ViewTypes DEF OwnedInv, OwnedTypeOK
    <3>4. [view EXCEPT !.list = view.list \ {p}, !.exited = view.exited \cup {p}] \in Views
      BY <3>1, <3>3, ViewTypes, Zenon
    <3> QED BY <3>2, <3>3, <3>4
  <2>2. place' \in OwnedPlaces
    BY DEF Owned!InspectMember, OwnedPlaces, Owned!PollSites, Signalling
  <2> QED BY <2>1, <2>2 DEF OwnedInv, OwnedTypeOK, Owned!InspectMember, Owned!fixed, Owned!group
<1>2. StatusIsExit'
  BY DEF OwnedInv, OwnedTypeOK, StatusIsExit, OwnedPlaceOK, ViewsOK, Ended, Quiet, AcceptOK,
         Owned!InspectMember, Owned!NoView, Owned!Alive, Owned!Live, OwnedPlaces, Signalling,
         Owned!PollSites, Codes, Reasons, Owned!None, Owned!fixed, Owned!group, Owned!Procs,
         Envs, Signals, Views, OwnedOutcomes
<1>3. OwnedPlaceOK'
  BY DEF OwnedInv, OwnedTypeOK, StatusIsExit, OwnedPlaceOK, ViewsOK, Ended, Quiet, AcceptOK,
         Owned!InspectMember, Owned!NoView, Owned!Alive, Owned!Live, OwnedPlaces, Signalling,
         Owned!PollSites, Codes, Reasons, Owned!None, Owned!fixed, Owned!group, Owned!Procs,
         Envs, Signals, Views, OwnedOutcomes
<1>4. ViewsOK'
  <2>1. UNCHANGED proc /\ Owned!Live' = Owned!Live
    BY DEF Owned!InspectMember, Owned!group, Owned!Live, Owned!Alive
  <2>2. CASE view' = Owned!NoView
    BY <2>1, <2>2 DEF ViewsOK, Ended, Owned!NoView
  <2>3. CASE /\ proc[p] = "zombie"
             /\ view' = [view EXCEPT !.list = @ \ {p}, !.exited = @ \cup {p}]
    <3>1. /\ view'.previous = view.previous /\ view'.complete = view.complete
          /\ view'.list = view.list \ {p} /\ view'.exited = view.exited \cup {p}
      BY <2>3 DEF OwnedInv, OwnedTypeOK, Views
    <3>2. view'.list \cup view'.exited = view.list \cup view.exited
      BY <3>1 DEF Owned!InspectMember
    <3> QED BY <2>1, <2>3, <3>1, <3>2 DEF OwnedInv, ViewsOK, Ended, Owned!InspectMember
  <2> QED BY <2>2, <2>3 DEF Owned!InspectMember
<1>5. Quiet'
  BY DEF OwnedInv, OwnedTypeOK, StatusIsExit, OwnedPlaceOK, ViewsOK, Ended, Quiet, AcceptOK,
         Owned!InspectMember, Owned!NoView, Owned!Alive, Owned!Live, OwnedPlaces, Signalling,
         Owned!PollSites, Codes, Reasons, Owned!None, Owned!fixed, Owned!group, Owned!Procs,
         Envs, Signals, Views, OwnedOutcomes
<1>6. AcceptOK'
  BY DEF OwnedInv, OwnedTypeOK, StatusIsExit, OwnedPlaceOK, ViewsOK, Ended, Quiet, AcceptOK,
         Owned!InspectMember, Owned!NoView, Owned!Alive, Owned!Live, OwnedPlaces, Signalling,
         Owned!PollSites, Codes, Reasons, Owned!None, Owned!fixed, Owned!group, Owned!Procs,
         Envs, Signals, Views, OwnedOutcomes
<1>7. ~stray'
  BY DEF OwnedInv, OwnedTypeOK, StatusIsExit, OwnedPlaceOK, ViewsOK, Ended, Quiet, AcceptOK,
         Owned!InspectMember, Owned!NoView, Owned!None, Owned!fixed, Owned!group
<1> QED BY <1>1, <1>2, <1>3, <1>4, <1>5, <1>6, <1>7 DEF OwnedInv

LEMMA CompareViewsKeeps == ASSUME OwnedInv, Owned!CompareViews PROVE OwnedInv'
<1>1. OwnedTypeOK'
  <2>1. view' \in Views
    <3>1. view.exited \in SUBSET Owned!Procs
      BY DEF OwnedInv, OwnedTypeOK, Views
    <3> QED BY <3>1, ViewTypes DEF Owned!CompareViews
  <2>2. place' \in OwnedPlaces
    BY DEF OwnedInv, OwnedTypeOK, OwnedPlaceOK, Owned!CompareViews, Signals, OwnedPlaces,
           Owned!PollSites, Signalling
  <2> QED BY <2>1, <2>2 DEF OwnedInv, OwnedTypeOK, Owned!CompareViews, Owned!fixed, Owned!group
<1>2. StatusIsExit'
  BY DEF OwnedInv, OwnedTypeOK, StatusIsExit, OwnedPlaceOK, ViewsOK, Ended, Quiet, AcceptOK,
         Owned!CompareViews, Owned!NoView, Owned!Alive, Owned!Live, OwnedPlaces, Signalling,
         Owned!PollSites, Codes, Reasons, Owned!None, Owned!fixed, Owned!group, Owned!Procs,
         Envs, Signals, Views, OwnedOutcomes
<1>3. OwnedPlaceOK'
  BY DEF OwnedInv, OwnedTypeOK, StatusIsExit, OwnedPlaceOK, ViewsOK, Ended, Quiet, AcceptOK,
         Owned!CompareViews, Owned!NoView, Owned!Alive, Owned!Live, OwnedPlaces, Signalling,
         Owned!PollSites, Codes, Reasons, Owned!None, Owned!fixed, Owned!group, Owned!Procs,
         Envs, Signals, Views, OwnedOutcomes
<1>4. ViewsOK'
  <2>1. UNCHANGED proc /\ place' # "inspect"
    BY DEF Owned!CompareViews, Owned!group, OwnedInv, OwnedTypeOK, Signals, Owned!None
  <2>2. view' = Owned!NoView \/ (view'.exited = {} /\ view'.previous = view.exited)
    BY DEF Owned!CompareViews, Owned!NoView
  <2> QED BY <2>1, <2>2 DEF OwnedInv, ViewsOK, Ended, Owned!NoView
<1>5. Quiet'
  BY DEF OwnedInv, OwnedTypeOK, StatusIsExit, OwnedPlaceOK, ViewsOK, Ended, Quiet, AcceptOK,
         Owned!CompareViews, Owned!NoView, Owned!Alive, Owned!Live, OwnedPlaces, Signalling,
         Owned!PollSites, Codes, Reasons, Owned!None, Owned!fixed, Owned!group, Owned!Procs,
         Envs, Signals, Views, OwnedOutcomes
<1>6. AcceptOK'
  BY DEF OwnedInv, OwnedTypeOK, StatusIsExit, OwnedPlaceOK, ViewsOK, Ended, Quiet, AcceptOK,
         Owned!CompareViews, Owned!NoView, Owned!Alive, Owned!Live, OwnedPlaces, Signalling,
         Owned!PollSites, Codes, Reasons, Owned!None, Owned!fixed, Owned!group, Owned!Procs,
         Envs, Signals, Views, OwnedOutcomes
<1>7. ~stray'
  BY DEF OwnedInv, OwnedTypeOK, StatusIsExit, OwnedPlaceOK, ViewsOK, Ended, Quiet, AcceptOK,
         Owned!CompareViews, Owned!NoView, Owned!None, Owned!fixed, Owned!group
<1> QED BY <1>1, <1>2, <1>3, <1>4, <1>5, <1>6, <1>7 DEF OwnedInv

LEMMA LookAgainKeeps == ASSUME OwnedInv, Owned!LookAgain PROVE OwnedInv'
BY DEF OwnedInv, OwnedTypeOK, StatusIsExit, OwnedPlaceOK, ViewsOK, Ended, Quiet, AcceptOK,
       Owned!LookAgain, Owned!Alive, Owned!Live, OwnedPlaces, Signalling, Owned!PollSites,
       Codes, Reasons, Owned!None, Owned!fixed, Owned!group, Owned!Procs, Envs, Signals, Views,
       OwnedOutcomes

LEMMA GiveUpKeeps == ASSUME OwnedInv, Owned!GiveUp PROVE OwnedInv'
BY DEF OwnedInv, OwnedTypeOK, StatusIsExit, OwnedPlaceOK, ViewsOK, Ended, Quiet, AcceptOK,
       Owned!GiveUp, Owned!NoView, Owned!Alive, Owned!Live, OwnedPlaces, Signalling,
       Owned!PollSites, Codes, Reasons, Owned!None, Owned!fixed, Owned!group, Owned!Procs, Envs,
       Signals, Views, OwnedOutcomes

LEMMA RefusedKeeps == ASSUME OwnedInv, Owned!Refused PROVE OwnedInv'
BY DEF OwnedInv, OwnedTypeOK, StatusIsExit, OwnedPlaceOK, ViewsOK, Ended, Quiet, AcceptOK,
       Owned!Refused, Owned!OnError, Owned!Alive, Owned!Live, OwnedPlaces, Signalling,
       Owned!PollSites, Codes, Reasons, Owned!None, Owned!fixed, Owned!group, Owned!Procs, Envs,
       Signals, Views, OwnedOutcomes

LEMMA ExitedKeeps == ASSUME OwnedInv, Owned!Exited PROVE OwnedInv'
<1>1. OwnedTypeOK'
  <2>1. outcome' \in OwnedOutcomes
    BY OutcomeTypes DEF OwnedInv, OwnedTypeOK, Owned!Exited, Owned!Decide, Reasons, Codes,
                        Owned!None
  <2>2. place' \in OwnedPlaces
    BY DEF Owned!Exited, Owned!Decide, OwnedPlaces, Owned!PollSites, Signalling
  <2>3. sig' \in Signals /\ site' = Owned!None
    BY DEF Owned!Exited, Owned!NoSignal, Signals
  <2> QED BY <2>1, <2>2, <2>3 DEF OwnedInv, OwnedTypeOK, Owned!Exited, Owned!fixed, Owned!group
<1>2. StatusIsExit'
  BY DEF OwnedInv, OwnedTypeOK, StatusIsExit, OwnedPlaceOK, ViewsOK, Ended, Quiet, AcceptOK,
         Owned!Exited, Owned!Decide, Owned!NoSignal, Owned!Alive, Owned!Live, OwnedPlaces,
         Signalling, Owned!PollSites, Codes, Reasons, Owned!None, Owned!fixed, Owned!group,
         Owned!Procs, Envs, Signals, Views, OwnedOutcomes
<1>3. OwnedPlaceOK'
  BY DEF OwnedInv, OwnedTypeOK, StatusIsExit, OwnedPlaceOK, ViewsOK, Ended, Quiet, AcceptOK,
         Owned!Exited, Owned!Decide, Owned!NoSignal, Owned!Alive, Owned!Live, OwnedPlaces,
         Signalling, Owned!PollSites, Codes, Reasons, Owned!None, Owned!fixed, Owned!group,
         Owned!Procs, Envs, Signals, Views, OwnedOutcomes
<1>4. ViewsOK'
  BY DEF OwnedInv, OwnedTypeOK, StatusIsExit, OwnedPlaceOK, ViewsOK, Ended, Quiet, AcceptOK,
         Owned!Exited, Owned!Decide, Owned!NoSignal, Owned!Alive, Owned!Live, OwnedPlaces,
         Signalling, Owned!PollSites, Codes, Reasons, Owned!None, Owned!fixed, Owned!group,
         Owned!Procs, Envs, Signals, Views, OwnedOutcomes
<1>5. Quiet'
  BY DEF OwnedInv, OwnedTypeOK, StatusIsExit, OwnedPlaceOK, ViewsOK, Ended, Quiet, AcceptOK,
         Owned!Exited, Owned!Decide, Owned!NoSignal, Owned!Alive, Owned!Live, OwnedPlaces,
         Signalling, Owned!PollSites, Codes, Reasons, Owned!None, Owned!fixed, Owned!group,
         Owned!Procs, Envs, Signals, Views, OwnedOutcomes
<1>6. AcceptOK'
  BY DEF OwnedInv, OwnedTypeOK, StatusIsExit, OwnedPlaceOK, ViewsOK, Ended, Quiet, AcceptOK,
         Owned!Exited, Owned!Decide, Owned!NoSignal, Owned!Alive, Owned!Live, OwnedPlaces,
         Signalling, Owned!PollSites, Codes, Reasons, Owned!None, Owned!fixed, Owned!group,
         Owned!Procs, Envs, Signals, Views, OwnedOutcomes
<1>7. ~stray'
  BY DEF OwnedInv, OwnedTypeOK, StatusIsExit, OwnedPlaceOK, ViewsOK, Ended, Quiet, AcceptOK,
         Owned!Exited, Owned!Decide, Owned!NoSignal, Owned!None, Owned!fixed, Owned!group
<1> QED BY <1>1, <1>2, <1>3, <1>4, <1>5, <1>6, <1>7 DEF OwnedInv

LEMMA PollErrorKeeps == ASSUME OwnedInv, Owned!PollError PROVE OwnedInv'
BY DEF OwnedInv, OwnedTypeOK, StatusIsExit, OwnedPlaceOK, ViewsOK, Ended, Quiet, AcceptOK,
       Owned!PollError, Owned!Break, Owned!NoSignal, Owned!Alive, Owned!Live, OwnedPlaces,
       Signalling, Owned!PollSites, Codes, Reasons, Owned!None, Owned!fixed, Owned!group,
       Owned!Procs, Envs, Signals, Views, OwnedOutcomes

LEMMA StoppedKeeps == ASSUME OwnedInv, Owned!Stopped PROVE OwnedInv'
<1>1. OwnedTypeOK'
  <2>1. outcome' \in OwnedOutcomes
    BY DEF OwnedInv, OwnedTypeOK, Owned!Stopped, Owned!Decide, OwnedOutcomes, Reasons, Codes,
           Owned!None
  <2>2. place' \in OwnedPlaces
    BY DEF Owned!Stopped, Owned!Decide, OwnedPlaces, Owned!PollSites, Signalling
  <2>3. sig' \in Signals /\ site' = Owned!None
    BY DEF Owned!Stopped, Owned!NoSignal, Signals
  <2>4. stops' \in 0 .. 2
    BY DEF OwnedInv, OwnedTypeOK, Owned!Stopped
  <2> QED BY <2>1, <2>2, <2>3, <2>4 DEF OwnedInv, OwnedTypeOK, Owned!Stopped, Owned!fixed,
         Owned!group
<1>2. StatusIsExit'
  BY DEF OwnedInv, OwnedTypeOK, StatusIsExit, OwnedPlaceOK, ViewsOK, Ended, Quiet, AcceptOK,
         Owned!Stopped, Owned!Decide, Owned!NoSignal, Owned!Alive, Owned!Live, OwnedPlaces,
         Signalling, Owned!PollSites, Codes, Reasons, Owned!None, Owned!fixed, Owned!group,
         Owned!Procs, Envs, Signals, Views, OwnedOutcomes
<1>3. OwnedPlaceOK'
  BY DEF OwnedInv, OwnedTypeOK, StatusIsExit, OwnedPlaceOK, ViewsOK, Ended, Quiet, AcceptOK,
         Owned!Stopped, Owned!Decide, Owned!NoSignal, Owned!Alive, Owned!Live, OwnedPlaces,
         Signalling, Owned!PollSites, Codes, Reasons, Owned!None, Owned!fixed, Owned!group,
         Owned!Procs, Envs, Signals, Views, OwnedOutcomes
<1>4. ViewsOK'
  BY DEF OwnedInv, OwnedTypeOK, StatusIsExit, OwnedPlaceOK, ViewsOK, Ended, Quiet, AcceptOK,
         Owned!Stopped, Owned!Decide, Owned!NoSignal, Owned!Alive, Owned!Live, OwnedPlaces,
         Signalling, Owned!PollSites, Codes, Reasons, Owned!None, Owned!fixed, Owned!group,
         Owned!Procs, Envs, Signals, Views, OwnedOutcomes
<1>5. Quiet'
  BY DEF OwnedInv, OwnedTypeOK, StatusIsExit, OwnedPlaceOK, ViewsOK, Ended, Quiet, AcceptOK,
         Owned!Stopped, Owned!Decide, Owned!NoSignal, Owned!Alive, Owned!Live, OwnedPlaces,
         Signalling, Owned!PollSites, Codes, Reasons, Owned!None, Owned!fixed, Owned!group,
         Owned!Procs, Envs, Signals, Views, OwnedOutcomes
<1>6. AcceptOK'
  BY DEF OwnedInv, OwnedTypeOK, StatusIsExit, OwnedPlaceOK, ViewsOK, Ended, Quiet, AcceptOK,
         Owned!Stopped, Owned!Decide, Owned!NoSignal, Owned!Alive, Owned!Live, OwnedPlaces,
         Signalling, Owned!PollSites, Codes, Reasons, Owned!None, Owned!fixed, Owned!group,
         Owned!Procs, Envs, Signals, Views, OwnedOutcomes
<1>7. ~stray'
  BY DEF OwnedInv, OwnedTypeOK, StatusIsExit, OwnedPlaceOK, ViewsOK, Ended, Quiet, AcceptOK,
         Owned!Stopped, Owned!Decide, Owned!NoSignal, Owned!None, Owned!fixed, Owned!group
<1> QED BY <1>1, <1>2, <1>3, <1>4, <1>5, <1>6, <1>7 DEF OwnedInv

LEMMA DeadlineKeeps == ASSUME OwnedInv, Owned!Deadline PROVE OwnedInv'
BY DEF OwnedInv, OwnedTypeOK, StatusIsExit, OwnedPlaceOK, ViewsOK, Ended, Quiet, AcceptOK,
       Owned!Deadline, Owned!Alive, Owned!Live, OwnedPlaces, Signalling, Owned!PollSites, Codes,
       Reasons, Owned!None, Owned!fixed, Owned!group, Owned!Procs, Envs, Signals, Views,
       OwnedOutcomes

-----------------------------------------------------------------------------
LEMMA InitKeeps == Owned!Init => OwnedInv
<1> SUFFICES ASSUME Owned!Init PROVE OwnedInv
  OBVIOUS
<1>1. OwnedTypeOK
  <2>1. env \in Envs
    BY DEF Owned!Init, Envs
  <2>2. outcome \in OwnedOutcomes
    BY OutcomeTypes DEF Owned!Init, Owned!NoOutcome, Reasons, Codes
  <2>3. sig \in Signals /\ view \in Views
    BY SignalTypes, ViewTypes DEF Owned!Init
  <2>4. /\ proc \in [Owned!Procs -> {"absent", "alive", "dying", "zombie", "gone"}]
        /\ stubborn \subseteq Owned!Procs
    BY DEF Owned!Init
  <2>5. /\ place \in OwnedPlaces /\ site \in Owned!PollSites \cup {Owned!None} /\ stops \in 0 .. 2
        /\ code \in Codes /\ status \in Codes
    BY DEF Owned!Init, OwnedPlaces, Codes
  <2> QED BY <2>1, <2>2, <2>3, <2>4, <2>5 DEF Owned!Init, OwnedTypeOK
<1>2. StatusIsExit /\ OwnedPlaceOK /\ ViewsOK /\ Quiet /\ AcceptOK /\ ~stray
  BY DEF Owned!Init, StatusIsExit, OwnedPlaceOK, ViewsOK, Ended, Quiet, AcceptOK,
         Owned!NoOutcome, Owned!NoView, Signalling, Owned!None, Owned!Live, Owned!Alive,
         Owned!Procs
<1> QED BY <1>1, <1>2 DEF OwnedInv

(* Every step of the world, of the supervisor and of its deadlines         *)
(* preserves the invariant.                                                *)
LEMMA OwnedInductive == OwnedInv /\ [Owned!Next]_(Owned!vars) => OwnedInv'
<1> SUFFICES ASSUME OwnedInv, [Owned!Next]_(Owned!vars) PROVE OwnedInv'
  OBVIOUS
<1>1. CASE Owned!World
  BY <1>1, ForkKeeps, WorkerExitsKeeps, WorkerReapedKeeps, DiesKeeps, LeaderExitsKeeps,
     CancelKeeps, ExpireKeeps, OverflowKeeps DEF Owned!World
<1>2. CASE Owned!Supervisor
  BY <1>2, SpawnKeeps, CheckSizeKeeps, CheckGuardKeeps, CheckCancelKeeps, CheckTimeKeeps,
     PollKeeps, ReapKeeps, SendTermOrKillKeeps, DeliverKeeps, RefuseKeeps, ListGroupKeeps,
     InspectMemberKeeps, CompareViewsKeeps, LookAgainKeeps, GiveUpKeeps, RefusedKeeps,
     ExitedKeeps, PollErrorKeeps, StoppedKeeps DEF Owned!Supervisor
<1>3. CASE Owned!Deadline
  BY <1>3, DeadlineKeeps
<1>4. CASE UNCHANGED Owned!vars
  BY <1>4 DEF Owned!vars, OwnedInv, OwnedTypeOK, StatusIsExit, OwnedPlaceOK, ViewsOK, Ended,
              Quiet, AcceptOK, Owned!Live, Owned!Alive
<1> QED BY <1>1, <1>2, <1>3, <1>4 DEF Owned!Next, Owned!Done

LEMMA OwnedInvariance == Owned!Spec => []OwnedInv
BY InitKeeps, OwnedInductive, PTL DEF Owned!Spec

-----------------------------------------------------------------------------
(***************************************************************************)
(* The theorems.                                                           *)
(***************************************************************************)

(* Every variable keeps its type, whatever the group does between two      *)
(* system calls of the supervisor.                                         *)
THEOREM OwnedTypeCorrect == Owned!Spec => []OwnedTypeOK
<1>1. OwnedInv => OwnedTypeOK
  BY DEF OwnedInv
<1> QED BY <1>1, OwnedInvariance, PTL

(* A reported reaping means that everybody of the group has exited or has  *)
(* a fatal signal pending, for a group of any size that forks, ignores     *)
(* SIGTERM and hides between two listings.                                 *)
THEOREM ReapedGroupIsGone == Owned!Spec => []ReapedMeansGone
<1>1. OwnedInv => ReapedMeansGone
  BY DEF OwnedInv, Quiet, ReapedMeansGone, Owned!ReapedMeansGone
<1> QED BY <1>1, OwnedInvariance, PTL

(* signal_group is never called once the leader, whose PID names the group,*)
(* has been reaped.                                                        *)
THEOREM SignalsOwnGroupOnly == Owned!Spec => []OwnGroupSignalled
<1>1. OwnedInv => OwnGroupSignalled
  BY DEF OwnedInv, OwnGroupSignalled, Owned!OwnGroupSignalled
<1> QED BY <1>1, OwnedInvariance, PTL

(* An accepted exit with code zero is the leader's own exit, with logs and *)
(* artifacts still inside their limits.                                    *)
THEOREM AcceptedExitsAreOwn == Owned!Spec => []AcceptedExitIsOwn
<1>1. OwnedInv => AcceptedExitIsOwn
  BY DEF OwnedInv, AcceptOK, StatusIsExit, AcceptedExitIsOwn, Owned!AcceptedExitIsOwn
<1> QED BY <1>1, OwnedInvariance, PTL

(* Reaping is final: no later step of anybody changes the recorded status  *)
(* or brings a member of the group back to life, so nobody of the group    *)
(* runs again to change what a caller then reads of the worker's files.    *)
ReapingFinal == status # Owned!None => status' = status /\ Owned!Live' = {}
THEOREM ReapingIsFinal == Owned!Spec => [][ReapingFinal]_(Owned!vars)
<1>1. ASSUME OwnedInv, OwnedInv', [Owned!Next]_(Owned!vars) PROVE [ReapingFinal]_(Owned!vars)
  <2>1. SUFFICES ASSUME status # Owned!None, Owned!Next
                 PROVE  status' = status /\ Owned!Live' = {}
    BY <1>1 DEF ReapingFinal
  <2>2. place # "reap"
    BY <1>1, <2>1 DEF OwnedInv, OwnedPlaceOK
  <2>3. status' = status
    BY <2>1, <2>2 DEF Owned!Next, Owned!World, Owned!Supervisor, Owned!Done, Owned!vars,
                      Owned!Fork, Owned!WorkerExits, Owned!WorkerReaped, Owned!Dies, Owned!LeaderExits,
                      Owned!Cancel, Owned!Expire, Owned!Overflow, Owned!Spawn, Owned!CheckSize,
                      Owned!CheckGuard, Owned!CheckCancel, Owned!CheckTime, Owned!Poll,
                      Owned!Reap, Owned!SendTermOrKill, Owned!Deliver, Owned!Refuse,
                      Owned!ListGroup, Owned!InspectMember, Owned!CompareViews, Owned!LookAgain,
                      Owned!GiveUp, Owned!Refused, Owned!Exited, Owned!PollError, Owned!Stopped,
                      Owned!Deadline
  <2> QED BY <1>1, <2>1, <2>3 DEF OwnedInv, Quiet
<1> QED BY <1>1, OwnedInvariance, PTL DEF Owned!Spec
=============================================================================
