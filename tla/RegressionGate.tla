--------------------------- MODULE RegressionGate ---------------------------
(***************************************************************************)
(* The benchmark and hotspot regression gates of the tools (xtask          *)
(* regression.rs over benchmark_contract.rs): the rows of a baseline and a *)
(* current artifact are normalised, indexed by case and compared.          *)
(*                                                                         *)
(* A row declares under which conditions it was measured with tokens of    *)
(* several spellings and under several names; `truth' remembers the real   *)
(* conditions.  Both artifacts begin as two good measurements of the same  *)
(* cases; MaxEdits edits then remeasure, respell, lose, spoil, drop or     *)
(* repeat rows, and the gate is asked after each of them.                  *)
(***************************************************************************)
EXTENDS Integers, Sequences, FiniteSets, FiniteSetsExt

CONSTANTS Limit,        \* default threshold of each case's operation, in percent
          StreamCases,  \* cases of the stream operations
          Paces,        \* durations a case may show; the usual one is 100
          MaxEdits,
          MaxOptions    \* options a benchmark command is given

Cases == DOMAIN Limit
Sides == {"baseline", "current"}

(* What the constants have to satisfy. *)
GateAssumption == /\ StreamCases \subseteq Cases /\ 100 \in Paces /\ Paces \subseteq Nat \ {0}
                  /\ \A c \in Cases : Limit[c] \in Nat

(* One provenance field of each kind, and the names it may be given by. *)
Aliases == [rayon_threads |-> <<"rayon_threads", "rayon_num_threads">>,
            features |-> <<"features">>, override_honored |-> <<"override_honored">>,
            compiler |-> <<"compiler", "rustc">>, stream_io_mode |-> <<"stream_io_mode">>,
            rustflags |-> <<"rustflags">>]
Fields == DOMAIN Aliases
Names == UNION {{Aliases[f][i] : i \in DOMAIN Aliases[f]} : f \in Fields}
FieldOf(name) == CHOOSE f \in Fields : \E i \in DOMAIN Aliases[f] : Aliases[f][i] = name

Strict(c) == {"rayon_threads", "features", "compiler"} \cup
             (IF c \in StreamCases THEN {"stream_io_mode"} ELSE {})

(* A token is absent or null, a text in some spelling, a number, a boolean.*)
Absent == [form |-> "absent"]
Token(form, value) == [form |-> form, value |-> value]
UNKNOWN == "unknown"
EMPTY == "empty"

None == [is |-> "none"]
Some(v) == [is |-> "some", value |-> v]
Error == [is |-> "error"]
NotGiven == -1   \* a metric the row does not have

VARIABLES
  flags,   \* the command line
  rows,    \* rows[side][case]: the rows of that case, at most two
  truth,   \* truth[side][case]: the conditions of its first row
  edits

vars == <<flags, rows, truth, edits>>

-----------------------------------------------------------------------------
(* Normalisation.                                                          *)

(* Digits only, as text or number, leading zeros dropped; a pool of no     *)
(* threads is malformed.                                                   *)
integer(token) ==
  IF token.form \in {"plain", "zeros", "number"} /\ token.value \in {"one", "other"}
  THEN Some(token.value) ELSE Error

normalize_provenance(token, field) ==
  LET text == token.form \in {"plain", "padded", "zeros"} IN
  IF token.form \in {"absent", "null"} THEN None ELSE
  CASE field = "override_honored" ->
         IF (text \/ token.form = "bool") /\ token.value \in {"one", "other"}
         THEN Some(token.value) ELSE Error
    [] field = "rayon_threads" -> integer(token)
    [] field = "features" -> IF text THEN Some(token.value) ELSE Error
    [] OTHER ->
         IF ~text \/ (token.value = EMPTY /\ field # "rustflags") THEN Error
         ELSE IF token.value = UNKNOWN /\ field # "rustflags" THEN None
         ELSE Some(token.value)

(* Mutant: the first name that is given decides. *)
provenance_valueFirst(row, field) ==
  LET given == SelectSeq(Aliases[field], LAMBDA name : row[name].form # "absent")
  IN  IF given = <<>> THEN None ELSE normalize_provenance(row[given[1]], field)

(* Every name is read; those that say anything have to agree. *)
provenance_value(row, field) ==
  LET said == {normalize_provenance(row[Aliases[field][i]], field) : i \in DOMAIN Aliases[field]}
  IN  IF Error \in said THEN Error
      ELSE IF Cardinality(said \ {None}) > 1 THEN Error
      ELSE IF said \subseteq {None} THEN None ELSE CHOOSE v \in said : v # None

provenance(row) == [f \in Fields |-> provenance_value(row.tokens, f)]

positive_metric(n) == n > 0

(* What strict provenance misses in a row of case c. *)
StrictMissing(c, prov) ==
  {f \in Strict(c) : \/ prov[f] = None
                     \/ prov[f].value = EMPTY
                     \/ prov[f].value = UNKNOWN}

normalize(c, row, strict) ==
  LET prov == provenance(row) IN
  IF \/ ~positive_metric(row.pace)
     \/ \E f \in Fields : prov[f] = Error
     \/ strict /\ StrictMissing(c, prov) # {}
  THEN Error
  ELSE [is |-> "some", pace |-> row.pace, provenance |-> prov]

(* The speedup is read when the row has it. *)
hotspot(row) ==
  LET prov == provenance(row) IN
  IF \/ ~positive_metric(row.pace) \/ \E f \in Fields : prov[f] = Error
     \/ row.speedup = 0
  THEN Error
  ELSE [is |-> "some", pace |-> row.pace, provenance |-> prov, pattern |-> row.pattern,
        speedup |-> row.speedup]

(* An artifact without a row is refused before any row is looked at. *)
load_rows(side) ==
  IF \A c \in Cases : rows[side][c] = <<>> THEN Error
  ELSE [is |-> "some", rows |-> rows[side]]

(* Rows by case; one malformed or repeated row refuses the artifact. *)
Indexed(side, Read(_, _)) ==
  IF \/ load_rows(side) = Error
     \/ \E c \in Cases : \/ Len(rows[side][c]) > 1
                         \/ \E i \in DOMAIN rows[side][c] : Read(c, rows[side][c][i]) = Error
  THEN Error
  ELSE [is |-> "some",
        rows |-> [c \in {d \in Cases : rows[side][d] # <<>>} |-> Read(c, rows[side][c][1])]]

index(side) == Indexed(side, LAMBDA c, row : normalize(c, row, flags.strict))
hotspots(side) == Indexed(side, LAMBDA c, row : hotspot(row))

-----------------------------------------------------------------------------
(* The gates.  A metric is the duration it was derived from: a rate's      *)
(* relative loss is the growth of the duration over the later one.         *)

Exceeds(metric, before, after, limit) ==
  /\ after > before
  /\ IF metric = "throughput_mb_s" THEN 100 * (after - before) > limit * after
                                   ELSE 100 * (after - before) > limit * before

(* Why a field of two rows refuses them; Null when it does not. *)
FieldReason(before, after) ==
  IF None \in {before, after}
  THEN IF before = after \/ flags.allowProvenance THEN "unchecked" ELSE "one_sided"
  ELSE IF before = after THEN "same" ELSE "incompatible"

benchmark_report ==
  LET old == index("baseline")
      new == index("current")
      common == DOMAIN old.rows \cap DOMAIN new.rows
      incompatible == {c \in common : \E f \in Fields :
                         FieldReason(old.rows[c].provenance[f], new.rows[c].provenance[f])
                           \in {"one_sided", "incompatible"}}
      compared == common \ incompatible
  IN  IF old = Error \/ new = Error THEN "error"
      ELSE IF /\ flags.allowCases \/ DOMAIN old.rows \subseteq DOMAIN new.rows
              /\ incompatible = {} /\ compared # {}
              /\ \A c \in compared :
                   ~Exceeds(flags.metric, old.rows[c].pace, new.rows[c].pace, Limit[c])
              /\ flags.required \subseteq common
      THEN "passed" ELSE "failed"

hotspot_report ==
  LET old == hotspots("baseline")
      new == hotspots("current")
      required == DOMAIN old.rows \cup flags.required \cup flags.floors
  IN  IF old = Error \/ new = Error THEN "error"
      ELSE IF \/ ~(required \subseteq DOMAIN old.rows \cap DOMAIN new.rows)
              \/ \E c \in required : \/ old.rows[c].pattern # new.rows[c].pattern
                                     \/ old.rows[c].provenance # new.rows[c].provenance
                                     \/ c \in flags.floors /\ new.rows[c].speedup = NotGiven
      THEN "error"
      ELSE IF \A c \in required :
                /\ ~Exceeds("throughput_mb_s", old.rows[c].pace, new.rows[c].pace, 12)
                /\ c \in flags.floors => new.rows[c].speedup >= 100
      THEN "passed" ELSE "failed"

Verdict == IF flags.gate = "hotspot" THEN hotspot_report ELSE benchmark_report

-----------------------------------------------------------------------------
(* The artifacts a gate may be given.                                      *)

GoodTokens == [n \in Names |-> IF n \in {Aliases[f][1] : f \in Fields}
                               THEN Token("plain", "one") ELSE Absent]
Good == [pace |-> 100, tokens |-> GoodTokens, pattern |-> "one", speedup |-> 120]
Usual == [conditions |-> [f \in Fields |-> "one"], said |-> Fields, spoiled |-> FALSE]

Commands ==
  [gate : {"benchmark"}, strict : BOOLEAN, allowCases : BOOLEAN, allowProvenance : BOOLEAN,
   metric : {"throughput_mb_s", "ns_per_iter"}, required : {{}, StreamCases}, floors : {{}}]
  \cup
  [gate : {"hotspot"}, strict : {FALSE}, allowCases : {FALSE}, allowProvenance : {FALSE},
   metric : {"candidate_mb_s"}, required : {{}, StreamCases}, floors : {{}, StreamCases}]

(* The options of a command line, and what each of them is when not given. *)
Options(command) ==
  {o \in {"strict", "allowCases", "allowProvenance"} : command[o]}
  \cup {o \in {"required", "floors"} : command[o] # {}}
  \cup {o \in {"metric"} : command[o] = "ns_per_iter"}

Init == /\ flags \in Commands /\ Cardinality(Options(flags)) <= MaxOptions
        /\ rows = [s \in Sides |-> [c \in Cases |-> <<Good>>]]
        /\ truth = [s \in Sides |-> [c \in Cases |-> Usual]]
        /\ edits = 0

Editing(s, c) == /\ edits < MaxEdits /\ edits' = edits + 1
                 /\ rows[s][c] # <<>> /\ UNCHANGED flags

(* The case runs at another pace, or slower than the reference it replaces.*)
Remeasure(s, c) ==
  /\ Editing(s, c)
  /\ \/ \E p \in Paces : rows' = [rows EXCEPT ![s][c][1].pace = p]
     \/ rows' = [rows EXCEPT ![s][c][1].speedup = 80]
     \/ flags.gate = "hotspot" /\ rows' = [rows EXCEPT ![s][c][1].speedup = NotGiven]
  /\ UNCHANGED truth

(* It really ran under another condition, or was another scenario. *)
MeasureElsewhere(s, c) ==
  /\ Editing(s, c)
  /\ \/ \E f \in truth[s][c].said :
          /\ rows' = [rows EXCEPT ![s][c][1].tokens =
                        [n \in Names |-> IF FieldOf(n) = f /\ @[n].form # "absent"
                                         THEN [@[n] EXCEPT !.value = "other"] ELSE @[n]]]
          /\ truth' = [truth EXCEPT ![s][c].conditions[f] = "other"]
     \/ /\ flags.gate = "hotspot"
        /\ rows' = [rows EXCEPT ![s][c][1].pattern = "other"]
        /\ UNCHANGED truth

(* The same value in another spelling, or under a second name as well. *)
Respell(s, c) ==
  /\ Editing(s, c)
  /\ \E n \in Names :
       /\ FieldOf(n) \in truth[s][c].said
       /\ LET f == FieldOf(n)
              forms == CASE f = "rayon_threads" -> {"zeros", "number"}
                         [] f = "override_honored" -> {"padded", "bool"}
                         [] OTHER -> {"padded"}
          IN  \E form \in forms : rows' = [rows EXCEPT ![s][c][1].tokens[n] =
                                             Token(form, truth[s][c].conditions[f])]
  /\ UNCHANGED truth

(* The row no longer says it. *)
Forget(s, c) ==
  /\ Editing(s, c)
  /\ \E f \in truth[s][c].said, how \in {Absent, [form |-> "null"], Token("plain", UNKNOWN)} :
       /\ how = Token("plain", UNKNOWN) => f \in {"compiler", "stream_io_mode"}
       /\ rows' = [rows EXCEPT ![s][c][1].tokens =
                     [n \in Names |-> IF FieldOf(n) # f THEN @[n]
                                      ELSE IF n = Aliases[f][1] THEN how ELSE Absent]]
       /\ truth' = [truth EXCEPT ![s][c].said = @ \ {f}]

(* The row can no longer be read: a metric that is not positive, a padded  *)
(* count, a second name that disagrees, or a second row of the case.       *)
Spoil(s, c) ==
  /\ Editing(s, c) /\ ~truth[s][c].spoiled
  /\ \/ rows' = [rows EXCEPT ![s][c][1].pace = 0]
     \/ rows' = [rows EXCEPT ![s][c][1].tokens["rayon_threads"] = Token("padded", "one")]
     \/ rows' = [rows EXCEPT ![s][c] = Append(@, Good)]
     \/ /\ "compiler" \in truth[s][c].said
        /\ rows' = [rows EXCEPT ![s][c][1].tokens["rustc"] =
                      Token("plain", IF truth[s][c].conditions["compiler"] = "one"
                                     THEN "other" ELSE "one")]
  /\ truth' = [truth EXCEPT ![s][c].spoiled = TRUE]

(* A spoiled row stays as it is; a row is dropped whole. *)
Drop(s, c) ==
  /\ Editing(s, c)
  /\ rows' = [rows EXCEPT ![s][c] = <<>>]
  /\ truth' = [truth EXCEPT ![s][c] = Usual]

Next == \E s \in Sides, c \in Cases :
          \/ Drop(s, c)
          \/ /\ ~truth[s][c].spoiled
             /\ \/ Remeasure(s, c) \/ MeasureElsewhere(s, c) \/ Respell(s, c)
                \/ Forget(s, c) \/ Spoil(s, c)

Spec == Init /\ [][Next]_vars

-----------------------------------------------------------------------------
(* Properties.                                                             *)

Held(s) == {c \in Cases : rows[s][c] # <<>>}
Readable == \A s \in Sides : Held(s) # {} /\ \A c \in Held(s) : ~truth[s][c].spoiled
Demanded == (IF flags.allowCases THEN {} ELSE Held("baseline")) \cup flags.required \cup flags.floors
Compared == Held("baseline") \cap Held("current")

(* Both rows ran under the same condition, or the command lets it go: a    *)
(* field neither declares, or, when allowed, one that one does not.        *)
SameCondition(c, f) ==
  LET a == truth["baseline"][c]
      b == truth["current"][c]
      saying == {s \in Sides : f \in truth[s][c].said}
  IN  CASE saying = Sides -> a.conditions[f] = b.conditions[f]
        [] saying = {} -> ~(flags.strict /\ f \in Strict(c))
        [] OTHER -> flags.allowProvenance /\ ~(flags.strict /\ f \in Strict(c))

Deserved ==
  /\ Readable /\ Compared # {} /\ Demanded \subseteq Compared
  /\ flags.strict => \A s \in Sides, c \in Cases : c \in Held(s) => Strict(c) \subseteq truth[s][c].said
  /\ \A c \in Compared :
       LET d0 == rows["baseline"][c][1].pace
           d1 == rows["current"][c][1].pace
           bound == IF flags.gate = "hotspot" THEN 12 ELSE Limit[c]
       IN  /\ \A f \in Fields : SameCondition(c, f)
           /\ d1 <= d0 \/ 100 * (d1 - d0) <= bound * (IF flags.metric = "ns_per_iter" THEN d0 ELSE d1)
           /\ flags.gate = "hotspot" =>
                /\ rows["baseline"][c][1].pattern = rows["current"][c][1].pattern
                /\ c \in flags.floors => rows["current"][c][1].speedup >= 100

(* A gate passes exactly when every case it has to judge was measured on   *)
(* both sides under the same real conditions and did not slow down beyond  *)
(* its limit: no spelling of a condition, second name, missing row or      *)
(* repeated row hides a regression or raises a false alarm                 *)
(* (benchmark_report, hotspot_report).                                     *)
PassedMeansComparable == (Verdict = "passed") <=> Deserved
=============================================================================
