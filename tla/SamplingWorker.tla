--------------------------- MODULE SamplingWorker ---------------------------
(***************************************************************************)
(* What one measuring process of the release sampler prints                *)
(* (scripts/release-sampling): the records of a worker `w' that prepared   *)
(* its case with its first buffer at w.home and completed the observations *)
(* obs.  An observation o is its pace (a percentage of the usual duration) *)
(* and what the thread's CPU mask was around it.                           *)
(***************************************************************************)
EXTENDS SamplingContract

CONSTANTS Reserved,            \* the reserved CPUs
          PageSize,            \* the runtime's page size
          WallPace, TimedPace  \* an iteration's duration, by profile

MeasuringCpu == Min(Reserved)

(* The offsets of n buffers that lie one after the other. *)
vec_buffers(c, first, n, from) ==
  [i \in 1..n |->
     LET address == from + (first + i - 1) * c.size IN
     [len |-> c.size, capacity |-> c.size, line |-> address % Line,
      block |-> address % Block, page |-> address % PageSize]]

Fixture(w) ==
  LET c == w.case
      sources == IF c.operation = "encode_stream" THEN c.data ELSE c.data + c.parity
      scratch == IF c.operation = "verify_with_buffer" THEN c.parity ELSE 0
  IN  IF w.profile \notin {"small_file", "stream"} THEN Null
      ELSE [contract |-> [missing |-> MissingOf(c), required |-> RequiredOf(c)],
            page |-> PageSize,
            source |-> vec_buffers(c, 0, sources, w.home),
            scratch |-> vec_buffers(c, sources, scratch, w.home)]

(* A point of the worker's random stream after i observations: what it     *)
(* drew so far, and what would come next.                                  *)
Point(w, i) ==
  LET drawn == i * w.count * (w.case.data + w.case.parity) * w.case.size
  IN  [bytes |-> drawn,
       next |-> <<seed("reconstruct_data", w.case) \o <<w.case.name>>, drawn>>]

Trace(w, i) ==
  IF w.profile # "hotspot" THEN Null
  ELSE [bytesBefore |-> Point(w, i).bytes, bytesAfter |-> Point(w, i + 1).bytes,
        nextBefore |-> Point(w, i).next, nextAfter |-> Point(w, i + 1).next]

(* What the worker declares: retained, generated and hotspot workloads. *)
Declared(w) ==
  LET c == w.case IN
  CASE w.profile \in {"small_file", "stream"} ->
         [missing |-> MissingOf(c), required |-> RequiredOf(c), changed |-> {},
          lifetime |-> "worker", generator |-> "worker", seed |-> seed(c.operation, c)]
    [] w.profile = "smoke" ->
         [missing |-> MissingOf(c), required |-> RequiredOf(c),
          changed |-> IF c.operation = "update" THEN {0} ELSE {},
          lifetime |-> "iteration", generator |-> "per-iteration", seed |-> seed(c.operation, c)]
    [] OTHER ->
         [missing |-> c.missing, required |-> HotspotRequired(c), changed |-> {},
          lifetime |-> "iteration", generator |-> "worker-low-byte",
          seed |-> Point(w, 0).next[1]]

Wall(w, o) == (w.count * WallPace[w.profile] * o.pace) \div 100
Timed(w, o) == (w.count * TimedPace[w.profile] * o.pace) \div 100

(* The exported latency is rounded to hundredths. *)
Row(w, o) == [ns |-> (200 * Timed(w, o) + w.count) \div (2 * w.count), interval |-> Timed(w, o),
              iterations |-> w.count, revision |-> w.revision,
              seed |-> Declared(w).seed, missing |-> Declared(w).missing,
              useful |-> IF w.profile = "hotspot" THEN Useful(w.case) ELSE {},
              provenance |-> "native"]

PlacementOf(o) == [cpu |-> MeasuringCpu, budget |-> Cardinality(Reserved), affinity |-> Reserved,
                   threads |-> PoolThreads, checked |-> o.checked]

TimingLine(w, o, i) ==
  [tag |-> "RSE_TIMING",
   record |-> [index |-> i, iterations |-> w.count, wall |-> Wall(w, o), timed |-> Timed(w, o),
               placement |-> PlacementOf(o)]]

TargetMet(w, o) == Wall(w, o) >= TargetWall /\ Timed(w, o) >= TargetTimed

CompleteBatch(w, obs) ==
  /\ Len(obs) = Width
  /\ \A i \in (Warmups + 1)..Width : TargetMet(w, obs[i]) /\ obs[i].checked

(* The record of observation i, from 0; its worker exports it at the end.  *)
SampleRecord(w, obs, i) ==
  LET o == obs[i + 1]
      calibrating == w.mode = "calibrate"
  IN  [kind |-> Kind(calibrating, i), profile |-> w.profile, case |-> w.case,
       revision |-> w.revision, index |-> i, iterations |-> w.count,
       wall |-> Wall(w, o), timed |-> Timed(w, o),
       complete |-> IF calibrating THEN i + 1 = Width /\ CompleteBatch(w, obs)
                    ELSE TargetMet(w, o) /\ o.checked,
       met |-> TargetMet(w, o), batch |-> w.batch, fixture |-> Fixture(w),
       workload |-> [contract |-> Declared(w), rng |-> Trace(w, i)],
       placement |-> PlacementOf(o),
       before |-> [cpu |-> o.before, run |-> 2 * i],
       after |-> [cpu |-> o.after, run |-> 2 * i + 1], row |-> Row(w, o)]

SampleRecords(w, obs) == [i \in 1..Len(obs) |-> SampleRecord(w, obs, i - 1)]
=============================================================================
