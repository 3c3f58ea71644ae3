-------------------------- MODULE StreamCodecProofs --------------------------
(***************************************************************************)
(* Proofs about StreamCodec, for every number of streams, every block      *)
(* size, stream length, fault and limit, serial and parallel: what writers *)
(* have taken is right at every moment, success is complete and errors are *)
(* true.                                                                   *)
(*                                                                         *)
(* The invariant speaks of the number of bytes every stream had delivered  *)
(* when the block began.  A shorter stream, which only encode_stream has,  *)
(* stays at its end and is continued with zeros.                           *)
(***************************************************************************)
EXTENDS StreamCodec, WellFoundedInduction, SequenceTheorems, FiniteSetTheorems, TLAPS

Byte == Int \X Int
Value == Byte \cup [Data -> Byte]

CallRecords == [op : Ops, family : {"Classic", "Leopard"}, readers : Int, writers : Int,
                rd : SUBSET Streams, wr : SUBSET Streams, par_read : BOOLEAN, par_write : BOOLEAN,
                singular : BOOLEAN, damaged : Byte]

(* What the caller hands over. *)
Given ==
    /\ call \in CallRecords
    /\ source \in [Streams -> [start : Nat, len : 0 .. LongestStream, fault : Nat]]
    /\ limit \in [Streams -> Nat]
    /\ \A i \in Streams : source[i].start <= source[i].len
    /\ call.op # "reconstruct_cursors" => \A i \in Streams : source[i].start = 0
    /\ call.op = "encode" => call.rd = Data /\ call.wr = Parity
    /\ call.op = "verify" => call.rd = Streams /\ call.wr = {}
    /\ call.damaged = Zero \/ (call.op = "verify" /\ call.damaged = <<0, LongestStream>>)

Typed ==
    /\ pc \in {"begin", "read", "write", "done"}
    /\ pos \in [Streams -> Nat]
    /\ buf \in [Streams -> Seq(Value)] /\ out \in [Streams -> Seq(Value)]
    /\ got \in [Streams -> 0 .. BlockSize] /\ put \in [Streams -> 0 .. BlockSize]
    /\ \A i \in Streams : Len(buf[i]) <= BlockSize /\ pos[i] <= source[i].len
    /\ ended \subseteq Streams /\ failed \subseteq Streams
    /\ block \in 0 .. BlockSize
    /\ interrupts \in 0 .. MaxInterrupts

(* Nothing has happened yet. *)
AtBegin ==
    /\ \A i \in Streams : pos[i] = source[i].start /\ out[i] = <<>>
    /\ result = NoResult
    /\ call.op = "reconstruct_cursors" => call.rd = Streams /\ call.wr = {}

(* Every stream has a reader or a writer. *)
Layout == call.rd # {} /\ call.wr = Streams \ call.rd

(* Where reader i is when b bytes were delivered. *)
From(i, b) == IF b <= source[i].len THEN b ELSE source[i].len

(* b bytes can be delivered, and those verified are not damaged. *)
Reached(b) ==
    /\ \E i \in call.rd : b <= source[i].len
    /\ call.op # "encode" => \A i \in call.rd : b <= source[i].len
    /\ call.damaged # Zero => b < LongestStream

Delivered(b) ==
    \A w \in call.wr : /\ Len(out[w]) = b + put[w]
                       /\ \A k \in 1 .. Len(out[w]) : out[w][k] = Expected(w, k)

ReaderAt(i, b) ==
    /\ pos[i] = From(i, b) + got[i]
    /\ Len(buf[i]) = BlockSize
    /\ \A k \in 1 .. got[i] : buf[i][k] = ByteAt(i, From(i, b) + k)
    /\ i \in ended => got[i] = BlockSize \/ pos[i] = source[i].len

(* A block that is being read; b bytes were delivered before it. *)
ReadAt(b) ==
    /\ Reached(b) /\ Delivered(b)
    /\ \A i \in call.rd : ReaderAt(i, b)
    /\ \A i \in Streams : put[i] = 0
    /\ ended \subseteq call.rd /\ failed \subseteq call.rd \ ended
    /\ \A i \in failed : pos[i] = source[i].fault

WriterAt(w, b) ==
    /\ put[w] <= block /\ block <= Len(buf[w])
    /\ \A k \in 1 .. block : buf[w][k] = Expected(w, b + k)
    /\ w \in failed => Len(out[w]) = limit[w]

(* A block that is being written. *)
WriteAt(b) ==
    /\ Reached(b + block) /\ Delivered(b)
    /\ \A i \in call.rd : pos[i] = From(i, b + block)
    /\ \A w \in call.wr : WriterAt(w, b)
    /\ failed \subseteq call.wr

InBlock ==
    /\ Layout /\ result = NoResult
    /\ \E b \in 0 .. LongestStream : (pc = "read" /\ ReadAt(b)) \/ (pc = "write" /\ WriteAt(b))

(* The inductive invariant. *)
IInv ==
    /\ Given /\ Typed
    /\ pc = "begin" => AtBegin
    /\ pc \in {"read", "write"} => InBlock
    /\ pc = "done" => OutputsRight /\ OkIsComplete /\ ErrorsAreTrue

-----------------------------------------------------------------------------
(***************************************************************************)
(* Numbers and sequences.                                                  *)
(***************************************************************************)

(* A set of naturals has a least element. *)
LEMMA MinIsLeast ==
    ASSUME NEW S \in SUBSET Nat, S # {}
    PROVE  Min(S) \in S /\ \A j \in S : Min(S) <= j
<1>1. PICK x \in S : \A y \in S : ~ (<<y, x>> \in OpToRel(<, Nat))
  BY NatLessThanWellFounded, WFMin, Zenon
<1>2. ASSUME NEW y \in S, y < x PROVE <<y, x>> \in OpToRel(<, Nat)
  <2>1. <<y, x>> \in Nat \X Nat
    OBVIOUS
  <2>2. <<y, x>>[1] < <<y, x>>[2]
    BY <1>2
  <2> QED BY <2>1, <2>2, Zenon DEF OpToRel
<1>3. \A y \in S : ~ (y < x)
  BY <1>1, <1>2, Zenon
<1>4. \A y \in S : x <= y
  BY <1>3
<1> QED BY <1>4 DEF Min

(* A bounded one has a greatest. *)
LEMMA MaxIsGreatest ==
    ASSUME NEW S \in SUBSET Nat, S # {}, NEW n \in Nat, \A x \in S : x <= n
    PROVE  Max(S) \in S /\ \A x \in S : x <= Max(S)
<1> DEFINE T == {n - x : x \in S}
<1>1. T \in SUBSET Nat /\ T # {}
  <2>1. \A x \in S : n - x \in Nat
    OBVIOUS
  <2> QED BY <2>1
<1>2. Min(T) \in T /\ \A t \in T : Min(T) <= t
  <2> HIDE DEF T
  <2> QED BY <1>1, MinIsLeast
<1>3. PICK m \in S : Min(T) = n - m
  BY <1>2
<1>4. \A x \in S : n - m <= n - x
  BY <1>2, <1>3
<1>5. \A x \in S : m >= x
  BY <1>4
<1> QED BY <1>5 DEF Max

LEMMA Constants ==
    /\ DataShards \in Nat \ {0} /\ BlockSize \in Nat \ {0} /\ MaxInterrupts \in Nat
    /\ Streams \subseteq Nat /\ Data \subseteq Streams /\ 0 \in Data /\ Parity = Streams \ Data
    /\ Lengths \subseteq 0 .. LongestStream /\ LongestStream \in Nat \ {0}
    /\ Faults \subseteq 0 .. LongestStream /\ Never \in Nat
<1>1. PICK m \in Lengths \ {0} : \A l \in Lengths : l <= m
  BY StreamAssumption
<1>2. LongestStream \in Lengths /\ \A l \in Lengths : l <= LongestStream
  BY <1>1, StreamAssumption, MaxIsGreatest DEF LongestStream
<1>3. LongestStream \in Nat \ {0} /\ Lengths \subseteq 0 .. LongestStream /\ Never \in Nat
  BY <1>1, <1>2, StreamAssumption DEF Never
<1>4. Streams \subseteq Nat /\ Data \subseteq Streams /\ 0 \in Data
  BY StreamAssumption DEF Streams, Data, Total
<1> QED BY <1>3, <1>4, StreamAssumption DEF Parity

LEMMA TableIsSeq ==
    ASSUME NEW S, NEW n \in Nat, NEW f, f = [k \in 1 .. n |-> f[k]], \A k \in 1 .. n : f[k] \in S
    PROVE  f \in Seq(S) /\ Len(f) = n
<1>1. f \in [1 .. n -> S]
  OBVIOUS
<1> QED BY <1>1

(* What a writer has after it took n bytes of a buffer. *)
LEMMA Taken ==
    ASSUME NEW S, NEW s \in Seq(S), NEW t \in Seq(S), NEW p \in Nat, NEW n \in Nat,
           p + n <= Len(t)
    PROVE  LET u == s \o SubSeq(t, p + 1, p + n)
           IN /\ u \in Seq(S) /\ Len(u) = Len(s) + n
              /\ \A k \in 1 .. Len(s) : u[k] = s[k]
              /\ \A k \in 1 .. n : u[Len(s) + k] = t[p + k]
<1> DEFINE v == SubSeq(t, p + 1, p + n)
<1>1. \A k \in p + 1 .. p + n : k \in 1 .. Len(t)
  OBVIOUS
<1>2. \A k \in 1 .. Len(t) : t[k] \in S
  OBVIOUS
<1>3. v \in Seq(S) /\ Len(v) = n /\ \A k \in 1 .. n : v[k] = t[p + k]
  <2>1. \A k \in p + 1 .. p + n : t[k] \in S
    BY <1>1, <1>2
  <2>2. /\ v \in Seq(S) /\ Len(v) = IF p + 1 <= p + n THEN p + n - (p + 1) + 1 ELSE 0
        /\ \A k \in 1 .. p + n - (p + 1) + 1 : v[k] = t[p + 1 + k - 1]
    BY <2>1, SubSeqProperties
  <2> QED BY <2>2
<1> HIDE DEF v
<1>4. s \o v \in Seq(S) /\ Len(s \o v) = Len(s) + n
  BY <1>3, ConcatProperties
<1>5. \A k \in 1 .. Len(s) : (s \o v)[k] = s[k]
  BY <1>3
<1>6. ASSUME NEW k \in 1 .. n PROVE (s \o v)[Len(s) + k] = v[k]
  BY <1>3
<1> QED BY <1>3, <1>4, <1>5, <1>6 DEF v

-----------------------------------------------------------------------------
(***************************************************************************)
(* The initial states.                                                     *)
(***************************************************************************)
LEMMA CallsAreRecords ==
    ASSUME NEW c \in Calls
    PROVE  /\ c \in CallRecords
           /\ c.op = "encode" => c.rd = Data /\ c.wr = Parity
           /\ c.op \in {"verify", "reconstruct_cursors"} => c.rd = Streams /\ c.wr = {}
           /\ c.damaged = Zero \/ (c.op = "verify" /\ c.damaged = <<0, LongestStream>>)
<1>1. PICK op \in Ops : c \in CallsOf(op)
  BY DEF Calls
<1>2. op \in {"encode", "verify", "reconstruct", "reconstruct_cursors"}
  BY StreamAssumption
<1>3. /\ \A rd \in ReaderSets(op) : /\ rd \subseteq Streams /\ (op = "encode" => rd = Data)
                                    /\ op \in {"verify", "reconstruct_cursors"} => rd = Streams
      /\ \A wr \in WriterSets(op) : /\ wr \subseteq Streams /\ (op = "encode" => wr = Parity)
                                    /\ op \in {"verify", "reconstruct_cursors"} => wr = {}
  BY <1>2, Constants DEF ReaderSets, WriterSets
<1> DEFINE W == IF op \in {"encode", "reconstruct"} THEN -1 .. 1 ELSE {0}
           Sing == IF op = "reconstruct" THEN BOOLEAN ELSE {FALSE}
           Damages == IF op = "verify" THEN {Zero, <<0, LongestStream>>} ELSE {Zero}
<1>4. W \subseteq Int /\ Sing \subseteq BOOLEAN
  <2>1. W = -1 .. 1 \/ W = {0}
    OBVIOUS
  <2>2. Sing = BOOLEAN \/ Sing = {FALSE}
    OBVIOUS
  <2> HIDE DEF W, Sing
  <2>3. W \subseteq Int
    BY <2>1
  <2>4. Sing \subseteq BOOLEAN
    BY <2>2, Zenon
  <2> QED BY <2>3, <2>4
<1>5. \A d \in Damages : d \in Byte /\ (d = Zero \/ (op = "verify" /\ d = <<0, LongestStream>>))
  BY Constants DEF Byte, Zero
<1>6. c \in [op : {op}, family : {"Classic", "Leopard"}, readers : -1 .. 1, writers : W,
             rd : ReaderSets(op), wr : WriterSets(op), par_read : BOOLEAN, par_write : BOOLEAN,
             singular : Sing, damaged : Damages]
  BY <1>1 DEF CallsOf
<1> HIDE DEF W, Sing, Damages
<1>7. /\ c.op = op /\ c.rd \in ReaderSets(op) /\ c.wr \in WriterSets(op) /\ c.damaged \in Damages
  BY <1>6
<1>8. c.rd \in SUBSET Streams /\ c.wr \in SUBSET Streams /\ c.damaged \in Byte
  BY <1>3, <1>5, <1>7
<1>9. c \in CallRecords
  <2>1. c = [op |-> c.op, family |-> c.family, readers |-> c.readers, writers |-> c.writers,
             rd |-> c.rd, wr |-> c.wr, par_read |-> c.par_read, par_write |-> c.par_write,
             singular |-> c.singular, damaged |-> c.damaged]
    BY <1>6
  <2>2. c.readers \in Int /\ c.writers \in Int
    <3>1. c.readers \in -1 .. 1
      BY <1>6
    <3>2. c.writers \in W
      BY <1>6
    <3>3. c.readers \in Int
      BY <3>1
    <3> QED BY <1>4, <3>2, <3>3, Zenon
  <2>3. /\ c.op \in Ops /\ c.family \in {"Classic", "Leopard"}
        /\ c.par_read \in BOOLEAN /\ c.par_write \in BOOLEAN
    BY <1>6, <1>7
  <2>4. c.singular \in Sing
    BY <1>6
  <2>5. c.singular \in BOOLEAN
    BY <1>4, <2>4
  <2> QED BY <1>8, <2>1, <2>2, <2>3, <2>5, Zenon DEF CallRecords
<1> QED BY <1>3, <1>5, <1>7, <1>9, Zenon

LEMMA InitGiven == Init => Given
<1> SUFFICES ASSUME Init PROVE Given
  OBVIOUS
<1> USE DEF Init
<1>1. call \in Calls
  OBVIOUS
<1>2. /\ call \in CallRecords
      /\ call.op = "encode" => call.rd = Data /\ call.wr = Parity
      /\ call.op = "verify" => call.rd = Streams /\ call.wr = {}
      /\ call.damaged = Zero \/ (call.op = "verify" /\ call.damaged = <<0, LongestStream>>)
  BY <1>1, CallsAreRecords
<1>3. call.rd \subseteq Streams /\ call.wr \subseteq Streams
  BY <1>2 DEF CallRecords
<1>4. AnyStreams \/ PlainStreams
  OBVIOUS
<1> DEFINE Kinds == [start : Nat, len : 0 .. LongestStream, fault : Nat]
<1>5. CASE PlainStreams
  <2>1. \A i \in Streams : source[i] = [start |-> 0, len |-> LongestStream, fault |-> Never]
    BY <1>5 DEF PlainStreams
  <2>2. source \in [Streams -> Kinds] /\ limit \in [Streams -> Nat]
    BY <1>5, Constants DEF PlainStreams
  <2> QED BY <1>2, <2>1, <2>2, Constants DEF Given
<1>6. CASE AnyStreams
  <2>1. PICK len \in [call.rd -> Lengths], bad \in SUBSET call.rd, f \in Faults, at_end \in BOOLEAN :
          /\ Cardinality(bad) <= 1
          /\ call.op = "reconstruct_cursors" => bad = {}
          /\ at_end => call.op = "reconstruct_cursors"
          /\ source = [i \in Streams |->
                 IF i \notin call.rd THEN [start |-> 0, len |-> 0, fault |-> Never]
                 ELSE [start |-> IF at_end THEN len[i] ELSE 0, len |-> len[i],
                       fault |-> IF i \in bad /\ f <= len[i] THEN f ELSE Never]]
    BY <1>6 DEF AnyStreams
  <2>2. PICK lim \in [call.wr -> Faults \cup {Never}] :
          limit = [i \in Streams |-> IF i \in call.wr THEN lim[i] ELSE Never]
    BY <1>6 DEF AnyStreams
  <2>3. limit \in [Streams -> Nat]
    <3>1. Faults \cup {Never} \subseteq Nat /\ Never \in Nat
      BY Constants
    <3> QED BY <2>2, <3>1
  <2>4. f \in Nat /\ \A i \in call.rd : len[i] \in 0 .. LongestStream
    <3>1. Faults \subseteq Nat /\ Lengths \subseteq 0 .. LongestStream
      BY Constants
    <3>2. \A i \in call.rd : len[i] \in Lengths
      OBVIOUS
    <3> QED BY <3>1, <3>2, Zenon
  <2>5. ASSUME NEW i \in Streams
        PROVE  /\ source[i] \in Kinds /\ source[i].start <= source[i].len
               /\ ~ at_end => source[i].start = 0
    <3>1. CASE i \notin call.rd
      BY <2>1, <3>1, Constants
    <3>2. CASE i \in call.rd
      <4> DEFINE from == IF at_end THEN len[i] ELSE 0
                 flt == IF i \in bad /\ f <= len[i] THEN f ELSE Never
      <4>1. source[i] = [start |-> from, len |-> len[i], fault |-> flt]
        BY <2>1, <3>2
      <4>2. /\ len[i] \in 0 .. LongestStream /\ from \in Nat /\ flt \in Nat /\ from <= len[i]
            /\ ~ at_end => from = 0
        BY <2>4, <3>2, Constants
      <4> HIDE DEF from, flt
      <4> QED BY <4>1, <4>2
    <3> QED BY <3>1, <3>2
  <2>6. source \in [Streams -> Kinds]
    BY <2>1, <2>5
  <2> QED BY <1>2, <2>1, <2>3, <2>5, <2>6 DEF Given
<1> QED BY <1>4, <1>5, <1>6

LEMMA InitIInv == Init => IInv
<1> SUFFICES ASSUME Init PROVE IInv
  OBVIOUS
<1>1. Given
  BY InitGiven
<1>2. pc = "begin" /\ \A i \in Streams : pos[i] = source[i].start /\ out[i] = <<>>
  BY DEF Init
<1>3. Typed
  <2>1. \A i \in Streams : source[i].start \in Nat /\ source[i].start <= source[i].len
    BY <1>1 DEF Given
  <2>2. pos \in [Streams -> Nat] /\ \A i \in Streams : pos[i] <= source[i].len
    BY <2>1 DEF Init
  <2>3. buf \in [Streams -> Seq(Value)] /\ out \in [Streams -> Seq(Value)]
    BY DEF Init
  <2>4. \A i \in Streams : Len(buf[i]) = 0
    BY DEF Init
  <2>5. /\ got \in [Streams -> 0 .. BlockSize] /\ put \in [Streams -> 0 .. BlockSize]
        /\ block \in 0 .. BlockSize /\ interrupts \in 0 .. MaxInterrupts
        /\ ended = {} /\ failed = {} /\ BlockSize \in Nat
    BY Constants DEF Init
  <2> QED BY <1>2, <2>2, <2>3, <2>4, <2>5 DEF Typed
<1>4. AtBegin
  BY <1>2, CallsAreRecords DEF Init, AtBegin
<1> QED BY <1>1, <1>2, <1>3, <1>4 DEF IInv

-----------------------------------------------------------------------------
(***************************************************************************)
(* A block that was read.                                                  *)
(***************************************************************************)
LEMMA StreamTypes ==
    ASSUME Given, Typed, NEW i \in Streams
    PROVE  /\ i \in Nat /\ pos[i] \in Nat /\ got[i] \in 0 .. BlockSize /\ put[i] \in 0 .. BlockSize
           /\ source[i].len \in 0 .. LongestStream /\ source[i].start \in Nat
           /\ source[i].fault \in Nat /\ limit[i] \in Nat /\ pos[i] <= source[i].len
           /\ buf[i] \in Seq(Value) /\ out[i] \in Seq(Value) /\ Len(buf[i]) <= BlockSize
           /\ BlockSize \in Nat \ {0} /\ LongestStream \in Nat /\ block \in 0 .. BlockSize
<1>1. source[i] \in [start : Nat, len : 0 .. LongestStream, fault : Nat]
  BY DEF Given
<1>2. source[i].len \in 0 .. LongestStream /\ source[i].start \in Nat /\ source[i].fault \in Nat
  BY <1>1
<1>3. /\ i \in Nat /\ BlockSize \in Nat \ {0} /\ LongestStream \in Nat
  BY Constants
<1> QED BY <1>2, <1>3 DEF Typed, Given

LEMMA RolesAreStreams ==
    ASSUME Given PROVE call.rd \subseteq Streams /\ call.wr \subseteq Streams
BY DEF Given, CallRecords

(* The longest read is one of the reads. *)
LEMMA ActualLenIsRead ==
    ASSUME Given, Typed, Layout
    PROVE  /\ ActualLen \in 0 .. BlockSize
           /\ \E i \in call.rd : got[i] = ActualLen
           /\ \A i \in call.rd : got[i] <= ActualLen
<1> DEFINE S == {got[i] : i \in call.rd}
<1>1. S # {} /\ \A x \in S : x \in 0 .. BlockSize
  BY RolesAreStreams, StreamTypes DEF Layout
<1>2. BlockSize \in Nat /\ S \in SUBSET Nat /\ \A x \in S : x <= BlockSize
  BY <1>1, Constants
<1>3. Max(S) \in S /\ \A x \in S : x <= Max(S)
  <2> HIDE DEF S
  <2> QED BY <1>1, <1>2, MaxIsGreatest
<1> QED BY <1>1, <1>3 DEF ActualLen

(* Every reader is through: those that read less are at their end, and the *)
(* block is there for whoever read it.                                     *)
LEMMA RoundOver ==
    ASSUME Given, Typed, Layout, NEW b \in Nat, ReadAt(b), ended = call.rd
    PROVE  /\ failed = {}
           /\ \A i \in call.rd : pos[i] = From(i, b + ActualLen)
           /\ \E i \in call.rd : b + ActualLen <= source[i].len
           /\ \A i \in call.rd : got[i] # ActualLen =>
                got[i] < ActualLen /\ pos[i] = source[i].len /\ source[i].len < b + ActualLen
           /\ \A i \in call.rd : got[i] = ActualLen /\ ActualLen # 0 =>
                From(i, b) = b /\ b + ActualLen <= source[i].len
           /\ ActualLen = 0 => \A i \in call.rd : source[i].len <= b
<1> DEFINE n == ActualLen
<1>1. n \in 0 .. BlockSize /\ (\E i \in call.rd : got[i] = n) /\ \A i \in call.rd : got[i] <= n
  BY ActualLenIsRead
<1> HIDE DEF n
<1>2. failed = {}
  BY DEF ReadAt
<1>3. ASSUME NEW i \in call.rd
      PROVE  /\ pos[i] = From(i, b + n)
             /\ got[i] # n => got[i] < n /\ pos[i] = source[i].len /\ source[i].len < b + n
             /\ got[i] = n /\ n # 0 => From(i, b) = b /\ b + n <= source[i].len
             /\ n = 0 => source[i].len <= b
  <2>1. /\ pos[i] = From(i, b) + got[i] /\ pos[i] <= source[i].len
        /\ got[i] = BlockSize \/ pos[i] = source[i].len
    BY RolesAreStreams, StreamTypes DEF ReadAt, ReaderAt
  <2>2. /\ pos[i] \in Nat /\ got[i] \in Nat /\ got[i] <= n /\ n \in Nat /\ n <= BlockSize
        /\ source[i].len \in Nat /\ BlockSize \in Nat \ {0}
    BY <1>1, RolesAreStreams, StreamTypes
  <2> QED BY <2>1, <2>2 DEF From
<1>4. \E i \in call.rd : b + n <= source[i].len
  <2>1. CASE n = 0
    BY <2>1 DEF ReadAt, Reached
  <2>2. CASE n # 0
    BY <1>1, <1>3, <2>2
  <2> QED BY <2>1, <2>2
<1> QED BY <1>2, <1>3, <1>4 DEF n

(* Without misfits all streams have the block. *)
LEMMA EvenRound ==
    ASSUME Given, Typed, Layout, NEW b \in Nat, ReadAt(b), ended = call.rd,
           Misfits = {}, ActualLen # 0
    PROVE  \A i \in call.rd :
             /\ got[i] = ActualLen /\ b + ActualLen <= source[i].len /\ pos[i] = b + ActualLen
             /\ \A k \in 1 .. ActualLen : buf[i][k] = ByteAt(i, b + k)
<1> SUFFICES ASSUME NEW i \in call.rd
             PROVE  /\ got[i] = ActualLen /\ b + ActualLen <= source[i].len
                    /\ pos[i] = b + ActualLen
                    /\ \A k \in 1 .. ActualLen : buf[i][k] = ByteAt(i, b + k)
  OBVIOUS
<1>1. got[i] = ActualLen
  BY DEF Misfits
<1>2. From(i, b) = b /\ b + ActualLen <= source[i].len
  BY <1>1, RoundOver
<1> QED BY <1>1, <1>2 DEF ReadAt, ReaderAt

(* A byte of a missing shard comes out right when the survivors show the   *)
(* same offset.                                                            *)
LEMMA RecoversRight ==
    ASSUME NEW c, NEW S, S # {}, NEW k, NEW p \in Nat, \A i \in S : c[i][k] = <<i, p>>, NEW t
    PROVE  Recovered(c, S, t, k) = <<t, p>>
<1> DEFINE offsets == {c[i][k][2] : i \in S}
<1>1. offsets = {p}
  OBVIOUS
<1>2. Min({p}) = p /\ Cardinality({p}) = 1
  <2>1. {p} \in SUBSET Nat /\ {p} # {}
    OBVIOUS
  <2>2. Min({p}) \in {p}
    BY <2>1, MinIsLeast
  <2>3. Cardinality({p}) = 1
    BY FS_Singleton
  <2> QED BY <2>2, <2>3
<1> HIDE DEF offsets
<1>3. \A i \in S : c[i][k] = <<i, Min(offsets)>> /\ Cardinality(offsets) = 1
  BY <1>1, <1>2
<1> QED BY <1>1, <1>2, <1>3 DEF Recovered, offsets

(* One damaged byte spoils its column. *)
LEMMA DamageSpoils ==
    ASSUME NEW c, NEW S \in SUBSET Nat, NEW k, NEW i \in S, c[i][k] = Garbage, NEW t
    PROVE  Recovered(c, S, t, k) = Garbage
<1>1. \A x : c[i][k] # <<i, x>>
  BY DEF Garbage
<1> QED BY <1>1 DEF Recovered

(* encode_sep_opt on the block: the parity of the bytes at each offset,    *)
(* streams that have ended continued with zeros.                           *)
LEMMA EncodedBlock ==
    ASSUME Given, Typed, Layout, NEW b \in Nat, ReadAt(b), ended = call.rd, call.op = "encode"
    PROVE  /\ EncodeBlock \in [Streams -> Seq(Value)]
           /\ \A i \in Streams : Len(EncodeBlock[i]) <= BlockSize
           /\ \A w \in call.wr : /\ Len(EncodeBlock[w]) = ActualLen
                                 /\ \A k \in 1 .. ActualLen : EncodeBlock[w][k] = Expected(w, b + k)
<1> DEFINE n == ActualLen
<1>1. n \in 0 .. BlockSize /\ BlockSize \in Nat /\ \A i \in call.rd : got[i] <= n
  BY ActualLenIsRead, Constants
<1>2. call.rd = Data /\ call.wr = Parity /\ Data \subseteq Streams /\ Parity = Streams \ Data
      /\ call.damaged = Zero /\ Streams \subseteq Nat
  BY Constants DEF Given
<1>3. ASSUME NEW i \in Data
      PROVE  /\ Finished(i) \in Seq(Value) /\ Len(Finished(i)) = BlockSize
             /\ \A k \in 1 .. n : Finished(i)[k] = IF b + k <= source[i].len THEN <<i, b + k>> ELSE Zero
  <2>1. /\ Len(buf[i]) = BlockSize /\ pos[i] = From(i, b) + got[i] /\ pos[i] <= source[i].len
        /\ \A k \in 1 .. got[i] : buf[i][k] = ByteAt(i, From(i, b) + k)
        /\ buf[i] \in Seq(Value) /\ got[i] \in Nat /\ source[i].len \in Nat /\ i \in Nat
    BY <1>2, StreamTypes DEF ReadAt, ReaderAt
  <2>2. got[i] # n => pos[i] = source[i].len
    BY <1>2, RoundOver DEF n
  <2>3. DOMAIN buf[i] = 1 .. BlockSize /\ \A k \in 1 .. BlockSize : buf[i][k] \in Value
    BY <2>1
  <2>4. Finished(i) = [k \in 1 .. BlockSize |->
            IF k \in got[i] + 1 .. n THEN Zero ELSE buf[i][k]]
    BY <2>3 DEF Finished, n
  <2>5. Zero \in Value
    BY DEF Zero, Value, Byte
  <2>6. Finished(i) \in Seq(Value) /\ Len(Finished(i)) = BlockSize
    BY <1>1, <2>3, <2>4, <2>5
  <2>7. ASSUME NEW k \in 1 .. n
        PROVE  Finished(i)[k] = IF b + k <= source[i].len THEN <<i, b + k>> ELSE Zero
    <3>1. k \in 1 .. BlockSize /\ k \in Nat /\ k # 0
      BY <1>1
    <3>2. CASE k <= got[i]
      <4>1. From(i, b) = b /\ b + k <= source[i].len
        BY <2>1, <3>1, <3>2 DEF From
      <4>2. Finished(i)[k] = buf[i][k] /\ buf[i][k] = ByteAt(i, b + k)
        BY <2>1, <2>4, <3>1, <3>2, <4>1
      <4>3. <<i, b + k>> # Zero
        BY <2>1 DEF Zero
      <4> QED BY <1>2, <4>1, <4>2, <4>3 DEF ByteAt
    <3>3. CASE k > got[i]
      <4>1. Finished(i)[k] = Zero
        BY <2>4, <3>1, <3>3, <1>1, <2>1
      <4>2. pos[i] = source[i].len
        BY <1>1, <2>1, <2>2, <3>3
      <4>3. ~ (b + k <= source[i].len)
        BY <2>1, <3>1, <3>3, <4>2 DEF From
      <4> QED BY <4>1, <4>3
    <3> QED BY <2>1, <3>1, <3>2, <3>3
  <2> QED BY <2>6, <2>7
<1> DEFINE c == [i \in Streams |-> IF i \in Data THEN Finished(i) ELSE buf[i]]
<1>4. EncodeBlock = [i \in Streams |-> IF i \in Parity THEN [k \in 1 .. n |-> Coded(c, k)] ELSE c[i]]
  BY DEF EncodeBlock, n
<1> HIDE DEF n
<1>5. ASSUME NEW k \in 1 .. n, NEW w
      PROVE  Coded(c, k) = Expected(w, b + k) /\ Coded(c, k) \in Value
  <2>1. \A i \in Data : c[i][k] = IF b + k <= source[i].len THEN <<i, b + k>> ELSE Zero
    BY <1>2, <1>3
  <2>2. Expected(w, b + k) = [i \in Data |-> IF b + k <= source[i].len THEN <<i, b + k>> ELSE Zero]
    BY DEF Expected
  <2>3. Coded(c, k) = Expected(w, b + k)
    BY <2>1, <2>2 DEF Coded
  <2>4. \A i \in Data : (IF b + k <= source[i].len THEN <<i, b + k>> ELSE Zero) \in Byte
    BY <1>1, <1>2 DEF Zero, Byte
  <2>5. Expected(w, b + k) \in [Data -> Byte]
    BY <2>2, <2>4
  <2> QED BY <2>3, <2>5, Zenon DEF Value
<1>6. ASSUME NEW w \in Parity
      PROVE  /\ EncodeBlock[w] \in Seq(Value) /\ Len(EncodeBlock[w]) = n
             /\ \A k \in 1 .. n : EncodeBlock[w][k] = Expected(w, b + k)
  <2>1. EncodeBlock[w] = [k \in 1 .. n |-> Coded(c, k)]
    BY <1>2, <1>4
  <2>2. n \in Nat
    BY <1>1
  <2> DEFINE f == EncodeBlock[w]
  <2>3. f = [k \in 1 .. n |-> f[k]] /\ \A k \in 1 .. n : f[k] = Coded(c, k)
    BY <2>1
  <2> HIDE DEF c, f
  <2>4. \A k \in 1 .. n : f[k] \in Value /\ f[k] = Expected(w, b + k)
    BY <1>5, <2>3, Zenon
  <2>5. f \in Seq(Value) /\ Len(f) = n
    BY <2>2, <2>3, <2>4, TableIsSeq
  <2> QED BY <2>4, <2>5 DEF f
<1>7. \A i \in Data : EncodeBlock[i] = Finished(i)
  BY <1>2, <1>4
<1>8. ASSUME NEW i \in Streams PROVE EncodeBlock[i] \in Seq(Value) /\ Len(EncodeBlock[i]) <= BlockSize
  BY <1>1, <1>2, <1>3, <1>6, <1>7
<1>9. EncodeBlock \in [Streams -> Seq(Value)]
  BY <1>4, <1>8
<1> QED BY <1>2, <1>6, <1>8, <1>9 DEF n

(* Buffer i holds the bytes of its shard that follow the first b. *)
RowAt(x, i, b) ==
    /\ x[i] \in Seq(Value) /\ Len(x[i]) = ActualLen
    /\ \A k \in 1 .. ActualLen : x[i][k] = <<i, b + k>>

(* All bytes of missing shards, likewise. *)
LEMMA RebuildsRight ==
    ASSUME ActualLen \in Nat, NEW b \in Nat, NEW x, NEW S, S # {}, NEW T \in SUBSET Streams,
           \A j \in S : RowAt(x, j, b)
    PROVE  \A i \in T : RowAt(Rebuilt(x, S, T), i, b)
<1> SUFFICES ASSUME NEW i \in T PROVE RowAt(Rebuilt(x, S, T), i, b)
  OBVIOUS
<1> DEFINE n == ActualLen
           f == Rebuilt(x, S, T)[i]
<1>1. f = [k \in 1 .. n |-> Recovered(x, S, i, k)]
  BY DEF Rebuilt
<1>2. \A k \in 1 .. n : Recovered(x, S, i, k) = <<i, b + k>>
  <2>1. \A j \in S : \A k \in 1 .. n : x[j][k] = <<j, b + k>>
    BY DEF RowAt
  <2> SUFFICES ASSUME NEW k \in 1 .. n PROVE Recovered(x, S, i, k) = <<i, b + k>>
    OBVIOUS
  <2>2. b + k \in Nat /\ \A j \in S : x[j][k] = <<j, b + k>>
    BY <2>1
  <2> DEFINE p == b + k
  <2> HIDE DEF p
  <2>3. p \in Nat /\ \A j \in S : x[j][k] = <<j, p>>
    BY <2>2 DEF p
  <2>4. Recovered(x, S, i, k) = <<i, p>>
    BY <2>3, RecoversRight
  <2> QED BY <2>4 DEF p
<1>3. \A k \in 1 .. n : <<i, b + k>> \in Value
  BY Constants DEF Value, Byte
<1> HIDE DEF f, n
<1>4. f = [k \in 1 .. n |-> f[k]] /\ \A k \in 1 .. n : f[k] = <<i, b + k>>
  BY <1>1, <1>2
<1>5. \A k \in 1 .. n : f[k] \in Value
  BY <1>3, <1>4, Zenon
<1>6. n \in Nat
  BY DEF n
<1>7. f \in Seq(Value) /\ Len(f) = n
  BY <1>4, <1>5, <1>6, TableIsSeq, Zenon
<1> QED BY <1>4, <1>7 DEF f, n, RowAt

(* reconstruct_block: the missing shards' bytes at the offsets of the      *)
(* block.                                                                  *)
LEMMA ReconstructedBlock ==
    ASSUME Given, Typed, Layout, NEW b \in Nat, ReadAt(b), ended = call.rd, Recovers,
           Misfits = {}, ActualLen # 0
    PROVE  /\ ReconstructBlock \in [Streams -> Seq(Value)]
           /\ \A i \in Streams : Len(ReconstructBlock[i]) <= BlockSize
           /\ \A w \in call.wr :
                /\ Len(ReconstructBlock[w]) = ActualLen
                /\ \A k \in 1 .. ActualLen : ReconstructBlock[w][k] = Expected(w, b + k)
<1> DEFINE rd == call.rd
           c == [i \in Streams |-> IF i \in rd THEN SubSeq(buf[i], 1, got[i]) ELSE buf[i]]
           d == Rebuilt(c, FirstSurvivors, Data \ rd)
           r == Rebuilt(d, Data, Parity \ rd)
<1>1. ActualLen \in 1 .. BlockSize /\ ActualLen \in Nat /\ BlockSize \in Nat
  BY ActualLenIsRead, Constants
<1>2. /\ rd \subseteq Streams /\ rd # {} /\ call.wr = Streams \ rd /\ Streams \subseteq Nat
      /\ Data \subseteq Streams /\ 0 \in Data /\ Parity = Streams \ Data
      /\ call.damaged = Zero /\ call.op # "encode"
  BY Constants, RolesAreStreams DEF Given, Layout, Recovers
<1>3. ASSUME NEW i \in rd PROVE RowAt(c, i, b)
  <2> DEFINE n == ActualLen
  <2>1. /\ got[i] = n /\ buf[i] \in Seq(Value) /\ Len(buf[i]) = BlockSize
        /\ \A k \in 1 .. n : buf[i][k] = ByteAt(i, b + k)
    <3>1. got[i] = n /\ \A k \in 1 .. n : buf[i][k] = ByteAt(i, b + k)
      BY EvenRound
    <3>2. i \in Streams /\ ReaderAt(i, b)
      BY <1>2 DEF ReadAt
    <3> QED BY <3>1, <3>2, StreamTypes DEF ReaderAt
  <2>2. \A k \in 1 .. n : ByteAt(i, b + k) = <<i, b + k>>
    BY <1>1, <1>2 DEF ByteAt, Zero
  <2>3. c[i] = SubSeq(buf[i], 1, n)
    BY <1>2, <2>1
  <2> HIDE DEF n, c
  <2>4. n \in 1 .. BlockSize /\ BlockSize \in Nat
    BY <1>1 DEF n
  <2>5. \A k \in 1 .. n : buf[i][k] \in Value
    BY <2>1, <2>4
  <2>6. /\ SubSeq(buf[i], 1, n) \in Seq(Value)
        /\ Len(SubSeq(buf[i], 1, n)) = IF 1 <= n THEN n - 1 + 1 ELSE 0
        /\ \A k \in 1 .. n - 1 + 1 : SubSeq(buf[i], 1, n)[k] = buf[i][1 + k - 1]
    BY <2>4, <2>5, SubSeqProperties
  <2>7. /\ c[i] \in Seq(Value) /\ Len(c[i]) = n /\ \A k \in 1 .. n : c[i][k] = <<i, b + k>>
    <3>1. Len(c[i]) = n /\ c[i] \in Seq(Value)
      BY <2>3, <2>4, <2>6
    <3>2. ASSUME NEW k \in 1 .. n PROVE c[i][k] = buf[i][k]
      <4>1. k \in 1 .. n - 1 + 1 /\ 1 + k - 1 = k
        BY <2>4
      <4> QED BY <2>3, <2>6, <4>1
    <3> QED BY <2>1, <2>2, <3>1, <3>2
  <2> QED BY <2>7 DEF n, RowAt
<1>4. FirstSurvivors \subseteq rd /\ FirstSurvivors # {}
  <2>1. rd \in SUBSET Nat /\ rd # {}
    BY <1>2
  <2>2. Min(rd) \in rd /\ \A j \in rd : Min(rd) <= j
    BY <2>1, MinIsLeast
  <2>3. {j \in rd : j < Min(rd)} = {}
    BY <2>1, <2>2
  <2>4. Cardinality({}) < DataShards
    BY FS_EmptySet, Constants
  <2>5. Cardinality({j \in rd : j < Min(rd)}) < DataShards
    BY <2>3, <2>4
  <2> QED BY <2>2, <2>5 DEF FirstSurvivors
<1> HIDE DEF c
<1>5. \A x, S, T : \A i \in Streams \ T : Rebuilt(x, S, T)[i] = x[i]
  BY DEF Rebuilt
<1>6. \A i \in Data \ rd : RowAt(d, i, b)
  <2>1. \A j \in FirstSurvivors : RowAt(c, j, b)
    BY <1>3, <1>4
  <2>2. Data \ rd \in SUBSET Streams
    BY <1>2
  <2> QED BY <1>1, <1>4, <2>1, <2>2, RebuildsRight
<1>7. \A i \in rd : RowAt(d, i, b)
  <2>1. rd \subseteq Streams \ (Data \ rd)
    BY <1>2
  <2>2. \A i \in Streams \ (Data \ rd) : d[i] = c[i]
    BY DEF Rebuilt
  <2>3. \A i \in rd : d[i] = c[i]
    BY <2>1, <2>2, Zenon
  <2> HIDE DEF d
  <2> QED BY <1>3, <2>3 DEF RowAt
<1> HIDE DEF d
<1>8. \A i \in Parity \ rd : RowAt(r, i, b)
  <2>1. \A j \in Data : RowAt(d, j, b)
    BY <1>6, <1>7
  <2>2. Parity \ rd \in SUBSET Streams /\ Data # {}
    BY <1>2
  <2> QED BY <1>1, <2>1, <2>2, RebuildsRight
<1>9. \A i \in Streams \ (Parity \ rd) : RowAt(r, i, b)
  <2>1. \A i \in Streams \ (Parity \ rd) : r[i] = d[i] /\ (i \in rd \/ i \in Data \ rd)
    BY <1>2, <1>5
  <2> HIDE DEF r
  <2> QED BY <1>6, <1>7, <2>1 DEF RowAt
<1>10. r = [i \in Streams |-> r[i]] /\ r = ReconstructBlock
  BY DEF Rebuilt, ReconstructBlock, r, d, c, rd
<1>11. \A w, k : Expected(w, k) = <<w, k>>
  BY <1>2 DEF Expected
<1> HIDE DEF r
<1>12. \A i \in Streams : RowAt(r, i, b)
  BY <1>8, <1>9
<1>13. \A i \in Streams : /\ r[i] \in Seq(Value) /\ Len(r[i]) = ActualLen
                          /\ \A k \in 1 .. ActualLen : r[i][k] = Expected(i, b + k)
  BY <1>11, <1>12 DEF RowAt
<1>14. r \in [Streams -> Seq(Value)]
  BY <1>10, <1>13
<1>15. \A i \in Streams : Len(r[i]) <= BlockSize
  BY <1>1, <1>13
<1>16. call.wr \subseteq Streams /\ r = ReconstructBlock
  BY <1>2, <1>10
<1> QED BY <1>13, <1>14, <1>15, <1>16, Zenon

(* verify_stream: a column verifies unless its byte is the damaged one. *)
LEMMA VerifiedBlock ==
    ASSUME Given, Typed, Layout, NEW b \in Nat, ReadAt(b), ended = call.rd, call.op = "verify",
           Misfits = {}, ActualLen # 0
    PROVE  /\ Verifies => (call.damaged # Zero => b + ActualLen < LongestStream)
           /\ ~ Verifies => call.damaged # Zero /\ source[0].len = LongestStream
<1> DEFINE n == ActualLen
<1>1. n \in 1 .. BlockSize /\ BlockSize \in Nat /\ LongestStream \in Nat
  BY ActualLenIsRead, Constants
<1>2. /\ call.rd = Streams /\ Streams \in SUBSET Nat /\ 0 \in Streams
      /\ call.damaged \in {Zero, <<0, LongestStream>>}
  BY Constants DEF Given
<1>3. \A i \in Streams : /\ b + n <= source[i].len /\ source[i].len \in 0 .. LongestStream
                         /\ \A k \in 1 .. n : buf[i][k] = ByteAt(i, b + k)
  BY <1>2, EvenRound, StreamTypes DEF n
<1> HIDE DEF n
<1>4. ASSUME NEW k \in 1 .. n, <<0, b + k>> = call.damaged
      PROVE  Recovered(buf, Streams, 0, k) = Garbage
  <2>1. buf[0][k] = Garbage
    BY <1>2, <1>3, <1>4 DEF ByteAt
  <2> QED BY <1>2, <2>1, DamageSpoils
<1>5. ASSUME NEW k \in 1 .. n, <<0, b + k>> # call.damaged
      PROVE  Recovered(buf, Streams, 0, k) # Garbage
  <2>1. \A i \in Streams : <<i, b + k>> # call.damaged
    BY <1>1, <1>2, <1>5 DEF Zero
  <2>2. \A i \in Streams : buf[i][k] = <<i, b + k>>
    BY <1>3, <2>1 DEF ByteAt
  <2>3. b + k \in Nat /\ Streams # {}
    BY <1>1, <1>2
  <2>4. Recovered(buf, Streams, 0, k) = <<0, b + k>>
    BY <2>2, <2>3, RecoversRight
  <2> QED BY <1>1, <2>4 DEF Garbage
<1>6. ASSUME Verifies, call.damaged # Zero PROVE b + n < LongestStream
  <2>1. call.damaged = <<0, LongestStream>>
    BY <1>2, <1>6
  <2>2. \A k \in 1 .. n : b + k # LongestStream
    BY <1>4, <1>6, <2>1 DEF Verifies, n
  <2>3. b + n <= LongestStream /\ b + n # LongestStream
    BY <1>1, <1>2, <1>3, <2>2
  <2> QED BY <1>1, <2>3
<1>7. ASSUME ~ Verifies PROVE call.damaged # Zero /\ source[0].len = LongestStream
  <2>1. PICK k \in 1 .. n : Recovered(buf, Streams, 0, k) = Garbage
    BY <1>7 DEF Verifies, n
  <2>2. <<0, b + k>> = call.damaged
    BY <1>5, <2>1
  <2>3. call.damaged # Zero
    BY <2>2 DEF Zero
  <2>4. b + k = LongestStream
    BY <1>2, <2>2, <2>3
  <2>5. source[0].len \in 0 .. LongestStream /\ b + n <= source[0].len
    BY <1>2, <1>3
  <2> QED BY <1>1, <2>3, <2>4, <2>5
<1> QED BY <1>6, <1>7 DEF n

-----------------------------------------------------------------------------
(***************************************************************************)
(* Where a call may be left.                                               *)
(***************************************************************************)
LEMMA OutputsInRead ==
    ASSUME Given, Typed, Layout, NEW b \in Nat, ReadAt(b) PROVE OutputsRight
<1> SUFFICES ASSUME NEW w \in call.wr
             PROVE  /\ \A k \in DOMAIN out[w] : out[w][k] = Expected(w, k)
                    /\ Recovers => \A i \in call.rd : Len(out[w]) <= pos[i]
                    /\ \A v \in call.wr : Len(out[w]) <= Len(out[v]) + BlockSize
  BY DEF OutputsRight
<1>1. \A v \in call.wr : Len(out[v]) = b
  BY RolesAreStreams DEF ReadAt, Delivered
<1>2. out[w] \in Seq(Value) /\ BlockSize \in Nat
  BY RolesAreStreams, StreamTypes
<1>3. DOMAIN out[w] = 1 .. Len(out[w])
  BY <1>2
<1>4. \A k \in DOMAIN out[w] : out[w][k] = Expected(w, k)
  BY <1>3 DEF ReadAt, Delivered
<1>5. ASSUME Recovers, NEW i \in call.rd PROVE b <= pos[i]
  <2>1. b <= source[i].len
    BY <1>5 DEF ReadAt, Reached, Recovers
  <2>2. pos[i] = b + got[i] /\ got[i] \in Nat
    BY <2>1, RolesAreStreams, StreamTypes DEF ReadAt, ReaderAt, From
  <2> QED BY <2>2
<1> QED BY <1>1, <1>2, <1>4, <1>5

LEMMA OutputsInWrite ==
    ASSUME Given, Typed, Layout, NEW b \in Nat, WriteAt(b) PROVE OutputsRight
<1> SUFFICES ASSUME NEW w \in call.wr
             PROVE  /\ \A k \in DOMAIN out[w] : out[w][k] = Expected(w, k)
                    /\ Recovers => \A i \in call.rd : Len(out[w]) <= pos[i]
                    /\ \A v \in call.wr : Len(out[w]) <= Len(out[v]) + BlockSize
  BY DEF OutputsRight
<1>1. \A v \in call.wr : Len(out[v]) = b + put[v] /\ put[v] <= block /\ put[v] \in Nat
  BY RolesAreStreams, StreamTypes DEF WriteAt, WriterAt, Delivered
<1>2. out[w] \in Seq(Value) /\ BlockSize \in Nat /\ block \in 0 .. BlockSize
  BY RolesAreStreams, StreamTypes
<1>3. DOMAIN out[w] = 1 .. Len(out[w])
  BY <1>2
<1>4. \A k \in DOMAIN out[w] : out[w][k] = Expected(w, k)
  BY <1>3 DEF WriteAt, Delivered
<1>5. ASSUME Recovers, NEW i \in call.rd PROVE b + block = pos[i]
  <2>1. b + block <= source[i].len
    BY <1>5 DEF WriteAt, Reached, Recovers
  <2> QED BY <2>1 DEF WriteAt, From
<1>6. Len(out[w]) \in Nat /\ Len(out[w]) <= b + block
  <2>1. Len(out[w]) = b + put[w] /\ put[w] <= block /\ put[w] \in Nat
    BY <1>1
  <2> QED BY <1>2, <2>1
<1>7. ASSUME NEW v \in call.wr PROVE Len(out[w]) <= Len(out[v]) + BlockSize
  <2>1. Len(out[v]) = b + put[v] /\ put[v] \in Nat
    BY <1>1
  <2> QED BY <1>2, <1>6, <2>1
<1> QED BY <1>4, <1>5, <1>6, <1>7

(* The invariant gives the properties, in the middle of a block too. *)
LEMMA IInvSuffices ==
    ASSUME IInv PROVE TypeOK /\ OutputsRight /\ OkIsComplete /\ ErrorsAreTrue
<1>1. TypeOK
  BY DEF IInv, Typed, TypeOK
<1>2. CASE pc = "begin"
  <2>1. result = NoResult /\ \A i \in Streams : out[i] = <<>>
    BY <1>2 DEF IInv, AtBegin
  <2>2. \A w \in call.wr : Len(out[w]) = 0 /\ DOMAIN out[w] = {}
    BY <2>1, RolesAreStreams DEF IInv
  <2>3. \A i \in call.rd : pos[i] \in Nat
    BY RolesAreStreams, StreamTypes DEF IInv
  <2>4. OutputsRight
    BY <2>2, <2>3, Constants DEF OutputsRight
  <2> QED BY <1>1, <2>1, <2>4 DEF OkIsComplete, ErrorsAreTrue, NoResult
<1>3. CASE pc \in {"read", "write"}
  <2>1. InBlock
    BY <1>3 DEF IInv
  <2>2. result = NoResult /\ Layout
    BY <2>1 DEF InBlock
  <2>3. PICK b \in 0 .. LongestStream : ReadAt(b) \/ WriteAt(b)
    BY <2>1 DEF InBlock
  <2>4. b \in Nat
    BY Constants
  <2>5. OutputsRight
    BY <2>2, <2>3, <2>4, OutputsInRead, OutputsInWrite DEF IInv
  <2> QED BY <1>1, <2>2, <2>5 DEF OkIsComplete, ErrorsAreTrue, NoResult
<1>4. CASE pc = "done"
  BY <1>1, <1>4 DEF IInv
<1> QED BY <1>2, <1>3, <1>4 DEF IInv, Typed

LEMMA GivenStays ==
    ASSUME UNCHANGED given
    PROVE  /\ (Given' <=> Given) /\ (Layout' <=> Layout) /\ (Recovers' <=> Recovers)
           /\ \A i, b : From(i, b)' = From(i, b) /\ ByteAt(i, b)' = ByteAt(i, b)
           /\ \A w, k : Expected(w, k)' = Expected(w, k)
           /\ \A b : Reached(b)' <=> Reached(b)
<1>1. call' = call /\ source' = source /\ limit' = limit
  BY DEF given
<1>2. Given' <=> Given
  BY <1>1 DEF Given
<1>3. (Layout' <=> Layout) /\ (Recovers' <=> Recovers)
  BY <1>1 DEF Layout, Recovers
<1>4. \A i, b : From(i, b)' = From(i, b) /\ ByteAt(i, b)' = ByteAt(i, b)
  BY <1>1 DEF From, ByteAt
<1>5. \A w, k : Expected(w, k)' = Expected(w, k)
  BY <1>1 DEF Expected
<1>6. \A b : Reached(b)' <=> Reached(b)
  BY <1>1 DEF Reached
<1> QED BY <1>2, <1>3, <1>4, <1>5, <1>6

(* A call that returns in the middle of a block. *)
LEMMA Ends ==
    ASSUME IInv, UNCHANGED <<given, pos, buf, got, ended, put, failed, block, out, interrupts>>,
           NEW kind, NEW shard, Return(kind, shard), OkIsComplete', ErrorsAreTrue'
    PROVE  IInv'
<1>1. call' = call /\ source' = source /\ limit' = limit
  BY DEF given
<1>2. OutputsRight'
  BY <1>1, IInvSuffices DEF OutputsRight, Expected, Recovers
<1>3. Given' /\ Typed' /\ pc' = "done"
  BY <1>1 DEF IInv, Given, Typed, Return
<1> QED BY <1>2, <1>3 DEF IInv

(* A block begins after b bytes of every stream. *)
LEMMA BlockBegins ==
    ASSUME Typed, Given', Layout', UNCHANGED <<out, block, interrupts>>, result' = NoResult,
           pos' \in [Streams -> Nat], \A i \in Streams : pos'[i] <= source'[i].len,
           NextBlock(call'.rd),
           NEW b \in 0 .. LongestStream, Reached(b)',
           \A i \in call'.rd : pos'[i] = From(i, b)',
           \A w \in call'.wr : /\ Len(out[w]) = b
                               /\ \A k \in 1 .. Len(out[w]) : out[w][k] = Expected(w, k)'
    PROVE  IInv'
<1>1. /\ pc' = "read" /\ got' = [i \in Streams |-> 0] /\ put' = [i \in Streams |-> 0]
      /\ ended' = {} /\ failed' = {}
      /\ buf' = [i \in Streams |-> IF i \in call'.rd THEN Prepared(buf[i]) ELSE buf[i]]
  BY DEF NextBlock
<1>2. BlockSize \in Nat \ {0} /\ Zero \in Value /\ b \in Nat
  BY Constants DEF Value, Byte, Zero
<1>3. ASSUME NEW i \in Streams
      PROVE  buf'[i] \in Seq(Value) /\ Len(buf'[i]) <= BlockSize
             /\ (i \in call'.rd => Len(buf'[i]) = BlockSize)
  <2>1. buf[i] \in Seq(Value) /\ Len(buf[i]) <= BlockSize
    BY DEF Typed
  <2>2. \A k \in 1 .. BlockSize : (IF k <= Len(buf[i]) THEN buf[i][k] ELSE Zero) \in Value
    BY <1>2, <2>1
  <2>3. Prepared(buf[i]) \in Seq(Value) /\ Len(Prepared(buf[i])) = BlockSize
    <3> DEFINE f == Prepared(buf[i])
    <3>1. f = [k \in 1 .. BlockSize |-> f[k]] /\ \A k \in 1 .. BlockSize : f[k] \in Value
      BY <2>2 DEF Prepared
    <3> HIDE DEF f
    <3>2. f \in Seq(Value) /\ Len(f) = BlockSize
      BY <1>2, <3>1, TableIsSeq
    <3> QED BY <3>2 DEF f
  <2>4. buf'[i] = IF i \in call'.rd THEN Prepared(buf[i]) ELSE buf[i]
    BY <1>1
  <2> QED BY <1>2, <2>1, <2>3, <2>4
<1>4. call'.rd \subseteq Streams /\ call'.wr \subseteq Streams
  BY DEF Given, CallRecords
<1>5. Typed'
  <2>1. buf' \in [Streams -> Seq(Value)]
    BY <1>1, <1>3
  <2>2. /\ got' \in [Streams -> 0 .. BlockSize] /\ put' \in [Streams -> 0 .. BlockSize]
    BY <1>1, <1>2
  <2> QED BY <1>1, <1>3, <2>1, <2>2 DEF Typed
<1>6. ReadAt(b)'
  <2>1. Delivered(b)'
    <3> SUFFICES ASSUME NEW w \in call'.wr
                 PROVE  /\ Len(out'[w]) = b + put'[w]
                        /\ \A k \in 1 .. Len(out'[w]) : out'[w][k] = Expected(w, k)'
      BY DEF Delivered
    <3>1. put'[w] = 0 /\ out'[w] = out[w] /\ Len(out[w]) = b
      BY <1>1, <1>4
    <3> QED BY <1>2, <3>1
  <2>2. \A i \in call'.rd : ReaderAt(i, b)'
    <3> SUFFICES ASSUME NEW i \in call'.rd PROVE ReaderAt(i, b)'
      OBVIOUS
    <3>1. got'[i] = 0 /\ Len(buf'[i]) = BlockSize /\ pos'[i] = From(i, b)' /\ i \notin ended'
      BY <1>1, <1>3, <1>4
    <3>2. pos'[i] \in Nat
      BY <1>4
    <3>3. 1 .. got'[i] = {} /\ pos'[i] = From(i, b)' + got'[i]
      BY <3>1, <3>2
    <3> QED BY <3>1, <3>3 DEF ReaderAt
  <2> QED BY <1>1, <2>1, <2>2 DEF ReadAt
<1>7. InBlock'
  BY <1>1, <1>6 DEF InBlock
<1> QED BY <1>1, <1>5, <1>7 DEF IInv

-----------------------------------------------------------------------------
(***************************************************************************)
(* The steps.                                                              *)
(***************************************************************************)

(* Who is turned away is told one of the argument errors. *)
LEMMA RejectionIsError ==
    ASSUME Given, Rejections # {}
    PROVE  Rejection.kind \in {"TooFewShards", "TooManyShards", "UnsupportedCodecFamily",
                               "InvalidShardFlags", "TooFewShardsPresent"}
<1> DEFINE K == {"Ok", "TooFewShards", "TooManyShards", "UnsupportedCodecFamily",
                 "InvalidShardFlags", "TooFewShardsPresent"}
<1>1. \A x : CountError(x) \in K /\ QuorumError(x) \in K
  BY DEF CountError, QuorumError
<1>2. FamilyError \in K
  BY DEF FamilyError
<1>3. call.op \in {"encode", "verify", "reconstruct", "reconstruct_cursors"}
  BY StreamAssumption DEF Given, CallRecords
<1>4. DOMAIN ArgumentErrors \subseteq Nat /\ \A k \in DOMAIN ArgumentErrors : ArgumentErrors[k].kind \in K
  <2>1. CASE call.op = "encode"
    BY <1>1, <1>2, <2>1 DEF ArgumentErrors
  <2>2. CASE call.op = "verify"
    BY <1>1, <1>2, <2>2 DEF ArgumentErrors
  <2>3. CASE call.op = "reconstruct"
    BY <1>1, <1>2, <2>3 DEF ArgumentErrors
  <2>4. CASE call.op = "reconstruct_cursors"
    BY <1>1, <1>2, <2>4 DEF ArgumentErrors
  <2> QED BY <1>3, <2>1, <2>2, <2>3, <2>4
<1>5. Rejections \in SUBSET Nat
  BY <1>4 DEF Rejections
<1>6. Min(Rejections) \in Rejections
  BY <1>5, MinIsLeast
<1>7. Rejection.kind \in K /\ Rejection.kind # "Ok"
  BY <1>4, <1>6 DEF Rejections, Rejection
<1> QED BY <1>7

(* Who is not has a reader or a writer for every stream. *)
LEMMA AcceptedLayout ==
    ASSUME Given, Rejections = {}, call.op # "reconstruct_cursors" PROVE Layout
<1>1. call.op \in {"encode", "verify", "reconstruct"}
  BY StreamAssumption DEF Given, CallRecords
<1>2. CASE call.op \in {"encode", "verify"}
  BY <1>2, Constants DEF Given, Layout
<1>3. CASE call.op = "reconstruct"
  <2>1. /\ 4 \in DOMAIN ArgumentErrors /\ 5 \in DOMAIN ArgumentErrors
        /\ ArgumentErrors[4].kind = IF Misplaced(call.rd, call.wr) = {} THEN "Ok" ELSE "InvalidShardFlags"
        /\ ArgumentErrors[5].kind = QuorumError(call.rd)
    BY <1>3 DEF ArgumentErrors
  <2>2. Misplaced(call.rd, call.wr) = {} /\ ~ (Cardinality(call.rd) < DataShards)
    BY <2>1 DEF Rejections, QuorumError
  <2>3. call.rd # {}
    BY <2>2, FS_EmptySet, Constants
  <2>4. call.wr = Streams \ call.rd
    BY <2>2, RolesAreStreams DEF Misplaced
  <2> QED BY <2>3, <2>4 DEF Layout
<1> QED BY <1>1, <1>2, <1>3

LEMMA BeginKeeps ==
    ASSUME IInv, Begin PROVE IInv'
<1>1. /\ Given /\ Typed /\ AtBegin /\ source' = source /\ limit' = limit
      /\ UNCHANGED <<block, out, interrupts>>
  BY DEF Begin, IInv
<1>2. \A i \in Streams : /\ pos[i] = source[i].start /\ out[i] = <<>> /\ Len(out[i]) = 0
                         /\ pos[i] <= source[i].len
  BY <1>1 DEF AtBegin, Typed
<1>3. /\ \A i \in Streams : source[i].len \in Nat
      /\ 0 \in 0 .. LongestStream /\ LongestStream \in Nat \ {0}
  BY <1>1, Constants, StreamTypes
<1>4. CASE /\ Rejections # {} /\ Return(Rejection.kind, Rejection.shard)
           /\ UNCHANGED <<call, pos, buf, got, put, ended, failed>>
  <2>1. result' = [kind |-> Rejection.kind, shard |-> Rejection.shard]
    BY <1>4 DEF Return
  <2>2. result'.kind \in {"TooFewShards", "TooManyShards", "UnsupportedCodecFamily",
                          "InvalidShardFlags", "TooFewShardsPresent"}
    BY <1>1, <1>4, <2>1, RejectionIsError
  <2>3. OkIsComplete'
    BY <2>2 DEF OkIsComplete
  <2>4. ErrorsAreTrue'
    BY <1>1, <1>2, <1>4, <2>2 DEF ErrorsAreTrue
  <2> QED BY <1>1, <1>4, <2>3, <2>4, Ends DEF given
<1>5. CASE /\ Rejections = {} /\ call.op # "reconstruct_cursors"
           /\ NextBlock(call.rd) /\ UNCHANGED <<call, pos, result>>
  <2>1. UNCHANGED given
    BY <1>1, <1>5 DEF given
  <2>2. Given' /\ Layout' /\ result' = NoResult
    BY <1>1, <1>5, <2>1, AcceptedLayout, GivenStays DEF AtBegin
  <2>3. Layout
    BY <1>1, <1>5, AcceptedLayout
  <2>4. Reached(0)
    BY <1>1, <1>3, <2>3, RolesAreStreams DEF Reached, Layout
  <2>5. \A i \in call.rd : pos[i] = From(i, 0)
    BY <1>1, <1>2, <1>3, <1>5, RolesAreStreams DEF From, Given
  <2>6. \A w \in call.wr : Len(out[w]) = 0 /\ 1 .. Len(out[w]) = {}
    BY <1>1, <1>2, RolesAreStreams
  <2>7. Reached(0)' /\ \A i \in call'.rd : pos'[i] = From(i, 0)'
    BY <1>5, <2>1, <2>4, <2>5, GivenStays
  <2>8. pos' \in [Streams -> Nat] /\ \A i \in Streams : pos'[i] <= source'[i].len
    BY <1>1, <1>5 DEF Typed
  <2>9. NextBlock(call'.rd)
    BY <1>5
  <2>10. \A w \in call'.wr : /\ Len(out[w]) = 0
                             /\ \A k \in 1 .. Len(out[w]) : out[w][k] = Expected(w, k)'
    BY <1>5, <2>6
  <2> QED BY <1>1, <1>3, <2>2, <2>7, <2>8, <2>9, <2>10, BlockBegins
<1>6. CASE /\ Rejections = {} /\ call.op = "reconstruct_cursors" /\ NonEmpty = {}
           /\ Return("Ok", 0) /\ UNCHANGED <<call, pos, buf, got, put, ended, failed>>
  <2>1. result' = [kind |-> "Ok", shard |-> 0]
    BY <1>6 DEF Return
  <2>2. call.rd = Streams /\ call.wr = {} /\ Streams # {}
    BY <1>1, <1>6, Constants DEF AtBegin
  <2>3. \A i \in Streams : source[i].len = 0
    BY <1>6 DEF NonEmpty
  <2>4. Longest = 0
    <3>1. {source[i].len : i \in call.rd} = {0}
      BY <2>2, <2>3
    <3>2. {0} \in SUBSET Nat /\ {0} # {} /\ 0 \in Nat /\ \A x \in {0} : x <= 0
      OBVIOUS
    <3>3. Max({0}) \in {0}
      BY <3>2, MaxIsGreatest
    <3> QED BY <3>1, <3>3 DEF Longest
  <2>5. OkIsComplete'
    BY <1>1, <1>6, <2>1, <2>2, <2>3, <2>4 DEF OkIsComplete, Longest
  <2>6. ErrorsAreTrue'
    BY <2>1 DEF ErrorsAreTrue
  <2> QED BY <1>1, <1>6, <2>5, <2>6, Ends DEF given
<1>7. CASE /\ Rejections = {} /\ call.op = "reconstruct_cursors" /\ NonEmpty # {}
           /\ call' = [call EXCEPT !.rd = NonEmpty, !.wr = Streams \ NonEmpty]
           /\ pos' = [i \in Streams |-> 0] /\ NextBlock(NonEmpty) /\ UNCHANGED result
  <2>1. /\ call'.rd = NonEmpty /\ call'.wr = Streams \ NonEmpty /\ call'.op = call.op
        /\ call'.damaged = call.damaged /\ NonEmpty \subseteq Streams /\ call' \in CallRecords
    BY <1>1, <1>7 DEF Given, CallRecords, NonEmpty
  <2>2. call.damaged = Zero
    BY <1>1, <1>7 DEF Given
  <2>3. Given'
    BY <1>1, <1>7, <2>1, <2>2 DEF Given
  <2>4. Layout' /\ result' = NoResult
    BY <1>1, <1>7, <2>1 DEF Layout, AtBegin
  <2>5. Reached(0)'
    BY <1>1, <1>3, <1>7, <2>1, <2>2 DEF Reached
  <2>6. \A i \in call'.rd : pos'[i] = From(i, 0)'
    BY <1>1, <1>3, <1>7, <2>1 DEF From
  <2>7. \A w \in call'.wr : Len(out[w]) = 0 /\ 1 .. Len(out[w]) = {}
    BY <1>2, <2>1
  <2>8. pos' \in [Streams -> Nat] /\ \A i \in Streams : pos'[i] <= source'[i].len
    BY <1>1, <1>3, <1>7
  <2>9. NextBlock(call'.rd)
    BY <1>7, <2>1
  <2>10. \A w \in call'.wr : /\ Len(out[w]) = 0
                             /\ \A k \in 1 .. Len(out[w]) : out[w][k] = Expected(w, k)'
    BY <2>7
  <2> QED BY <1>1, <1>3, <2>3, <2>4, <2>5, <2>6, <2>8, <2>9, <2>10, BlockBegins
<1> QED BY <1>4, <1>5, <1>6, <1>7 DEF Begin

(* A step of a reader that goes on reading. *)
LEMMA ReadStays ==
    ASSUME IInv, pc = "read", UNCHANGED <<given, pc, put, block, out, result>>, Typed',
           NEW b \in 0 .. LongestStream, ReadAt(b), \A i \in call.rd : ReaderAt(i, b)',
           ended' \subseteq call.rd, failed' \subseteq call.rd \ ended',
           \A i \in failed' : pos'[i] = source[i].fault
    PROVE  IInv'
<1>1. call' = call /\ source' = source /\ out' = out /\ put' = put /\ pc' = "read" /\ result' = result
  BY DEF given
<1>2. InBlock /\ Given
  BY DEF IInv
<1>3. Given' /\ Layout' /\ Reached(b)' /\ result' = NoResult
  BY <1>1, <1>2, GivenStays DEF InBlock, ReadAt
<1>4. Delivered(b)'
  BY <1>1, GivenStays DEF ReadAt, Delivered
<1>5. ReadAt(b)'
  BY <1>1, <1>3, <1>4 DEF ReadAt
<1>6. InBlock'
  BY <1>1, <1>3, <1>5 DEF InBlock
<1> QED BY <1>1, <1>3, <1>6 DEF IInv

(* A reader in the middle of a block. *)
LEMMA ReadingIs ==
    ASSUME IInv, NEW i, i \in Reading
    PROVE  /\ pc = "read" /\ i \in call.rd /\ i \in Streams /\ i \notin ended /\ i \notin failed
           /\ Given /\ Typed /\ Layout /\ result = NoResult
           /\ \E b \in 0 .. LongestStream : ReadAt(b)
<1>1. pc = "read" /\ i \in call.rd /\ i \notin ended /\ i \notin failed
  BY DEF Reading
<1>2. Given /\ Typed /\ InBlock
  BY <1>1 DEF IInv
<1> QED BY <1>1, <1>2, RolesAreStreams DEF InBlock

LEMMA ReadSomeKeeps ==
    ASSUME IInv, NEW i \in Streams, NEW n \in 1 .. BlockSize, ReadSome(i, n) PROVE IInv'
<1>1. /\ pc = "read" /\ i \in call.rd /\ i \notin ended /\ i \notin failed /\ Given /\ Typed
  BY ReadingIs DEF ReadSome
<1>2. PICK b \in 0 .. LongestStream : ReadAt(b)
  BY ReadingIs DEF ReadSome
<1>3. /\ b \in Nat /\ BlockSize \in Nat /\ n \in Nat /\ got[i] \in Nat /\ pos[i] \in Nat
      /\ source[i].len \in Nat /\ source[i].fault \in Nat /\ buf[i] \in Seq(Value) /\ i \in Nat
  BY <1>1, Constants, StreamTypes
<1>4. n <= BlockSize - got[i] /\ pos[i] + n <= source[i].len
  <2>1. n <= BlockSize - got[i] /\ pos[i] + n <= Min({source[i].len, source[i].fault})
    BY DEF ReadSome, Room
  <2>2. {source[i].len, source[i].fault} \in SUBSET Nat /\ {source[i].len, source[i].fault} # {}
    BY <1>3
  <2> DEFINE m == Min({source[i].len, source[i].fault})
  <2>3. m \in Nat /\ m <= source[i].len
    BY <2>2, MinIsLeast
  <2> HIDE DEF m
  <2>4. pos[i] + n <= m
    BY <2>1 DEF m
  <2> QED BY <1>3, <2>1, <2>3, <2>4
<1>5. ReaderAt(i, b)
  BY <1>1, <1>2 DEF ReadAt
<1>6. DOMAIN buf[i] = 1 .. BlockSize /\ Len(buf[i]) = BlockSize
  BY <1>3, <1>5 DEF ReaderAt
<1> DEFINE f == [k \in 1 .. BlockSize |-> IF k \in got[i] + 1 .. got[i] + n
                   THEN ByteAt(i, pos[i] + k - got[i]) ELSE buf[i][k]]
<1>7. /\ pos' = [pos EXCEPT ![i] = pos[i] + n] /\ buf' = [buf EXCEPT ![i] = f]
      /\ got' = [got EXCEPT ![i] = got[i] + n]
      /\ ended' = (IF got[i] + n = BlockSize THEN ended \cup {i} ELSE ended)
      /\ UNCHANGED <<given, pc, put, failed, block, out, result, interrupts>>
      /\ call' = call /\ source' = source
  BY <1>6 DEF ReadSome, given
<1>8. /\ f \in Seq(Value) /\ Len(f) = BlockSize
  <2>1. \A p \in Nat : ByteAt(i, p) \in Value
    BY <1>3 DEF ByteAt, Garbage, Value, Byte
  <2>2. \A k \in got[i] + 1 .. got[i] + n : pos[i] + k - got[i] \in Nat
    BY <1>3
  <2>3. \A k \in 1 .. BlockSize : buf[i][k] \in Value
    BY <1>3, <1>6
  <2>4. ASSUME NEW k \in 1 .. BlockSize PROVE f[k] \in Value
    <3>1. CASE k \in got[i] + 1 .. got[i] + n
      <4>1. f[k] = ByteAt(i, pos[i] + k - got[i]) /\ pos[i] + k - got[i] \in Nat
        BY <2>2, <3>1
      <4> QED BY <2>1, <4>1
    <3>2. CASE k \notin got[i] + 1 .. got[i] + n
      BY <2>3, <3>2
    <3> QED BY <3>1, <3>2
  <2>5. f = [k \in 1 .. BlockSize |-> f[k]]
    OBVIOUS
  <2> HIDE DEF f
  <2> QED BY <1>3, <2>4, <2>5, TableIsSeq
<1>9. \A k \in 1 .. got[i] + n : f[k] = ByteAt(i, From(i, b) + k)
  <2> SUFFICES ASSUME NEW k \in 1 .. got[i] + n PROVE f[k] = ByteAt(i, From(i, b) + k)
    OBVIOUS
  <2>1. pos[i] = From(i, b) + got[i] /\ From(i, b) \in Nat
    BY <1>3, <1>5 DEF ReaderAt, From
  <2>2. k \in 1 .. BlockSize
    BY <1>3, <1>4
  <2>3. CASE k \in 1 .. got[i]
    <3>1. k \notin got[i] + 1 .. got[i] + n
      BY <1>3, <2>3
    <3> QED BY <1>5, <2>2, <2>3, <3>1 DEF ReaderAt
  <2>4. CASE k \in got[i] + 1 .. got[i] + n
    <3>1. pos[i] + k - got[i] = From(i, b) + k
      BY <1>3, <2>1, <2>4
    <3>2. f[k] = ByteAt(i, pos[i] + k - got[i])
      BY <2>2, <2>4
    <3> QED BY <3>1, <3>2
  <2> QED BY <1>3, <2>3, <2>4
<1> HIDE DEF f
<1>10. /\ pos'[i] = pos[i] + n /\ buf'[i] = f /\ got'[i] = got[i] + n
       /\ \A j \in Streams \ {i} : pos'[j] = pos[j] /\ buf'[j] = buf[j] /\ got'[j] = got[j]
  BY <1>1, <1>7 DEF Typed
<1>11. /\ ended \subseteq ended' /\ ended' \subseteq ended \cup {i}
       /\ i \in ended' => got[i] + n = BlockSize
  BY <1>1, <1>7
<1>12. Typed'
  <2>1. pos[i] + n \in Nat /\ got[i] + n \in 0 .. BlockSize
    <3>1. got[i] \in Nat /\ pos[i] \in Nat /\ n \in Nat /\ BlockSize \in Nat
      BY <1>3
    <3>2. n <= BlockSize - got[i]
      BY <1>4
    <3> QED BY <3>1, <3>2
  <2>2. pos' \in [Streams -> Nat] /\ got' \in [Streams -> 0 .. BlockSize]
    BY <1>1, <1>7, <2>1 DEF Typed
  <2>3. buf' \in [Streams -> Seq(Value)]
    BY <1>1, <1>7, <1>8 DEF Typed
  <2>4. ASSUME NEW j \in Streams PROVE Len(buf'[j]) <= BlockSize /\ pos'[j] <= source'[j].len
    <3>1. CASE j = i
      BY <1>3, <1>4, <1>7, <1>8, <1>10, <3>1
    <3>2. CASE j # i
      <4>1. buf'[j] = buf[j] /\ pos'[j] = pos[j] /\ source'[j] = source[j]
        BY <1>7, <1>10, <3>2
      <4> QED BY <1>1, <4>1 DEF Typed
    <3> QED BY <3>1, <3>2
  <2>5. ended' \subseteq Streams /\ failed' \subseteq Streams
    BY <1>1, <1>7, <1>11 DEF Typed
  <2> QED BY <1>1, <1>7, <2>2, <2>3, <2>4, <2>5 DEF Typed
<1>13. UNCHANGED given
  BY <1>7
<1>14. ReaderAt(i, b)'
  <2>1. From(i, b)' = From(i, b) /\ \A p : ByteAt(i, p)' = ByteAt(i, p)
    BY <1>13, GivenStays
  <2>2. pos'[i] = From(i, b) + got'[i]
    <3>1. pos[i] = From(i, b) + got[i] /\ From(i, b) \in Nat
      BY <1>3, <1>5 DEF ReaderAt, From
    <3> QED BY <1>3, <1>10, <3>1
  <2> QED BY <1>8, <1>9, <1>10, <1>11, <2>1, <2>2 DEF ReaderAt
<1>15. ASSUME NEW j \in call.rd, j # i PROVE ReaderAt(j, b)'
  <2>1. From(j, b)' = From(j, b) /\ \A p : ByteAt(j, p)' = ByteAt(j, p)
    BY <1>13, GivenStays
  <2>2. ReaderAt(j, b) /\ j \in Streams \ {i} /\ (j \in ended' => j \in ended)
    BY <1>1, <1>2, <1>11, <1>15, RolesAreStreams DEF ReadAt
  <2>3. pos'[j] = pos[j] /\ buf'[j] = buf[j] /\ got'[j] = got[j] /\ source'[j] = source[j]
    BY <1>7, <1>10, <2>2
  <2> QED BY <2>1, <2>2, <2>3 DEF ReaderAt
<1>16. \A j \in call.rd : ReaderAt(j, b)'
  BY <1>14, <1>15
<1>17. ended' \subseteq call.rd /\ failed' \subseteq call.rd \ ended'
  BY <1>1, <1>2, <1>7, <1>11 DEF ReadAt
<1>18. \A j \in failed' : pos'[j] = source[j].fault
  BY <1>1, <1>2, <1>7, <1>10 DEF ReadAt, Typed
<1> QED BY <1>1, <1>2, <1>7, <1>12, <1>16, <1>17, <1>18, ReadStays

(* Steps that move no reader. *)
LEMMA ReadersStay ==
    ASSUME UNCHANGED <<given, pos, buf, got>>, NEW b, NEW i, ReaderAt(i, b),
           i \in ended' => i \in ended \/ pos[i] = source[i].len
    PROVE  ReaderAt(i, b)'
<1>1. From(i, b)' = From(i, b) /\ \A p : ByteAt(i, p)' = ByteAt(i, p)
  BY GivenStays
<1>2. pos' = pos /\ buf' = buf /\ got' = got /\ source' = source
  BY DEF given
<1> QED BY <1>1, <1>2 DEF ReaderAt

LEMMA ReadEndKeeps ==
    ASSUME IInv, NEW i \in Streams, ReadEnd(i) PROVE IInv'
<1>1. /\ pc = "read" /\ i \in call.rd /\ i \notin ended /\ i \notin failed /\ Given /\ Typed
  BY ReadingIs DEF ReadEnd
<1>2. PICK b \in 0 .. LongestStream : ReadAt(b)
  BY ReadingIs DEF ReadEnd
<1>3. /\ pos[i] = source[i].len /\ ended' = ended \cup {i}
      /\ UNCHANGED <<given, pc, pos, buf, got, put, failed, block, out, result, interrupts>>
      /\ call' = call /\ source' = source
  BY DEF ReadEnd, given
<1>4. Typed'
  BY <1>1, <1>3 DEF Typed
<1>5. \A j \in call.rd : ReaderAt(j, b)'
  BY <1>2, <1>3, ReadersStay DEF ReadAt
<1>6. /\ ended' \subseteq call.rd /\ failed' \subseteq call.rd \ ended'
      /\ \A j \in failed' : pos'[j] = source[j].fault
  BY <1>1, <1>2, <1>3 DEF ReadAt
<1> QED BY <1>1, <1>2, <1>3, <1>4, <1>5, <1>6, ReadStays

LEMMA ReadInterruptedKeeps ==
    ASSUME IInv, NEW i \in Streams, ReadInterrupted(i) PROVE IInv'
<1>1. pc = "read" /\ Given /\ Typed
  BY ReadingIs DEF ReadInterrupted
<1>2. PICK b \in 0 .. LongestStream : ReadAt(b)
  BY ReadingIs DEF ReadInterrupted
<1>3. /\ interrupts < MaxInterrupts /\ interrupts' = interrupts + 1
      /\ UNCHANGED <<given, pc, pos, buf, got, ended, put, failed, block, out, result>>
      /\ call' = call /\ source' = source
  BY DEF ReadInterrupted, given
<1>4. interrupts' \in 0 .. MaxInterrupts
  BY <1>1, <1>3, Constants DEF Typed
<1>5. Typed'
  BY <1>1, <1>3, <1>4 DEF Typed
<1>6. \A j \in call.rd : ReaderAt(j, b)'
  BY <1>2, <1>3, ReadersStay DEF ReadAt
<1>7. /\ ended' \subseteq call.rd /\ failed' \subseteq call.rd \ ended'
      /\ \A j \in failed' : pos'[j] = source[j].fault
  BY <1>2, <1>3 DEF ReadAt
<1> QED BY <1>1, <1>2, <1>3, <1>5, <1>6, <1>7, ReadStays

(* A read error names the reader, which is at its fault. *)
LEMMA ReadErrorEnds ==
    ASSUME IInv, UNCHANGED <<given, pos, buf, got, ended, put, failed, block, out, interrupts>>,
           NEW i \in call.rd, pos[i] = source[i].fault, Return("Read", i)
    PROVE  IInv'
<1>1. result' = [kind |-> "Read", shard |-> i] /\ call' = call /\ source' = source /\ pos' = pos
  BY DEF Return, given
<1>2. OkIsComplete' /\ ErrorsAreTrue'
  BY <1>1 DEF OkIsComplete, ErrorsAreTrue
<1> QED BY <1>2, Ends

LEMMA ReadFailsKeeps ==
    ASSUME IInv, NEW i \in Streams, ReadFails(i) PROVE IInv'
<1>1. /\ pc = "read" /\ i \in call.rd /\ i \notin ended /\ i \notin failed /\ Given /\ Typed
  BY ReadingIs DEF ReadFails
<1>2. PICK b \in 0 .. LongestStream : ReadAt(b)
  BY ReadingIs DEF ReadFails
<1>3. /\ pos[i] = source[i].fault
      /\ UNCHANGED <<given, pos, buf, got, ended, put, block, out, interrupts>>
      /\ call' = call /\ source' = source
  BY DEF ReadFails, given
<1>4. CASE Return("Read", i) /\ UNCHANGED failed
  BY <1>1, <1>3, <1>4, ReadErrorEnds
<1>5. CASE failed' = failed \cup {i} /\ UNCHANGED <<pc, result>>
  <2>1. Typed'
    BY <1>1, <1>3, <1>5 DEF Typed
  <2>2. \A j \in call.rd : ReaderAt(j, b)'
    BY <1>2, <1>3, ReadersStay DEF ReadAt
  <2>3. /\ ended' \subseteq call.rd /\ failed' \subseteq call.rd \ ended'
        /\ \A j \in failed' : pos'[j] = source[j].fault
    BY <1>1, <1>2, <1>3, <1>5 DEF ReadAt
  <2> QED BY <1>1, <1>2, <1>3, <1>5, <2>1, <2>2, <2>3, ReadStays
<1> QED BY <1>4, <1>5 DEF ReadFails

LEMMA ReadsAbortKeeps ==
    ASSUME IInv, NEW i \in Streams, ReadsAbort(i) PROVE IInv'
<1>1. /\ pc = "read" /\ i \in failed /\ Return("Read", i)
      /\ UNCHANGED <<given, pos, buf, got, ended, put, failed, block, out, interrupts>>
  BY DEF ReadsAbort
<1>2. PICK b \in 0 .. LongestStream : ReadAt(b)
  BY <1>1 DEF IInv, InBlock
<1>3. i \in call.rd /\ pos[i] = source[i].fault
  BY <1>1, <1>2 DEF ReadAt
<1> QED BY <1>1, <1>3, ReadErrorEnds

LEMMA LongestIsLength ==
    ASSUME Given, call.rd # {}
    PROVE  /\ Longest \in Nat /\ (\E i \in call.rd : source[i].len = Longest)
           /\ \A i \in call.rd : source[i].len <= Longest
<1> DEFINE S == {source[i].len : i \in call.rd}
<1>1. \A i \in call.rd : source[i].len \in 0 .. LongestStream
  <2>1. \A i \in Streams : source[i] \in [start : Nat, len : 0 .. LongestStream, fault : Nat]
    BY DEF Given
  <2> QED BY <2>1, RolesAreStreams
<1>2. LongestStream \in Nat /\ S \in SUBSET Nat /\ S # {} /\ \A x \in S : x <= LongestStream
  BY <1>1, Constants
<1>3. Max(S) \in S /\ \A x \in S : x <= Max(S)
  <2> HIDE DEF S
  <2> QED BY <1>2, MaxIsGreatest
<1>4. Longest = Max(S)
  BY DEF Longest
<1> QED BY <1>2, <1>3, <1>4

(* The end of all streams: everything was delivered. *)
LEMMA EndOfStreams ==
    ASSUME IInv, pc = "read", ended = call.rd, ActualLen = 0, Return("Ok", 0),
           UNCHANGED <<given, pos, buf, got, ended, put, failed, block, out, interrupts>>
    PROVE  IInv'
<1>1. Given /\ Typed /\ Layout
  BY DEF IInv, InBlock
<1>2. PICK b \in 0 .. LongestStream : ReadAt(b)
  BY DEF IInv, InBlock
<1>3. b \in Nat /\ \A i \in call.rd : source[i].len \in Nat
  <2>1. b \in Nat
    BY Constants
  <2>2. \A i \in call.rd : i \in Streams
    BY <1>1, RolesAreStreams
  <2>3. \A i \in call.rd : source[i].len \in 0 .. LongestStream
    BY <1>1, <2>2, StreamTypes
  <2> QED BY <2>1, <2>3
<1>4. \A i \in call.rd : source[i].len <= b
  BY <1>1, <1>2, <1>3, RoundOver
<1>5. \E i \in call.rd : b <= source[i].len
  BY <1>2 DEF ReadAt, Reached
<1>6. /\ Longest \in Nat /\ (\E i \in call.rd : source[i].len = Longest)
      /\ \A i \in call.rd : source[i].len <= Longest
  BY <1>1, LongestIsLength DEF Layout
<1>7. Longest = b
  BY <1>3, <1>4, <1>5, <1>6
<1>8. \A w \in call.wr : Len(out[w]) = Longest
  BY <1>1, <1>2, <1>3, <1>7, RolesAreStreams DEF ReadAt, Delivered
<1>9. call.op # "encode" => \A i \in call.rd : source[i].len = Longest
  BY <1>2, <1>3, <1>4, <1>7 DEF ReadAt, Reached
<1>10. call.damaged = Zero \/ Longest < LongestStream
  BY <1>2, <1>7 DEF ReadAt, Reached
<1>11. result' = [kind |-> "Ok", shard |-> 0] /\ call' = call /\ source' = source /\ out' = out
  BY DEF Return, given
<1>12. OkIsComplete'
  BY <1>8, <1>9, <1>10, <1>11 DEF OkIsComplete, Longest
<1>13. ErrorsAreTrue'
  BY <1>11 DEF ErrorsAreTrue
<1> QED BY <1>12, <1>13, Ends

(* A coded block is ready for its writers. *)
LEMMA BlockReady ==
    ASSUME IInv, pc = "read", ended = call.rd, NEW b \in 0 .. LongestStream, ReadAt(b),
           NEW x, x \in [Streams -> Seq(Value)], \A i \in Streams : Len(x[i]) <= BlockSize,
           \A w \in call.wr : /\ Len(x[w]) = ActualLen
                              /\ \A k \in 1 .. ActualLen : x[w][k] = Expected(w, b + k),
           call.op # "encode" => \A i \in call.rd : b + ActualLen <= source[i].len,
           call.damaged = Zero,
           WriteBlock(x), UNCHANGED <<source, limit, pos, out, interrupts>>
    PROVE  IInv'
<1>1. Given /\ Typed /\ Layout /\ result = NoResult
  BY DEF IInv, InBlock
<1>2. /\ pc' = "write" /\ buf' = x /\ block' = ActualLen /\ call' = call
      /\ UNCHANGED <<got, ended, put, failed, result>>
  BY DEF WriteBlock
<1>3. UNCHANGED given
  BY <1>2 DEF given
<1>4. Given' /\ Layout' /\ result' = NoResult
  BY <1>1, <1>2, <1>3, GivenStays
<1>5. ActualLen \in 0 .. BlockSize /\ b \in Nat
  BY <1>1, ActualLenIsRead, Constants
<1>6. Typed'
  BY <1>1, <1>2, <1>5 DEF Typed
<1>7. /\ failed = {} /\ (\A i \in call.rd : pos[i] = From(i, b + ActualLen))
      /\ \E i \in call.rd : b + ActualLen <= source[i].len
  BY <1>1, <1>5, RoundOver
<1> PICK p \in Nat : p = b + ActualLen
  BY <1>5
<1>8. Reached(p)' /\ \A i \in call'.rd : pos'[i] = From(i, p)'
  <2>1. Reached(p) /\ \A i \in call.rd : pos[i] = From(i, p)
    BY <1>7 DEF Reached
  <2> QED BY <1>2, <1>3, <2>1, GivenStays
<1>9. Delivered(b)'
  BY <1>2, <1>3, GivenStays DEF ReadAt, Delivered
<1>10. Reached(b + block)' /\ \A i \in call'.rd : pos'[i] = From(i, b + block)'
  BY <1>2, <1>8
<1>11. ASSUME NEW w \in call'.wr PROVE WriterAt(w, b)'
  <2>1. /\ w \in call.wr /\ w \in Streams /\ put'[w] = 0 /\ w \notin failed'
    BY <1>1, <1>2, <1>7, RolesAreStreams DEF ReadAt
  <2>2. /\ Len(buf'[w]) = block' /\ 0 <= block'
        /\ \A k \in 1 .. block' : buf'[w][k] = Expected(w, b + k)
    BY <1>2, <1>5, <2>1
  <2>3. \A k : Expected(w, k)' = Expected(w, k)
    BY <1>3, GivenStays
  <2>4. block' <= Len(buf'[w]) /\ put'[w] <= block'
    BY <1>2, <1>5, <2>1, <2>2
  <2>5. \A k \in 1 .. block' : buf'[w][k] = Expected(w, b + k)'
    BY <1>2, <2>2 DEF Expected
  <2> QED BY <2>1, <2>4, <2>5 DEF WriterAt
<1>12. WriteAt(b)'
  BY <1>2, <1>7, <1>9, <1>10, <1>11 DEF WriteAt
<1>13. InBlock'
  BY <1>2, <1>4, <1>12 DEF InBlock
<1> QED BY <1>2, <1>4, <1>6, <1>13 DEF IInv

(* A stream that ended before the others is named. *)
LEMMA MisfitEnds ==
    ASSUME IInv, pc = "read", ended = call.rd, call.op # "encode", Misfits # {},
           Return("IncorrectShardSize", Min(Misfits)),
           UNCHANGED <<given, pos, buf, got, ended, put, failed, block, out, interrupts>>
    PROVE  IInv'
<1>1. Given /\ Typed /\ Layout
  BY DEF IInv, InBlock
<1>2. PICK b \in 0 .. LongestStream : ReadAt(b)
  BY DEF IInv, InBlock
<1>3. b \in Nat /\ Misfits \in SUBSET Nat
  <2>1. b \in Nat /\ Streams \subseteq Nat
    BY Constants
  <2>2. Misfits \subseteq Streams
    BY <1>1, RolesAreStreams DEF Misfits
  <2> QED BY <2>1, <2>2
<1> DEFINE i == Min(Misfits)
<1>4. i \in Misfits
  BY <1>3, MinIsLeast
<1> HIDE DEF i
<1>5. i \in call.rd /\ got[i] # ActualLen
  BY <1>4 DEF Misfits
<1>6. source[i].len < b + ActualLen /\ source[i].len \in Nat
  BY <1>1, <1>2, <1>3, <1>5, RoundOver, RolesAreStreams, StreamTypes
<1>7. PICK j \in call.rd : b + ActualLen <= source[j].len
  BY <1>1, <1>2, <1>3, RoundOver
<1>8. source[j].len <= Longest /\ Longest \in Nat /\ source[j].len \in Nat
  BY <1>1, LongestIsLength, RolesAreStreams, StreamTypes DEF Layout
<1>9. ActualLen \in Nat
  BY <1>1, ActualLenIsRead, Constants
<1>10. source[i].len < Longest
  BY <1>3, <1>6, <1>7, <1>8, <1>9
<1>11. result' = [kind |-> "IncorrectShardSize", shard |-> i] /\ call' = call /\ source' = source
  BY DEF Return, given, i
<1>12. OkIsComplete'
  BY <1>11 DEF OkIsComplete
<1>13. ErrorsAreTrue'
  BY <1>5, <1>10, <1>11 DEF ErrorsAreTrue, Longest
<1> QED BY <1>12, <1>13, Ends

LEMMA CodeBlockKeeps ==
    ASSUME IInv, CodeBlock PROVE IInv'
<1>1. /\ pc = "read" /\ ended = call.rd /\ UNCHANGED <<source, limit, pos, out, interrupts>>
  BY DEF CodeBlock
<1>2. Given /\ Typed /\ Layout /\ result = NoResult
  BY <1>1 DEF IInv, InBlock
<1>3. PICK b \in 0 .. LongestStream : ReadAt(b)
  BY <1>1 DEF IInv, InBlock
<1>4. b \in Nat /\ ActualLen \in Nat /\ LongestStream \in Nat
  BY <1>2, ActualLenIsRead, Constants
<1>5. ASSUME NEW kind, NEW shard, Stop(kind, shard)
      PROVE  /\ UNCHANGED <<given, pos, buf, got, ended, put, failed, block, out, interrupts>>
             /\ Return(kind, shard) /\ result' = [kind |-> kind, shard |-> shard]
             /\ call' = call /\ source' = source
  BY <1>1, <1>5 DEF Stop, given, Return
<1>6. CASE ActualLen = 0 /\ Stop("Ok", 0)
  BY <1>1, <1>5, <1>6, EndOfStreams
<1>7. CASE ActualLen # 0 /\ call.op = "encode" /\ WriteBlock(EncodeBlock)
  <2>1. call.damaged = Zero
    BY <1>2, <1>7 DEF Given
  <2> DEFINE x == EncodeBlock
  <2>2. /\ x \in [Streams -> Seq(Value)] /\ \A i \in Streams : Len(x[i]) <= BlockSize
        /\ \A w \in call.wr : /\ Len(x[w]) = ActualLen
                              /\ \A k \in 1 .. ActualLen : x[w][k] = Expected(w, b + k)
    BY <1>1, <1>2, <1>3, <1>4, <1>7, EncodedBlock
  <2>3. WriteBlock(x)
    BY <1>7
  <2> HIDE DEF x
  <2> QED BY <1>1, <1>3, <1>7, <2>1, <2>2, <2>3, BlockReady
<1>8. CASE /\ ActualLen # 0 /\ call.op # "encode" /\ Misfits # {}
           /\ Stop("IncorrectShardSize", Min(Misfits))
  BY <1>1, <1>5, <1>8, MisfitEnds
<1>9. CASE ActualLen # 0 /\ call.op = "verify" /\ Misfits = {} /\ ~ Verifies /\ Stop("False", 0)
  <2>1. call.damaged # Zero /\ source[0].len = LongestStream
    BY <1>1, <1>2, <1>3, <1>4, <1>9, VerifiedBlock
  <2>2. OkIsComplete' /\ ErrorsAreTrue'
    BY <1>5, <1>9, <2>1 DEF OkIsComplete, ErrorsAreTrue
  <2> QED BY <1>5, <1>9, <2>2, Ends
<1>10. CASE /\ ActualLen # 0 /\ call.op = "verify" /\ Misfits = {} /\ Verifies
            /\ UNCHANGED <<call, result, block>> /\ NextBlock(call.rd)
  <2> PICK p \in Nat : p = b + ActualLen
    BY <1>4
  <2>1. UNCHANGED given
    BY <1>1, <1>10 DEF given
  <2>2. \A i \in call.rd : p <= source[i].len /\ pos[i] = p
    BY <1>1, <1>2, <1>3, <1>4, <1>10, EvenRound
  <2>3. call.damaged # Zero => p < LongestStream
    BY <1>1, <1>2, <1>3, <1>4, <1>10, VerifiedBlock
  <2>5. Reached(p) /\ \A i \in call.rd : pos[i] = From(i, p)
    BY <1>2, <2>2, <2>3 DEF Reached, From, Layout
  <2>6. p \in 0 .. LongestStream
    BY <1>2, <1>4, <2>2, RolesAreStreams, StreamTypes DEF Layout
  <2>7. call'.wr = {} /\ result' = NoResult
    BY <1>2, <1>10 DEF Given
  <2>8. Reached(p)' /\ Given' /\ Layout' /\ \A i \in call'.rd : pos'[i] = From(i, p)'
    BY <1>1, <1>2, <1>10, <2>1, <2>5, GivenStays
  <2>9. pos' \in [Streams -> Nat] /\ \A i \in Streams : pos'[i] <= source'[i].len
    BY <1>1, <1>2 DEF Typed
  <2>10. NextBlock(call'.rd) /\ UNCHANGED <<out, block, interrupts>>
    BY <1>1, <1>10
  <2> QED BY <1>2, <2>6, <2>7, <2>8, <2>9, <2>10, BlockBegins
<1>11. CASE /\ ActualLen # 0 /\ Recovers /\ Misfits = {} /\ call.singular /\ Data \ call.rd # {}
            /\ Stop("InvalidCustomMatrix", 0)
  <2>1. OkIsComplete' /\ ErrorsAreTrue'
    BY <1>5, <1>11 DEF OkIsComplete, ErrorsAreTrue
  <2> QED BY <1>5, <1>11, <2>1, Ends
<1>12. CASE ActualLen # 0 /\ Recovers /\ Misfits = {} /\ WriteBlock(ReconstructBlock)
  <2>1. call.damaged = Zero
    BY <1>2, <1>12 DEF Given, Recovers
  <2> DEFINE x == ReconstructBlock
  <2>2. /\ x \in [Streams -> Seq(Value)] /\ \A i \in Streams : Len(x[i]) <= BlockSize
        /\ \A w \in call.wr : /\ Len(x[w]) = ActualLen
                              /\ \A k \in 1 .. ActualLen : x[w][k] = Expected(w, b + k)
    BY <1>1, <1>2, <1>3, <1>4, <1>12, ReconstructedBlock
  <2>3. WriteBlock(x)
    BY <1>12
  <2>4. \A i \in call.rd : b + ActualLen <= source[i].len
    BY <1>1, <1>2, <1>3, <1>4, <1>12, EvenRound
  <2> HIDE DEF x
  <2> QED BY <1>1, <1>3, <2>1, <2>2, <2>3, <2>4, BlockReady
<1> QED BY <1>6, <1>7, <1>8, <1>9, <1>10, <1>11, <1>12 DEF CodeBlock

(* A step of a writer that goes on writing. *)
LEMMA WriteStays ==
    ASSUME IInv, pc = "write", UNCHANGED <<given, pc, pos, buf, got, ended, block, result>>, Typed',
           NEW b \in 0 .. LongestStream, WriteAt(b), Delivered(b)',
           \A w \in call.wr : WriterAt(w, b)', failed' \subseteq call.wr
    PROVE  IInv'
<1>1. call' = call /\ source' = source /\ pos' = pos /\ block' = block /\ pc' = "write"
  BY DEF given
<1>2. InBlock /\ Given
  BY DEF IInv
<1>3. Given' /\ Layout' /\ result' = NoResult
  BY <1>2, GivenStays DEF InBlock
<1> PICK p : p = b + block
  OBVIOUS
<1>4. Reached(p) /\ \A i \in call.rd : pos[i] = From(i, p)
  BY DEF WriteAt
<1>5. Reached(p)' /\ \A i \in call'.rd : pos'[i] = From(i, p)'
  BY <1>1, <1>4, GivenStays
<1>7. Reached(b + block)' /\ \A i \in call'.rd : pos'[i] = From(i, b + block)'
  BY <1>1, <1>5
<1>8. WriteAt(b)'
  BY <1>1, <1>7 DEF WriteAt
<1>9. InBlock'
  BY <1>1, <1>3, <1>8 DEF InBlock
<1> QED BY <1>1, <1>3, <1>9 DEF IInv

(* A writer in the middle of a block. *)
LEMMA WritingIs ==
    ASSUME IInv, NEW w, w \in Writing
    PROVE  /\ pc = "write" /\ w \in call.wr /\ w \in Streams /\ w \notin failed /\ put[w] < block
           /\ Given /\ Typed
           /\ \E b \in 0 .. LongestStream : WriteAt(b)
<1>1. pc = "write" /\ w \in call.wr /\ w \notin failed /\ put[w] < block
  BY DEF Writing
<1>2. Given /\ Typed /\ InBlock
  BY <1>1 DEF IInv
<1> QED BY <1>1, <1>2, RolesAreStreams DEF InBlock

LEMMA WriteSomeKeeps ==
    ASSUME IInv, NEW w \in Streams, NEW n \in 1 .. BlockSize, WriteSome(w, n) PROVE IInv'
<1>1. /\ pc = "write" /\ w \in call.wr /\ w \notin failed /\ put[w] < block /\ Given /\ Typed
  BY WritingIs DEF WriteSome
<1>2. PICK b \in 0 .. LongestStream : WriteAt(b)
  BY WritingIs DEF WriteSome
<1>3. /\ b \in Nat /\ n \in Nat /\ put[w] \in Nat /\ block \in 0 .. BlockSize /\ BlockSize \in Nat
      /\ buf[w] \in Seq(Value) /\ out[w] \in Seq(Value) /\ Len(out[w]) \in Nat /\ Len(buf[w]) \in Nat
  BY <1>1, Constants, StreamTypes
<1> DEFINE u == out[w] \o SubSeq(buf[w], put[w] + 1, put[w] + n)
<1>4. /\ n <= block - put[w] /\ out' = [out EXCEPT ![w] = u] /\ put' = [put EXCEPT ![w] = put[w] + n]
      /\ UNCHANGED <<given, pc, pos, buf, got, ended, failed, block, result, interrupts>>
      /\ call' = call /\ source' = source /\ limit' = limit
  BY DEF WriteSome, given
<1>5. WriterAt(w, b)
  BY <1>1, <1>2 DEF WriteAt
<1>6. put[w] + n <= block /\ put[w] + n <= Len(buf[w]) /\ put[w] + n \in 0 .. BlockSize
  <2>1. put[w] <= block /\ block <= Len(buf[w])
    BY <1>5 DEF WriterAt
  <2> QED BY <1>3, <1>4, <2>1
<1>7. /\ u \in Seq(Value) /\ Len(u) = Len(out[w]) + n
      /\ \A k \in 1 .. Len(out[w]) : u[k] = out[w][k]
      /\ \A k \in 1 .. n : u[Len(out[w]) + k] = buf[w][put[w] + k]
  <2> DEFINE s == out[w]
             t == buf[w]
             m == put[w]
  <2>1. s \in Seq(Value) /\ t \in Seq(Value) /\ m \in Nat /\ n \in Nat /\ m + n <= Len(t)
    BY <1>3, <1>6
  <2> HIDE DEF s, t, m
  <2>2. LET x == s \o SubSeq(t, m + 1, m + n)
        IN /\ x \in Seq(Value) /\ Len(x) = Len(s) + n
           /\ \A k \in 1 .. Len(s) : x[k] = s[k]
           /\ \A k \in 1 .. n : x[Len(s) + k] = t[m + k]
    BY <2>1, Taken
  <2> QED BY <2>2 DEF s, t, m
<1> HIDE DEF u
<1>8. /\ out'[w] = u /\ put'[w] = put[w] + n
      /\ \A v \in Streams \ {w} : out'[v] = out[v] /\ put'[v] = put[v]
  BY <1>1, <1>4 DEF Typed
<1>9. Typed'
  <2>1. out' \in [Streams -> Seq(Value)]
    BY <1>1, <1>4, <1>7 DEF Typed
  <2>2. put' \in [Streams -> 0 .. BlockSize]
    BY <1>1, <1>4, <1>6 DEF Typed
  <2> QED BY <1>1, <1>4, <2>1, <2>2 DEF Typed
<1>10. \A v, k : Expected(v, k)' = Expected(v, k)
  BY <1>4, GivenStays
<1>11. Len(out[w]) = b + put[w] /\ \A k \in 1 .. Len(out[w]) : out[w][k] = Expected(w, k)
  BY <1>1, <1>2 DEF WriteAt, Delivered
<1>12. ASSUME NEW k \in 1 .. Len(u) PROVE u[k] = Expected(w, k)
  <2>1. CASE k \in 1 .. Len(out[w])
    BY <1>7, <1>11, <2>1
  <2>2. CASE k > Len(out[w])
    <3> DEFINE j == k - Len(out[w])
    <3>1. j \in 1 .. n /\ k = Len(out[w]) + j /\ put[w] + j \in 1 .. block
      <4>1. Len(u) = Len(out[w]) + n
        BY <1>7
      <4>2. k \in Nat /\ k <= Len(out[w]) + n
        BY <1>3, <4>1
      <4>3. j \in 1 .. n /\ k = Len(out[w]) + j
        BY <1>3, <2>2, <4>2
      <4>4. put[w] + j \in 1 .. block
        <5>1. put[w] \in Nat /\ n \in Nat /\ block \in Nat
          BY <1>3
        <5>2. put[w] + n <= block
          BY <1>6
        <5> HIDE DEF j
        <5> QED BY <4>3, <5>1, <5>2
      <4> QED BY <4>3, <4>4
    <3>2. k = b + (put[w] + j)
      BY <1>3, <1>11, <3>1
    <3> HIDE DEF j
    <3>3. u[k] = buf[w][put[w] + j]
      BY <1>7, <3>1
    <3>4. buf[w][put[w] + j] = Expected(w, b + (put[w] + j))
      BY <1>5, <3>1 DEF WriterAt
    <3> QED BY <3>2, <3>3, <3>4
  <2> QED BY <1>3, <1>7, <2>1, <2>2
<1>13. Delivered(b)'
  <2> SUFFICES ASSUME NEW v \in call'.wr
               PROVE  /\ Len(out'[v]) = b + put'[v]
                      /\ \A k \in 1 .. Len(out'[v]) : out'[v][k] = Expected(v, k)'
    BY DEF Delivered
  <2>1. CASE v = w
    <3>1. Len(u) = b + put'[w]
      BY <1>3, <1>7, <1>8, <1>11
    <3> QED BY <1>8, <1>10, <1>12, <2>1, <3>1
  <2>2. CASE v # w
    <3>1. out'[v] = out[v] /\ put'[v] = put[v] /\ v \in call.wr
      BY <1>1, <1>4, <1>8, <2>2, RolesAreStreams
    <3> QED BY <1>2, <1>10, <3>1 DEF WriteAt, Delivered
  <2> QED BY <2>1, <2>2
<1>14. ASSUME NEW v \in call.wr PROVE WriterAt(v, b)'
  <2>1. WriterAt(v, b) /\ buf' = buf /\ block' = block /\ failed' = failed /\ limit' = limit
    BY <1>2, <1>4 DEF WriteAt
  <2>2. put'[v] <= block' /\ (v \in failed' => Len(out'[v]) = limit'[v])
    <3>1. CASE v = w
      BY <1>1, <1>6, <1>8, <2>1, <3>1
    <3>2. CASE v # w
      <4>1. out'[v] = out[v] /\ put'[v] = put[v]
        BY <1>1, <1>8, <3>2, RolesAreStreams
      <4> QED BY <2>1, <4>1 DEF WriterAt
    <3> QED BY <3>1, <3>2
  <2>3. block' <= Len(buf'[v]) /\ \A k \in 1 .. block' : buf'[v][k] = Expected(v, b + k)'
    BY <1>10, <2>1 DEF WriterAt
  <2> QED BY <2>2, <2>3 DEF WriterAt
<1>15. failed' \subseteq call.wr
  BY <1>2, <1>4 DEF WriteAt
<1> QED BY <1>1, <1>2, <1>4, <1>9, <1>13, <1>14, <1>15, WriteStays

(* Steps that write nothing. *)
LEMMA WritersStay ==
    ASSUME UNCHANGED <<given, buf, put, block, out>>, NEW b, WriteAt(b),
           \A w \in failed' : w \in failed \/ Len(out[w]) = limit[w]
    PROVE  Delivered(b)' /\ \A w \in call.wr : WriterAt(w, b)'
<1>1. \A v, k : Expected(v, k)' = Expected(v, k)
  BY GivenStays
<1>2. call' = call /\ limit' = limit /\ buf' = buf /\ put' = put /\ block' = block /\ out' = out
  BY DEF given
<1>3. Delivered(b)'
  BY <1>1, <1>2 DEF WriteAt, Delivered
<1>4. ASSUME NEW w \in call.wr PROVE WriterAt(w, b)'
  <2>1. WriterAt(w, b)
    BY DEF WriteAt
  <2> QED BY <1>1, <1>2, <2>1 DEF WriterAt
<1> QED BY <1>3, <1>4

LEMMA WriteInterruptedKeeps ==
    ASSUME IInv, NEW w \in Streams, WriteInterrupted(w) PROVE IInv'
<1>1. pc = "write" /\ Given /\ Typed
  BY WritingIs DEF WriteInterrupted
<1>2. PICK b \in 0 .. LongestStream : WriteAt(b)
  BY WritingIs DEF WriteInterrupted
<1>3. /\ interrupts < MaxInterrupts /\ interrupts' = interrupts + 1
      /\ UNCHANGED <<given, pc, pos, buf, got, ended, put, failed, block, out, result>>
      /\ call' = call /\ source' = source
  BY DEF WriteInterrupted, given
<1>4. interrupts' \in 0 .. MaxInterrupts
  BY <1>1, <1>3, Constants DEF Typed
<1>5. Typed'
  BY <1>1, <1>3, <1>4 DEF Typed
<1>6. Delivered(b)' /\ (\A v \in call.wr : WriterAt(v, b)') /\ failed' \subseteq call.wr
  BY <1>2, <1>3, WritersStay DEF WriteAt
<1> QED BY <1>1, <1>2, <1>3, <1>5, <1>6, WriteStays

(* A write error names the writer, which has taken all it could. *)
LEMMA WriteErrorEnds ==
    ASSUME IInv, UNCHANGED <<given, pos, buf, got, ended, put, failed, block, out, interrupts>>,
           NEW w \in call.wr, Len(out[w]) = limit[w], Return("Write", w)
    PROVE  IInv'
<1>1. result' = [kind |-> "Write", shard |-> w] /\ call' = call /\ limit' = limit /\ out' = out
  BY DEF Return, given
<1>2. OkIsComplete' /\ ErrorsAreTrue'
  BY <1>1 DEF OkIsComplete, ErrorsAreTrue
<1> QED BY <1>2, Ends

LEMMA WriteFailsKeeps ==
    ASSUME IInv, NEW w \in Streams, WriteFails(w) PROVE IInv'
<1>1. pc = "write" /\ w \in call.wr /\ w \notin failed /\ Given /\ Typed
  BY WritingIs DEF WriteFails
<1>2. PICK b \in 0 .. LongestStream : WriteAt(b)
  BY WritingIs DEF WriteFails
<1>3. /\ Len(out[w]) = limit[w]
      /\ UNCHANGED <<given, pos, buf, got, ended, put, block, out, interrupts>>
      /\ call' = call /\ source' = source
  BY DEF WriteFails, given
<1>4. CASE Return("Write", w) /\ UNCHANGED failed
  BY <1>1, <1>3, <1>4, WriteErrorEnds
<1>5. CASE failed' = failed \cup {w} /\ UNCHANGED <<pc, result>>
  <2>1. Typed'
    BY <1>1, <1>3, <1>5 DEF Typed
  <2>2. Delivered(b)' /\ (\A v \in call.wr : WriterAt(v, b)') /\ failed' \subseteq call.wr
    BY <1>1, <1>2, <1>3, <1>5, WritersStay DEF WriteAt
  <2> QED BY <1>1, <1>2, <1>3, <1>5, <2>1, <2>2, WriteStays
<1> QED BY <1>4, <1>5 DEF WriteFails

LEMMA WritesAbortKeeps ==
    ASSUME IInv, NEW w \in Streams, WritesAbort(w) PROVE IInv'
<1>1. /\ pc = "write" /\ w \in failed /\ Return("Write", w)
      /\ UNCHANGED <<given, pos, buf, got, ended, put, failed, block, out, interrupts>>
  BY DEF WritesAbort
<1>2. PICK b \in 0 .. LongestStream : WriteAt(b)
  BY <1>1 DEF IInv, InBlock
<1>3. w \in call.wr /\ Len(out[w]) = limit[w]
  BY <1>1, <1>2 DEF WriteAt, WriterAt
<1> QED BY <1>1, <1>3, WriteErrorEnds

LEMMA BlockWrittenKeeps ==
    ASSUME IInv, BlockWritten PROVE IInv'
<1>1. /\ pc = "write" /\ NextBlock(call.rd) /\ (\A w \in call.wr : put[w] = block)
      /\ UNCHANGED <<call, source, limit, pos, block, out, result, interrupts>>
  BY DEF BlockWritten, TakenByAll
<1>2. Given /\ Typed /\ Layout /\ result = NoResult
  BY <1>1 DEF IInv, InBlock
<1>3. PICK b \in 0 .. LongestStream : WriteAt(b)
  BY <1>1 DEF IInv, InBlock
<1> PICK p : p = b + block
  OBVIOUS
<1>4. Reached(p) /\ \A i \in call.rd : pos[i] = From(i, p)
  BY <1>3 DEF WriteAt
<1>5. p \in 0 .. LongestStream
  <2>1. PICK i \in call.rd : p <= source[i].len
    BY <1>4 DEF Reached
  <2>2. i \in Streams
    BY <1>2, RolesAreStreams
  <2>3. /\ source[i].len \in 0 .. LongestStream /\ LongestStream \in Nat
        /\ block \in 0 .. BlockSize /\ BlockSize \in Nat
    BY <1>2, <2>2, StreamTypes
  <2> QED BY <2>1, <2>3
<1>6. \A w \in call.wr : Len(out[w]) = p /\ \A k \in 1 .. Len(out[w]) : out[w][k] = Expected(w, k)
  BY <1>1, <1>3 DEF WriteAt, Delivered
<1>7. UNCHANGED given /\ call' = call
  BY <1>1 DEF given
<1>8. Reached(p)' /\ Given' /\ Layout' /\ result' = NoResult
      /\ \A i \in call'.rd : pos'[i] = From(i, p)'
  BY <1>1, <1>2, <1>4, <1>7, GivenStays
<1>9. \A w \in call'.wr : Len(out[w]) = p /\ \A k \in 1 .. Len(out[w]) : out[w][k] = Expected(w, k)'
  BY <1>6, <1>7, GivenStays
<1>10. pos' \in [Streams -> Nat] /\ \A i \in Streams : pos'[i] <= source'[i].len
  BY <1>1, <1>2 DEF Typed
<1>11. NextBlock(call'.rd) /\ UNCHANGED <<out, block, interrupts>>
  BY <1>1
<1> QED BY <1>2, <1>5, <1>8, <1>9, <1>10, <1>11, BlockBegins

-----------------------------------------------------------------------------
(***************************************************************************)
(* The theorems.                                                           *)
(***************************************************************************)
LEMMA Inductive == IInv /\ [Next]_vars => IInv'
<1> SUFFICES ASSUME IInv, [Next]_vars PROVE IInv'
  OBVIOUS
<1>1. CASE Begin
  BY <1>1, BeginKeeps
<1>2. ASSUME NEW i \in Streams, NEW n \in 1 .. BlockSize, ReadSome(i, n) PROVE IInv'
  BY <1>2, ReadSomeKeeps
<1>3. ASSUME NEW i \in Streams,
             ReadEnd(i) \/ ReadFails(i) \/ ReadInterrupted(i) \/ ReadsAbort(i) PROVE IInv'
  BY <1>3, ReadEndKeeps, ReadFailsKeeps, ReadInterruptedKeeps, ReadsAbortKeeps
<1>4. CASE CodeBlock
  BY <1>4, CodeBlockKeeps
<1>5. ASSUME NEW w \in Streams, NEW n \in 1 .. BlockSize, WriteSome(w, n) PROVE IInv'
  BY <1>5, WriteSomeKeeps
<1>6. ASSUME NEW w \in Streams, WriteFails(w) \/ WriteInterrupted(w) \/ WritesAbort(w) PROVE IInv'
  BY <1>6, WriteFailsKeeps, WriteInterruptedKeeps, WritesAbortKeeps
<1>7. CASE BlockWritten
  BY <1>7, BlockWrittenKeeps
<1>8. CASE UNCHANGED vars
  <2>1. /\ UNCHANGED <<call, source, limit, pc, pos, buf, got, ended, put, failed, block, out>>
        /\ UNCHANGED <<result, interrupts>>
    BY <1>8 DEF vars
  <2>2. (Given' <=> Given) /\ (Typed' <=> Typed) /\ (AtBegin' <=> AtBegin)
    BY <2>1 DEF Given, Typed, AtBegin
  <2>3. InBlock' <=> InBlock
    BY <2>1 DEF InBlock, Layout, ReadAt, WriteAt, Reached, Delivered, ReaderAt, WriterAt, From,
                ByteAt, Expected
  <2>4. OutputsRight' <=> OutputsRight
    BY <2>1 DEF OutputsRight, Expected, Recovers
  <2>5. (OkIsComplete' <=> OkIsComplete) /\ (ErrorsAreTrue' <=> ErrorsAreTrue)
    BY <2>1 DEF OkIsComplete, ErrorsAreTrue, Longest
  <2> QED BY <2>1, <2>2, <2>3, <2>4, <2>5 DEF IInv
<1> QED BY <1>1, <1>2, <1>3, <1>4, <1>5, <1>6, <1>7, <1>8 DEF Next

LEMMA Invariance == Spec => []IInv
BY InitIInv, Inductive, PTL DEF Spec

(* The types, and the bound on the scratch buffers: they never hold more   *)
(* than a block and no reader passes the end of its stream.                *)
THEOREM TypeCorrect == Spec => []TypeOK
BY Invariance, IInvSuffices, PTL

(* Whatever the block size, the short reads and writes, the interruptions  *)
(* and the modes: at every moment, also after a failure half-way, a writer *)
(* of the streaming codec has a prefix of what it should receive, no more  *)
(* than was read of every stream it is recovered from, and writers are at  *)
(* most a block apart.                                                     *)
THEOREM OutputsAreRight == Spec => []OutputsRight
BY Invariance, IInvSuffices, PTL

(* A call that reports success wrote everything up to the longest stream   *)
(* and found all streams of equal length where they have to be;            *)
(* verify_stream answers true only without damage and false only with it.  *)
THEOREM SuccessIsComplete == Spec => []OkIsComplete
BY Invariance, IInvSuffices, PTL

(* An error names a stream that is at fault, and a call that is turned     *)
(* away for its arguments has moved no reader and written nothing.         *)
THEOREM ErrorsNameTheFault == Spec => []ErrorsAreTrue
BY Invariance, IInvSuffices, PTL
=============================================================================
