---------------------------- MODULE MpiHistogram ----------------------------
(***************************************************************************)
(* The runtime of an MPI hybrid program: every rank runs the same sequence *)
(* of kernel calls; rank 0 executes a kernel with qir-runner and the       *)
(* resulting histogram is broadcast (mlir/qllvm_mpi_runtime and            *)
(* mlir/qir_runner_runtime), ranks of a rank-kernel map execute their own  *)
(* kernel locally, and hardware kernels are dispatched by rank 0 and       *)
(* synchronised by a barrier.  Ranks share nothing but the messages.       *)
(***************************************************************************)
EXTENDS Integers, Sequences, FiniteSets, SequencesExt

CONSTANTS
  Ranks,      \* MPI_COMM_WORLD; 0 is the root
  Programs,   \* sequences of calls, the same on every rank
  Runs,       \* what qir-runner may print for a kernel: a set of shot lists
  MaxBits     \* kMaxBitstringLen: 64

(* A call is [op |-> "kernel", name], [op |-> "dispatch", map] or          *)
(* [op |-> "hardware"]; a shot is the bits of one run of the kernel.       *)
ASSUME RanksAssumption == 0 \in Ranks /\ Ranks \subseteq Nat /\ IsFiniteSet(Ranks)
ASSUME MaxBitsAssumption == MaxBits \in Nat \ {0} /\ MaxBits <= 2147483647
ASSUME ProgramsAssumption == \A p \in Programs : p \in Seq(ToSet(p))

VARIABLES
  program,
  at,          \* rank -> the call it is in, or the one it makes next
  pc,          \* rank -> where it is inside that call
  hist,        \* rank -> g_last_histogram
  packed,      \* rank -> the buffer of qllvm_mpi_bcast_histogram
  passed,      \* rank -> collectives of the communicator it has returned from
  posted,      \* what the root has put into each collective, in order
  dispatched,  \* hardware kernels the root has written out
  aborted      \* MPI_Abort was called

VARIABLE log   \* rank -> its histogram after each broadcast: for the properties

(* What the directory of the executable holds: a function from the names   *)
(* of the kernels that can be loaded to the kernels they are compiled      *)
(* from.  The runtime reads it and never writes it.                        *)
VARIABLE bitcode

vars == <<program, at, pc, hist, packed, passed, posted, dispatched, aborted, log>>

----------------------------------------------------------------------------
(* The histogram: entries [bits, count], sorted by bit string. *)

Digit(b) == 48 + b

Before(s, t) ==
  \/ IsStrictPrefix(s, t)
  \/ \E k \in DOMAIN s \cap DOMAIN t :
       s[k] < t[k] /\ \A j \in 1 .. (k - 1) : s[j] = t[j]

(* A shot without results is dropped. *)
Tally(shots) ==
  LET count(s) == Cardinality({ i \in DOMAIN shots : shots[i] = s })
      keys  == SetToSortSeq(ToSet(shots) \ {<<>>}, Before)
  IN  [i \in DOMAIN keys |->
         [bits |-> [k \in DOMAIN keys[i] |-> Digit(keys[i][k])],
          count |-> count(keys[i])]]

(* An int of four bytes, low byte first. *)
IntBytes(v) ==
  << v % 256, (v \div 256) % 256, (v \div 65536) % 256, (v \div 16777216) % 256 >>

Fits(e) == Len(e.bits) + 1 <= MaxBits

(* Mutant: the terminating zero is not sent. *)
PackUnterminated(h) ==
  IntBytes(Len(h)) \o
  FlattenSeq([i \in DOMAIN h |->
    IF Fits(h[i])
    THEN IntBytes(Len(h[i].bits)) \o IntBytes(h[i].count) \o h[i].bits
    ELSE IntBytes(0) \o IntBytes(0)])

(* An entry that does not fit is sent as two zeros and nothing else. *)
Pack(h) ==
  IntBytes(Len(h)) \o
  FlattenSeq([i \in DOMAIN h |->
    IF Fits(h[i])
    THEN IntBytes(Len(h[i].bits)) \o IntBytes(h[i].count) \o h[i].bits \o <<0>>
    ELSE IntBytes(0) \o IntBytes(0)])

HasInt(buf, off) == off + 4 <= Len(buf)
IntAt(buf, off) ==
  LET high == buf[off + 4]
  IN  buf[off + 1] + 256 * buf[off + 2] + 65536 * buf[off + 3]
      + 16777216 * (IF high < 128 THEN high ELSE high - 256)

(* A string ends at its first zero byte. *)
CString(s) ==
  LET zeros == { k \in DOMAIN s : s[k] = 0 }
  IN  IF zeros = {} THEN s ELSE SubSeq(s, 1, Min(zeros) - 1)

(* One entry is read at offset off: a length, a count, the bits and a zero. *)
EntryAt(buf, off) ==
  IF /\ HasInt(buf, off) /\ HasInt(buf, off + 4)
     /\ IntAt(buf, off) \in 0 .. (MaxBits - 1)
     /\ off + 8 + IntAt(buf, off) + 1 <= Len(buf)
  THEN << [bits  |-> CString(SubSeq(buf, off + 9, off + 8 + IntAt(buf, off))),
           count |-> IntAt(buf, off + 4)] >>
  ELSE <<>>

(* Entry after entry; anything malformed leaves an empty histogram. *)
Unpack(buf) ==
  LET n == IntAt(buf, 0)
      read[i \in 0 .. n] ==
        IF i = 0 THEN [ok |-> TRUE, off |-> 4, entries |-> <<>>]
        ELSE LET r == read[i - 1]
                 e == EntryAt(buf, r.off)
             IN  IF r.ok /\ e # <<>>
                 THEN [ok |-> TRUE, off |-> r.off + 9 + IntAt(buf, r.off),
                       entries |-> r.entries \o e]
                 ELSE [r EXCEPT !.ok = FALSE]
  IN  IF read[n].ok THEN read[n].entries ELSE <<>>

(* What fits an int, and the histograms that can be sent: their entries    *)
(* and their bytes can be counted with an int, each count is one, and the  *)
(* bits fit the buffer and are no zero bytes.                              *)
MaxInt == 2147483647
Count == 0 .. MaxInt
Entries == { e \in [bits : Seq(1 .. 255), count : Count] : Fits(e) }
Histograms == { h \in Seq(Entries) : Len(h) \in Count /\ Len(Pack(h)) \in Count }

(* What is said of the runs: whatever is printed can be sent.              *)
RunsFit ==
  \A shots \in {<<>>} \cup UNION { Runs[k] : k \in DOMAIN Runs } : Tally(shots) \in Histograms

----------------------------------------------------------------------------

Init ==
  /\ program \in Programs
  /\ at = [r \in Ranks |-> 1]
  /\ pc = [r \in Ranks |-> "ready"]
  /\ hist = [r \in Ranks |-> <<>>]
  /\ packed = [r \in Ranks |-> <<>>]
  /\ passed = [r \in Ranks |-> 0]
  /\ posted = <<>>
  /\ dispatched = 0
  /\ aborted = FALSE
  /\ log = [r \in Ranks |-> <<>>]

Calling(r, op) ==
  /\ ~aborted /\ pc[r] = "ready"
  /\ at[r] <= Len(program) /\ program[at[r]].op = op

Goto(r, label) == pc' = [pc EXCEPT ![r] = label]
Return(r) == at' = [at EXCEPT ![r] = @ + 1] /\ Goto(r, "ready")

(* qir_runner_execute: the old histogram is dropped first, so a runner     *)
(* that cannot be started, finds no kernel or prints nothing leaves an     *)
(* empty one.                                                              *)
Execute(r, name) ==
  \E shots \in {<<>>} \cup (IF name \in DOMAIN bitcode THEN Runs[bitcode[name]] ELSE {}) :
    hist' = [hist EXCEPT ![r] = Tally(shots)]

(* qllvm_mpi_execute_kernel: only the root executes. *)
RootExecutes ==
  /\ Calling(0, "kernel")
  /\ Execute(0, program[at[0]].name)
  /\ Goto(0, "pack")
  /\ UNCHANGED <<program, at, packed, passed, posted, dispatched, aborted, log>>

SkipExecute(r) ==
  /\ r # 0 /\ Calling(r, "kernel")
  /\ Goto(r, "size")
  /\ UNCHANGED <<program, at, hist, packed, passed, posted, dispatched, aborted, log>>

PackHistogram ==
  /\ ~aborted /\ pc[0] = "pack"
  /\ packed' = [packed EXCEPT ![0] = Pack(hist[0])]
  /\ log' = [log EXCEPT ![0] = Append(@, hist[0])]
  /\ Goto(0, "size")
  /\ UNCHANGED <<program, at, hist, passed, posted, dispatched, aborted>>

AllInBarrier(r) ==
  \A s \in Ranks : passed[s] > passed[r] \/ (passed[s] = passed[r] /\ pc[s] = "barrier")

(* MPI_Bcast, as the standard allows it: the root may go on as soon as it  *)
(* has handed its buffer over, another rank waits for what the root put in *)
(* the collective that is its next one, for ever if that is another one.   *)
RootPosts(what, value) ==
  /\ posted' = Append(posted, [what |-> what, value |-> value])
  /\ passed' = [passed EXCEPT ![0] = @ + 1]

Posted(r, what) == passed[r] < Len(posted) /\ posted[passed[r] + 1].what = what

Receives(r, what) ==
  /\ Posted(r, what)
  /\ passed' = [passed EXCEPT ![r] = @ + 1]
  /\ UNCHANGED posted

Received(r) == posted[passed[r] + 1].value

BcastSize(r) ==
  /\ ~aborted /\ pc[r] = "size"
  /\ IF r = 0
     THEN RootPosts("size", Len(packed[0])) /\ UNCHANGED packed
     ELSE /\ Receives(r, "size")
          /\ packed' = [packed EXCEPT ![r] = [k \in 1 .. Received(r) |-> 0]]
  /\ Goto(r, "data")
  /\ UNCHANGED <<program, at, hist, dispatched, aborted, log>>

(* The size is never zero: the number of entries is always sent.           *)
BcastData(r) ==
  /\ ~aborted /\ pc[r] = "data"
  /\ IF r = 0
     THEN RootPosts("data", packed[0]) /\ UNCHANGED packed /\ Return(r)
     ELSE /\ Receives(r, "data")
          /\ packed' = [packed EXCEPT ![r] = Received(r)]
          /\ Goto(r, "unpack") /\ UNCHANGED at
  /\ UNCHANGED <<program, hist, dispatched, aborted, log>>

UnpackHistogram(r) ==
  /\ ~aborted /\ pc[r] = "unpack"
  /\ hist' = [hist EXCEPT ![r] = Unpack(packed[r])]
  /\ log' = [log EXCEPT ![r] = Append(@, hist'[r])]
  /\ Return(r)
  /\ UNCHANGED <<program, packed, passed, posted, dispatched, aborted>>

(* qllvm_mpi_dispatch_by_rank, generated by the driver: a rank of the map  *)
(* executes its kernel locally, any other rank keeps what it has.          *)
DispatchByRank(r) ==
  /\ Calling(r, "dispatch")
  /\ IF r \in DOMAIN program[at[r]].map
     THEN Execute(r, program[at[r]].map[r]) ELSE UNCHANGED hist
  /\ Return(r)
  /\ UNCHANGED <<program, packed, passed, posted, dispatched, aborted, log>>

(* qllvm_mpiq_execute: the root reads the compiled kernel and writes it    *)
(* out, or aborts every rank when a file cannot be opened.                 *)
RootDispatches ==
  /\ Calling(0, "hardware")
  /\ dispatched' = dispatched + 1
  /\ Goto(0, "barrier")
  /\ UNCHANGED <<program, at, hist, packed, passed, posted, aborted, log>>

(* Mutant: the root reports the error and returns. *)
RootReturnsError ==
  /\ Calling(0, "hardware")
  /\ Return(0)
  /\ UNCHANGED <<program, hist, packed, passed, posted, dispatched, aborted, log>>

RootAborts ==
  /\ Calling(0, "hardware")
  /\ aborted' = TRUE
  /\ UNCHANGED <<program, at, pc, hist, packed, passed, posted, dispatched, log>>

EnterBarrier(r) ==
  /\ r # 0 /\ Calling(r, "hardware")
  /\ Goto(r, "barrier")
  /\ UNCHANGED <<program, at, hist, packed, passed, posted, dispatched, aborted, log>>

(* Mutant: a rank leaves without waiting. *)
LeaveBarrierEarly(r) ==
  /\ ~aborted /\ pc[r] = "barrier"
  /\ Return(r)
  /\ IF r = 0 THEN RootPosts("barrier", 0) ELSE passed' = [passed EXCEPT ![r] = @ + 1] /\ UNCHANGED posted
  /\ UNCHANGED <<program, hist, packed, dispatched, aborted, log>>

(* MPI_Barrier: a rank leaves once every rank has entered. *)
LeaveBarrier(r) ==
  /\ ~aborted /\ pc[r] = "barrier" /\ AllInBarrier(r)
  /\ IF r = 0 THEN RootPosts("barrier", 0)
              ELSE passed' = [passed EXCEPT ![r] = @ + 1] /\ UNCHANGED posted
  /\ Return(r)
  /\ UNCHANGED <<program, hist, packed, dispatched, aborted, log>>

Step(r) ==
  \/ r = 0 /\ (RootExecutes \/ PackHistogram \/ RootDispatches \/ RootAborts)
  \/ SkipExecute(r) \/ BcastSize(r) \/ BcastData(r) \/ UnpackHistogram(r)
  \/ DispatchByRank(r) \/ EnterBarrier(r) \/ LeaveBarrier(r)

Next == \E r \in Ranks : Step(r)

(* Rank r is in a collective that others have not reached yet. *)
Waits(r) ==
  \/ r # 0 /\ pc[r] \in {"size", "data"} /\ ~Posted(r, pc[r])
  \/ pc[r] = "barrier" /\ ~AllInBarrier(r)

Through(r) == pc[r] = "ready" /\ at[r] > Len(program)

Stuck == aborted \/ \A r \in Ranks : Waits(r) \/ Through(r)

(* The ranks, over a directory that may change under them; and over one    *)
(* where every kernel is its own.  While some rank can go on, some does.   *)
Runtime == Init /\ [][Next]_vars

RanksGoOn == []<>Stuck \/ []<><<Next>>_vars

Spec ==
  /\ Init /\ bitcode = [k \in DOMAIN Runs |-> k]
  /\ [][Next /\ UNCHANGED bitcode]_<<vars, bitcode>>
  /\ RanksGoOn

----------------------------------------------------------------------------

(***************************************************************************)
(* After each broadcast every rank holds what the root measured, however   *)
(* far ahead the root has run and whatever ranks did locally in between    *)
(* ("Execute quantum kernel on root rank, then broadcast histogram to all  *)
(* ranks", qllvm-mpi-runtime.h).                                           *)
(***************************************************************************)
RanksAgree ==
  \A r \in Ranks : Len(log[r]) <= Len(log[0]) /\ log[r] = SubSeq(log[0], 1, Len(log[r]))

(***************************************************************************)
(* No rank returns from a hardware call before the root has dispatched it  *)
(* and every rank has reached it ("rank 0 reads compiled QASM, writes mock *)
(* artifact, syncs all ranks", qllvm-mpiq-runtime.h).                      *)
(***************************************************************************)
HardwareCalls(n) == Cardinality({ i \in 1 .. n : program[i].op = "hardware" })

DispatchedBeforeReturn ==
  \A r \in Ranks :
    /\ HardwareCalls(at[r] - 1) <= dispatched
    /\ \A s \in Ranks :
         HardwareCalls(at[r] - 1) <= HardwareCalls(at[s] - 1) + (IF pc[s] = "barrier" THEN 1 ELSE 0)
=============================================================================
