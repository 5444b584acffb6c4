----------------------------- MODULE HybridBuild -----------------------------
(***************************************************************************)
(* The driver building a hybrid program (tools/driver/qllvm.in): a thread  *)
(* per kernel compiles OpenQASM to bitcode or takes the bitcode from the   *)
(* cache in the home directory, the C++ sources are compiled beside them,  *)
(* and everything is linked.  Several drivers, each started in a directory *)
(* of its own, share the cache; any of them may be killed at any moment    *)
(* and started again.                                                      *)
(***************************************************************************)
EXTENDS Naturals, Sequences, FiniteSets, Functions

CONSTANTS
  Drivers,    \* directories, and the driver that is started in each
  Jobs,       \* driver -> the command lines it may be started with
  CpuCounts,  \* what os.cpu_count() may return
  MaxStarts   \* bound: driver -> how often it is started

(* A job is [kernels |-> base names in the order of the command line,      *)
(* text |-> base name -> preprocessed text, options, backend].  Two kernels *)
(* of one job with one name would share their files, two with one text     *)
(* their temporary file in the cache: neither is modelled.                 *)
ASSUME JobsAssumption ==
  \A d \in Drivers : \A j \in Jobs[d] :
    /\ j.kernels \in Seq(DOMAIN j.text) /\ j.backend \in {"qir-runner", "qasm-backend"}
    /\ IsInjective(j.kernels) /\ IsInjective(j.text)

VARIABLES
  job,     \* driver -> the command line it was started with
  cpus,
  starts,  \* driver -> how often it was started: tells its processes apart
  state,   \* driver -> "building", "built", "error" or "killed"
  doing,   \* driver -> kernel -> what its thread does
  held,    \* driver -> kernel -> the contents its thread is writing
  disk     \* path of a file -> its contents

buildVars == <<job, cpus, starts, state, doing, held, disk>>

----------------------------------------------------------------------------

Kernels(d) == DOMAIN job[d].kernels
Base(d, i) == job[d].kernels[i]
Text(d, i) == job[d].text[Base(d, i)]

Contents(text, options) == [whole |-> TRUE, text |-> text, options |-> options]
Nothing == Contents("", "")
Part(c) == [c EXCEPT !.whole = FALSE]

Input(d, i)  == <<"input", d, Base(d, i)>>
Output(d, i) == <<job[d].backend, d, Base(d, i)>>

(* _bc_cache_key: level, basis gates and text; the back end is always the  *)
(* same one.                                                               *)
Key(d, i) == [text |-> Text(d, i), options |-> job[d].options]
Entry(d, i) == <<"entry", Key(d, i)>>

(* Mutant: the temporary file of an entry has one name for everybody. *)
TmpShared(d, i) == <<"tmp", Key(d, i)>>

(* The temporary file has the process id in its name.                      *)
Tmp(d, i) == <<"tmp", Key(d, i), d, starts[d]>>

Write(path, c) ==
  disk' = [p \in DOMAIN disk \cup {path} |-> IF p = path THEN c ELSE disk[p]]

At(d, i, what) == state[d] = "building" /\ doing[d][i] = what
Becomes(d, i, what) == doing' = [doing EXCEPT ![d][i] = what]
Hold(d, i, c) == held' = [held EXCEPT ![d][i] = c]
SameRun == UNCHANGED <<job, cpus, starts, state>>

(* open(path, 'w') and what is written: first a part of it, then all.      *)
Open(d, i, path, c) == Write(path, Part(c)) /\ Hold(d, i, c)
Close(d, i, path)   == Write(path, held[d][i]) /\ Hold(d, i, Nothing)

All(j, what) == [i \in DOMAIN j.kernels |-> what]

Begins(how, what) ==
  /\ job \in { f \in [Drivers -> UNION { Jobs[d] : d \in Drivers }] :
                 \A d \in Drivers : f[d] \in Jobs[d] }
  /\ cpus \in CpuCounts
  /\ starts = [d \in Drivers |-> 1]
  /\ state = [d \in Drivers |-> how]
  /\ doing = [d \in Drivers |-> All(job[d], what)]
  /\ held = [d \in Drivers |-> All(job[d], Nothing)]

(* Nothing was built before; or every driver has built its program, with   *)
(* the cache since cleared.                                                *)
BuildInit == Begins("building", "queued") /\ disk = << >>

BuiltBefore ==
  /\ Begins("built", "done")
  /\ disk = [p \in UNION { { Output(d, i) : i \in Kernels(d) } : d \in Drivers } |->
               Contents(job[p[2]].text[p[3]], job[p[2]].options)]

Ended(d, i) == doing[d][i] \in {"done", "failed"}
Compiling(d) == { i \in Kernels(d) : doing[d][i] # "queued" /\ ~Ended(d, i) }

Takes(d, i) ==
  /\ At(d, i, "queued") /\ \A k \in 1 .. (i - 1) : doing[d][k] # "queued"
  /\ Cardinality(Compiling(d)) < cpus
  /\ SameRun /\ UNCHANGED held

(* A worker of the pool takes the next kernel and looks its key up; on a   *)
(* miss, and for hardware, it writes the input of the compiler.            *)
IsHit(d, i) == job[d].backend = "qir-runner" /\ Entry(d, i) \in DOMAIN disk

TakeCached(d, i) ==
  /\ Takes(d, i) /\ IsHit(d, i)
  /\ Becomes(d, i, "hit") /\ UNCHANGED disk

(* Mutant: what lies in the directory is taken as it is. *)
TakeMissingLazily(d, i) ==
  /\ Takes(d, i) /\ ~IsHit(d, i)
  /\ IF Output(d, i) \in DOMAIN disk THEN Becomes(d, i, "done") /\ UNCHANGED disk
     ELSE /\ Write(Input(d, i), Contents(Text(d, i), ""))
          /\ Becomes(d, i, "compiling")

TakeMissing(d, i) ==
  /\ Takes(d, i) /\ ~IsHit(d, i)
  /\ Write(Input(d, i), Contents(Text(d, i), ""))
  /\ Becomes(d, i, "compiling")

(* _bc_cache_lookup: copy2 from the cache. *)
OpenHit(d, i) ==
  /\ At(d, i, "hit")
  /\ Open(d, i, Output(d, i), disk[Entry(d, i)])
  /\ Becomes(d, i, "copying") /\ SameRun

CloseHit(d, i) ==
  /\ At(d, i, "copying")
  /\ Close(d, i, Output(d, i))
  /\ Becomes(d, i, "done") /\ SameRun

(* qllvm-compile reads its input, and opens its output when it is done.    *)
CompilerEmits(d, i) ==
  /\ At(d, i, "compiling")
  /\ Open(d, i, Output(d, i), Contents(disk[Input(d, i)].text, job[d].options))
  /\ Becomes(d, i, "emitting") /\ SameRun

(* It exits, and the driver removes the input. *)
CompilerExits(d, i) ==
  /\ At(d, i, "emitting")
  /\ disk' = [p \in (DOMAIN disk \cup {Output(d, i)}) \ {Input(d, i)} |->
                IF p = Output(d, i) THEN held[d][i] ELSE disk[p]]
  /\ Hold(d, i, Nothing)
  /\ Becomes(d, i, IF job[d].backend = "qir-runner" THEN "store" ELSE "done")
  /\ SameRun

(* _bc_cache_store: a copy beside the entry, then os.replace. *)
OpenTmp(d, i) ==
  /\ At(d, i, "store")
  /\ Open(d, i, Tmp(d, i), disk[Output(d, i)])
  /\ Becomes(d, i, "storing") /\ SameRun

CloseTmp(d, i) ==
  /\ At(d, i, "storing")
  /\ Close(d, i, Tmp(d, i))
  /\ Becomes(d, i, "publish") /\ SameRun

Publish(d, i) ==
  /\ At(d, i, "publish")
  /\ disk' = [p \in (DOMAIN disk \cup {Entry(d, i)}) \ {Tmp(d, i)} |->
                IF p = Entry(d, i) THEN disk[Tmp(d, i)] ELSE disk[p]]
  /\ Becomes(d, i, "done") /\ SameRun /\ UNCHANGED held

(* The compiler exits with an error, or a file cannot be written: the      *)
(* exception ends the thread and leaves its files as they are.             *)
ThreadFails(d, i) ==
  /\ state[d] = "building"
  /\ doing[d][i] \in {"hit", "copying", "compiling", "emitting",
                      "store", "storing", "publish"}
  /\ Becomes(d, i, "failed") /\ Hold(d, i, Nothing) /\ SameRun /\ UNCHANGED disk

(* The C++ sources compile beside the kernels (for hardware, after them);  *)
(* then stubs are generated and all is linked.  Each of it may fail, which *)
(* shows when the kernels have ended.                                      *)
Link(d) ==
  /\ state[d] = "building" /\ \A i \in Kernels(d) : doing[d][i] = "done"
  /\ \E end \in {"built", "error"} : state' = [state EXCEPT ![d] = end]
  /\ UNCHANGED <<job, cpus, starts, doing, held, disk>>

(* An exception leaves the pool only when every submitted kernel ended.    *)
GiveUp(d) ==
  /\ state[d] = "building" /\ \A i \in Kernels(d) : Ended(d, i)
  /\ \E i \in Kernels(d) : doing[d][i] = "failed"
  /\ state' = [state EXCEPT ![d] = "error"]
  /\ UNCHANGED <<job, cpus, starts, doing, held, disk>>

(* The driver and the compilers it started are killed together; or, after  *)
(* an end without a program, the user starts it again, the kernels edited. *)
Kill(d) ==
  /\ state[d] = "building"
  /\ state' = [state EXCEPT ![d] = "killed"]
  /\ doing' = [doing EXCEPT ![d] = All(job[d], "failed")]
  /\ held' = [held EXCEPT ![d] = All(job[d], Nothing)]
  /\ UNCHANGED <<job, cpus, starts, disk>>

StartAgain(d) ==
  /\ state[d] \in {"error", "killed"} /\ starts[d] < MaxStarts[d]
  /\ \E j \in Jobs[d] :
       /\ job' = [job EXCEPT ![d] = j]
       /\ doing' = [doing EXCEPT ![d] = All(j, "queued")]
       /\ held' = [held EXCEPT ![d] = All(j, Nothing)]
  /\ starts' = [starts EXCEPT ![d] = @ + 1]
  /\ state' = [state EXCEPT ![d] = "building"]
  /\ UNCHANGED <<cpus, disk>>

KernelStep(d, i) ==
  \/ TakeCached(d, i) \/ OpenHit(d, i) \/ CloseHit(d, i)
  \/ TakeMissing(d, i) \/ CompilerEmits(d, i) \/ CompilerExits(d, i)
  \/ OpenTmp(d, i) \/ CloseTmp(d, i) \/ Publish(d, i) \/ ThreadFails(d, i)

BuildStep(d) ==
  \/ \E i \in Kernels(d) : KernelStep(d, i)
  \/ Link(d) \/ GiveUp(d)

BuildNext == \E d \in Drivers : BuildStep(d) \/ Kill(d) \/ StartAgain(d)

BuildSpec == (BuildInit \/ BuiltBefore) /\ [][BuildNext]_buildVars

(* A driver that is not killed goes on: nothing of it waits for another.   *)
BuildGoesOn(d) == []<>(state[d] # "building") \/ []<><<BuildStep(d)>>_buildVars

----------------------------------------------------------------------------

(***************************************************************************)
(* Whatever the drivers do side by side and wherever one of them is        *)
(* killed, an entry of the cache is whole, and is what compiling the text  *)
(* of its key with the options of its key gives; and so are the kernels    *)
(* beside a program that was built ("cached_bc + '.tmp.' + str(getpid())", *)
(* then os.replace: qllvm.in, _bc_cache_store).                            *)
(***************************************************************************)
EntriesAreWhole ==
  \A p \in DOMAIN disk :
    p[1] = "entry" => disk[p] = Contents(p[2].text, p[2].options)

BuiltIsCurrent ==
  \A d \in Drivers : state[d] = "built" =>
    \A i \in Kernels(d) :
      /\ Output(d, i) \in DOMAIN disk
      /\ disk[Output(d, i)] = Contents(Text(d, i), job[d].options)

BitcodeIsItsOwn == EntriesAreWhole /\ BuiltIsCurrent
=============================================================================
