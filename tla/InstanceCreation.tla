-------------------------- MODULE InstanceCreation --------------------------
(***************************************************************************)
(* How plugin instances come to be: the threads that build the instances   *)
(* of the play server at its start (core-lib render/parallel.rs), the      *)
(* threads of the render server that build one for each request            *)
(* (render/offline.rs), the steps of one construction (render.rs build)    *)
(* and the locks that keep constructions apart                             *)
(* (render/serial_instantiation.rs).                                       *)
(***************************************************************************)
EXTENDS Naturals, Sequences, FiniteSets, SequencesExt

CONSTANTS
  Workers, \* build threads of create_renderers_parallel
  Renders, \* render threads of the render server
  Plans,   \* what may be asked for: sequences of constructions, one an index
  SerialId \* VAPORIZER2_PLUGIN_ID

None == "none"
Forms == {None, "state", "six", "cartridge"}

\* A construction: the descriptors the plugin's file holds, the id the configuration
\* names, the ports the plugin has and the form of the initial patch.
Constructions ==
  [ids: Seq(STRING), wanted: STRING, outputs: Nat, isMain: BOOLEAN, channels: Nat,
   notePorts: Nat, dialects: SUBSET {"clap", "midi", "mpe"}, form: Forms]

ASSUME CreationAssumption ==
  /\ IsFiniteSet(Workers) /\ IsFiniteSet(Renders) /\ Workers \cap Renders = {}
  /\ Plans \subseteq Seq(Constructions)

VARIABLES
  offline,   \* the process is the render server, not the play server
  serialize, \* CMRT_SERIAL_INSTANTIATION does not switch the lock off
  plan,      \* the constructions of this run
  next,      \* next_index
  made,      \* indices in the order they were pushed to `created`
  failure,   \* index whose construction failed; 0 for none
  pc,        \* where each thread is
  job,       \* the index a thread constructs
  step       \* the step of that construction

creationVars == <<offline, serialize, plan, next, made, failure, pc, job, step>>

Threads == IF offline THEN Renders ELSE Workers
Count == Len(plan)

CreationInit ==
  /\ offline \in BOOLEAN
  /\ serialize \in BOOLEAN
  /\ plan \in Plans
  /\ next = 1 /\ made = <<>> /\ failure = 0
  /\ pc = [t \in Workers \cup Renders |-> "ready"]
  /\ job = [t \in Workers \cup Renders |-> 0]
  /\ step = [t \in Workers \cup Renders |-> 0]

(***************************************************************************)
(* One construction                                                        *)
(***************************************************************************)
\* choose_descriptor: the id that is named, else the only one there is.
Chosen(c) ==
  IF c.wanted # None THEN IF c.wanted \in Range(c.ids) THEN c.wanted ELSE ""
  ELSE IF Len(c.ids) = 1 THEN c.ids[1] ELSE ""

\* validate_capabilities and resolve_note_dialect
Accepts(c) ==
  /\ c.outputs > 0 /\ c.isMain /\ c.channels = 2
  /\ c.notePorts > 0
  /\ c.dialects \cap {"clap", "midi"} # {}

\* The initial patch is loaded before the plugin is active, but a cartridge is sent to it
\* and a Six Sines patch is applied again after.
Steps(c) ==
  <<"descriptor", "create", "probe", "save">>
    \o (IF c.form \in {"state", "six"} THEN <<"load">> ELSE <<>>)
    \o <<"activate", "start">>
    \o (IF c.form \in {"cartridge", "six"} THEN <<"set">> ELSE <<>>)

Building(t) == pc[t] \in {"building", "creating"}
At(t) == Steps(plan[job[t]])[step[t]]
Serial(t) == Chosen(plan[job[t]]) = SerialId

\* The steps that can fail, and those that must. A state that cannot be saved is missing
\* later and nothing else.
MayFail(t) == At(t) # "save"
MustFail(t) ==
  \/ At(t) = "descriptor" /\ Chosen(plan[job[t]]) = ""
  \/ At(t) = "probe" /\ ~Accepts(plan[job[t]])

(***************************************************************************)
(* The locks                                                               *)
(***************************************************************************)
Creating == {t \in Threads: pc[t] = "creating"}

\* Seeded fault: the plugin that cannot stand company takes the read lock as well.
AllShared(t) == serialize => \A u \in Creating: ~Serial(u)

\* InstantiationPermit::acquire: exclusive for one plugin, shared for the others.
Permitted(t) == serialize => \A u \in Creating: ~Serial(u) /\ ~Serial(t)

\* INSTANCE_CREATION, from the first step of a construction to its last.
MutexFree(t) == \A u \in Renders: ~Building(u)

(***************************************************************************)
(* Actions                                                                 *)
(***************************************************************************)
Goes(t, where) == pc' = [pc EXCEPT ![t] = where]

\* A worker looks for a failure first and then claims an index.
CheckFailure(t) ==
  /\ ~offline /\ pc[t] = "ready"
  /\ Goes(t, IF failure # 0 THEN "done" ELSE "claim")
  /\ UNCHANGED <<offline, serialize, plan, next, made, failure, job, step>>

\* next_index.fetch_add
Claim(t) ==
  /\ ~offline /\ pc[t] = "claim"
  /\ next' = next + 1
  /\ IF next > Count
     THEN Goes(t, "done") /\ UNCHANGED <<job, step>>
     ELSE /\ Goes(t, "building")
          /\ job' = [job EXCEPT ![t] = next] /\ step' = [step EXCEPT ![t] = 1]
  /\ UNCHANGED <<offline, serialize, plan, made, failure>>

\* create_renderer_one_at_a_time
Enter(t) ==
  /\ offline /\ pc[t] = "ready" /\ MutexFree(t)
  /\ \E i \in 1 .. Count: job' = [job EXCEPT ![t] = i]
  /\ step' = [step EXCEPT ![t] = 1]
  /\ Goes(t, "building")
  /\ UNCHANGED <<offline, serialize, plan, next, made, failure>>

\* create_plugin_instance_without_patch: the permit is held while the plugin creates.
Create(t) ==
  /\ pc[t] = "building" /\ At(t) = "create" /\ Permitted(t)
  /\ Goes(t, "creating")
  /\ UNCHANGED <<offline, serialize, plan, next, made, failure, job, step>>

\* A step succeeds; after the last the instance is pushed, or renders without the lock.
Advance(t) ==
  /\ Building(t) /\ (At(t) = "create" => pc[t] = "creating") /\ ~MustFail(t)
  /\ IF step[t] < Len(Steps(plan[job[t]]))
     THEN step' = [step EXCEPT ![t] = @ + 1] /\ Goes(t, "building") /\ UNCHANGED made
     ELSE /\ made' = IF offline THEN made ELSE Append(made, job[t])
          /\ Goes(t, IF offline THEN "rendering" ELSE "ready")
          /\ UNCHANGED step
  /\ UNCHANGED <<offline, serialize, plan, next, failure, job>>

FailureOf(t) == job[t]

\* A step fails: the last error to be noted is the one that is returned.
Fail(t) ==
  /\ Building(t) /\ (At(t) = "create" => pc[t] = "creating") /\ MayFail(t)
  /\ failure' = IF offline THEN failure ELSE FailureOf(t)
  /\ Goes(t, "done")
  /\ UNCHANGED <<offline, serialize, plan, next, made, job, step>>

\* The plugin panics: the locks are released, poisoned, and nobody minds.
Panic(t) ==
  /\ Building(t) /\ (At(t) = "create" => pc[t] = "creating")
  /\ Goes(t, "panicked")
  /\ UNCHANGED <<offline, serialize, plan, next, made, failure, job, step>>

\* render_to_memory has rendered all its chunks, or one has failed.
Render(t) ==
  /\ pc[t] = "rendering" /\ Goes(t, "done")
  /\ UNCHANGED <<offline, serialize, plan, next, made, failure, job, step>>

Work(t) == CheckFailure(t) \/ Claim(t) \/ Enter(t) \/ Create(t) \/ Advance(t) \/ Fail(t) \/ Render(t)

CreationNext == \E t \in Threads: Work(t) \/ Panic(t)

CreationSpec == CreationInit /\ [][CreationNext]_creationVars

(***************************************************************************)
(* Properties                                                              *)
(***************************************************************************)
\* The plugin that crashes when two threads create it creates alone, whatever the others
\* create (serial_instantiation.rs:3-5), and the render server constructs one instance at
\* a time, its patch included (offline.rs:6-10); rendering itself overlaps.
CreationsAreApart ==
  /\ serialize => \A t, u \in Creating: t # u => ~Serial(t) /\ ~Serial(u)
  /\ offline => \A t, u \in Renders: Building(t) /\ Building(u) => t = u

=============================================================================
