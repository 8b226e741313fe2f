--------------------------- MODULE IncrementalBuild ---------------------------
(***************************************************************************)
(* `arth build` for the VM and its on-disk cache: cmd_build_with_options   *)
(* of driver/cli.rs, CompileSession of incremental/mod.rs and ProjectCache *)
(* of incremental/project_cache.rs, with the commands `arth cache clean`   *)
(* and `arth cache gc`.                                                    *)
(*                                                                         *)
(* A command is a process.  Nothing locks the project: processes overlap,  *)
(* the user edits sources meanwhile, and a process may die between any two *)
(* steps.  A file is truncated before it is written, in two steps.         *)
(*                                                                         *)
(* A project is its sources, and the external packages that its arth.toml  *)
(* names: a compiler resolves names in both.  app.abc and the artifacts    *)
(* hold the program without the libraries of the packages; a compiler      *)
(* links them to the program it runs.                                      *)
(*                                                                         *)
(* The fingerprint of a source is the source, and external packages have   *)
(* none.  The cache has one entry, __project__: entries of packages are    *)
(* looked up and never made.  The artifact of an entry is named by its     *)
(* fingerprint.                                                            *)
(***************************************************************************)
EXTENDS Naturals

CONSTANTS
    Procs,          \* processes
    Sources,        \* states of the source tree
    Externals,      \* states of arth.toml and of the packages it names
    NoExternals,    \* no package, and nothing to link
    BadBuilds,      \* sources and packages the checker rejects
    Levels,         \* optimisation levels, the configuration of a cache
    DefaultLevel,   \* the level of the cache commands
    Commands,       \* command lines
    MaxChanges,     \* bound on edits and on new command lines
    MaxInstalls,    \* bound on changes of the external packages
    MaxFaults,      \* bound on processes that die or fail to read or write
    MaxOverlaps,    \* bound on processes that start while another runs
    None,           \* no entry, no file, no program
    Torn            \* a file that was truncated and not yet written

ASSUME BuildAssumption ==
    /\ NoExternals \in Externals
    /\ BadBuilds \subseteq [source : Sources, external : Externals]
    /\ DefaultLevel \in Levels
    /\ Commands \subseteq
         [cmd : {"build"}, inc : BOOLEAN, clean : BOOLEAN, level : Levels]
         \cup [cmd : {"clean", "gc"}, inc : {FALSE}, clean : {FALSE}, level : {DefaultLevel}]
    /\ MaxChanges \in Nat /\ MaxInstalls \in Nat /\ MaxFaults \in Nat /\ MaxOverlaps \in Nat
    /\ {None, Torn} \cap Sources = {} /\ None # Torn
    /\ {None, Torn} \cap [source : Sources, external : Externals] = {}
    /\ None \notin [build : [source : Sources, external : Externals], linked : Externals]
    /\ {None, Torn} \cap [level : Levels, entry : [fp : Sources, stored : BOOLEAN] \cup {None}] = {}

VARIABLES
    source,         \* the source tree
    external,       \* the external packages
    args,           \* the command line of the next process
    index,          \* index.json
    files,          \* [fingerprint |-> its artifact]
    app,            \* target/arth-out/app.abc
    proc,           \* the processes
    changes,        \* edits and new command lines that may still happen
    installs,       \* changes of the packages that may still happen
    faults,         \* deaths and failures that may still happen
    overlaps,       \* processes that may still start while another runs
    disturbed,      \* history: processes that met an edit, or a process or an
                    \* artifact that did
    stale           \* history: fingerprints stored by such a process

diskVars == <<index, files, app>>
userVars == <<source, external, args, changes, installs>>
faultVars == <<faults, overlaps>>
historyVars == <<disturbed, stale>>
buildVars == <<userVars, diskVars, proc, faultVars, historyVars>>

Idle == [pc |-> "idle"]

Active == {p \in Procs : proc[p].pc # "idle"}

BuildInit ==
    /\ source \in Sources /\ external \in Externals
    /\ args \in Commands
    /\ index = None
    /\ files = [f \in Sources |-> None]
    /\ app = None
    /\ proc = [p \in Procs |-> Idle]
    /\ changes = MaxChanges /\ installs = MaxInstalls
    /\ faults = MaxFaults
    /\ overlaps = MaxOverlaps
    /\ disturbed = {} /\ stale = {}

-----------------------------------------------------------------------------
(* The user.                                                                *)

Edit ==
    /\ changes > 0
    /\ source' \in Sources \ {source}
    /\ changes' = changes - 1
    /\ disturbed' = disturbed \cup Active
    /\ UNCHANGED <<external, args, installs, diskVars, proc, faultVars, stale>>

\* arth.toml, or what is installed of the packages it names, changes.
Install ==
    /\ installs > 0
    /\ external' \in Externals \ {external}
    /\ installs' = installs - 1
    /\ UNCHANGED <<source, args, changes, diskVars, proc, faultVars, historyVars>>

NewArgs ==
    /\ changes > 0
    /\ args' \in Commands \ {args}
    /\ changes' = changes - 1
    /\ UNCHANGED <<source, external, installs, diskVars, proc, faultVars, historyVars>>

-----------------------------------------------------------------------------
(* A process.  It keeps its command line, the entry of the index in memory, *)
(* whether that is unsaved, the fingerprint it computed, the bytes it       *)
(* carries, and what it ran.                                                *)

\* A program without its libraries, and the program a compiler runs.
Project == [source |-> source, external |-> external]
Linked(build) == [build |-> build, linked |-> build.external]
Unlinked(build) == [build |-> build, linked |-> NoExternals]

Fault ==
    /\ faults > 0
    /\ faults' = faults - 1
    /\ UNCHANGED overlaps

Goto(p, pc) == proc' = [proc EXCEPT ![p].pc = pc]

\* The index is not readable: the build goes on without a cache.
Unreadable == index = Torn

Compatible(level) == index # None /\ index.level = level

\* ProjectCache::open in a new process; a cache command fails on an error.
Open(p) ==
    LET first == IF args.cmd = "gc" THEN "gc"
                 ELSE IF args.clean \/ args.cmd = "clean" THEN "clear" ELSE "load"
    IN  /\ proc[p] = Idle
        /\ ~(Unreadable /\ args.cmd # "build")
        /\ proc' = [proc EXCEPT ![p] =
             [pc      |-> IF Unreadable THEN "check" ELSE first,
              args    |-> args,
              session |-> ~Unreadable,
              entry   |-> IF ~Unreadable /\ Compatible(args.level) THEN index.entry ELSE None,
              dirty   |-> FALSE,
              fp      |-> None,
              data    |-> None,
              ran     |-> None]]
        /\ IF Active = {} THEN UNCHANGED overlaps
                          ELSE overlaps > 0 /\ overlaps' = overlaps - 1
        /\ disturbed' = IF disturbed \cap Active = {} THEN disturbed \ {p}
                                                      ELSE disturbed \cup {p}
        /\ UNCHANGED <<userVars, diskVars, faults, stale>>

\* ProjectCache::clear: the artifacts go at once, the index with the next flush.
Clear(p) ==
    /\ proc[p].pc = "clear"
    /\ files' = [f \in Sources |-> None]
    /\ proc' = [proc EXCEPT ![p].entry = None, ![p].dirty = TRUE,
                            ![p].pc = IF proc[p].args.cmd = "build" THEN "load" ELSE "drop"]
    /\ UNCHANGED <<userVars, index, app, faultVars, historyVars>>

\* ProjectCache::gc: whether the entry is older than the limit is the clock's
\* affair.  The index is unsaved either way.
Gc(p) ==
    /\ proc[p].pc = "gc"
    /\ \E old \in BOOLEAN :
         LET entry == proc[p].entry IN
         IF old /\ entry # None
         THEN /\ files' = IF entry.stored THEN [files EXCEPT ![entry.fp] = None] ELSE files
              /\ proc' = [proc EXCEPT ![p].pc = "drop", ![p].dirty = TRUE, ![p].entry = None]
         ELSE /\ proc' = [proc EXCEPT ![p].pc = "drop", ![p].dirty = TRUE]
              /\ UNCHANGED files
    /\ UNCHANGED <<userVars, index, app, faultVars, historyVars>>

\* The sources are read and fingerprinted.
LoadSources(p) ==
    /\ proc[p].pc = "load"
    /\ proc' = [proc EXCEPT ![p].pc = "lookup", ![p].fp = source]
    /\ UNCHANGED <<userVars, diskVars, faultVars, historyVars>>

\* Reading fails, or finds no source, and the command ends.
LoadFails(p) ==
    /\ proc[p].pc = "load"
    /\ Fault
    /\ Goto(p, "drop")
    /\ UNCHANGED <<userVars, diskVars, historyVars>>

Mut_Hit(p) == proc[p].entry # None /\ proc[p].entry.stored /\ files[proc[p].entry.fp] # None

\* ProjectCache::status answers Hit and load_bytecode finds the file.
Hit(p) ==
    LET entry == proc[p].entry IN
    /\ entry # None
    /\ entry.fp = proc[p].fp
    /\ entry.stored
    /\ files[entry.fp] # None

Lookup(p) ==
    LET cached == proc[p].args.inc /\ Hit(p) IN
    /\ proc[p].pc = "lookup"
    /\ proc' = [proc EXCEPT
         ![p].pc = IF cached THEN "copy" ELSE "check",
         ![p].data = IF cached THEN files[proc[p].entry.fp] ELSE None]
    /\ disturbed' = IF cached /\ proc[p].fp \in stale THEN disturbed \cup Active
                                                        ELSE disturbed
    /\ UNCHANGED <<userVars, diskVars, faultVars, stale>>

\* cmd_check on what the sources and the packages are by now.
Check(p) ==
    /\ proc[p].pc = "check"
    /\ Goto(p, IF Project \in BadBuilds THEN "drop" ELSE "compile")
    /\ UNCHANGED <<userVars, diskVars, faultVars, historyVars>>

\* The packages and the sources are read again and compiled.
Compile(p) ==
    /\ proc[p].pc = "compile"
    /\ proc' = [proc EXCEPT ![p].pc = "emit", ![p].data = Project]
    /\ UNCHANGED <<userVars, diskVars, faultVars, historyVars>>

\* app.abc is written, from the cache or from the compiler.
CreateApp(p) ==
    /\ proc[p].pc \in {"copy", "emit"}
    /\ app' = Torn
    /\ Goto(p, IF proc[p].pc = "copy" THEN "copying" ELSE "emitting")
    /\ UNCHANGED <<userVars, index, files, faultVars, historyVars>>

\* Cached bytes are decoded and run; a program that was compiled is linked before it is run.
\* Only an incremental session caches what it built.
WriteApp(p) ==
    LET data == proc[p].data
        caches == proc[p].pc = "emitting" /\ proc[p].session /\ proc[p].args.inc
    IN
    /\ proc[p].pc \in {"copying", "emitting"}
    /\ app' = data
    /\ proc' = [proc EXCEPT ![p].pc = IF caches THEN "readback" ELSE "drop",
                            ![p].ran = IF data = Torn THEN None
                                       ELSE IF proc[p].pc = "copying" THEN Unlinked(data) ELSE Linked(data)]
    /\ UNCHANGED <<userVars, index, files, faultVars, historyVars>>

\* app.abc is read back, and mark_compiled makes an entry without artifacts,
\* under the fingerprint of the first reading.
MarkCompiled(p) ==
    /\ proc[p].pc = "readback"
    /\ proc' = [proc EXCEPT ![p].pc = "store", ![p].data = app, ![p].dirty = TRUE,
                            ![p].entry = [fp |-> proc[p].fp, stored |-> FALSE]]
    /\ UNCHANGED <<userVars, diskVars, faultVars, historyVars>>

\* store_bytecode: the artifact is created and then written.
CreateArtifact(p) ==
    /\ proc[p].pc = "store"
    /\ files' = [files EXCEPT ![proc[p].fp] = Torn]
    /\ Goto(p, "storing")
    /\ UNCHANGED <<userVars, index, app, faultVars, historyVars>>

WriteArtifact(p) ==
    /\ proc[p].pc = "storing"
    /\ files' = [files EXCEPT ![proc[p].fp] = proc[p].data]
    /\ proc' = [proc EXCEPT ![p].pc = "drop", ![p].entry.stored = TRUE]
    /\ stale' = IF p \in disturbed THEN stale \cup {proc[p].fp} ELSE stale \ {proc[p].fp}
    /\ UNCHANGED <<userVars, index, app, faultVars, disturbed>>

\* The artifact cannot be written: the entry keeps no path, and dropping the
\* session still saves the index.
StoreFails(p) ==
    /\ proc[p].pc = "storing"
    /\ Fault
    /\ Goto(p, "drop")
    /\ UNCHANGED <<userVars, diskVars, historyVars>>

Exited(p) == [proc EXCEPT ![p] = Idle]

\* save, or the end of the session: an unsaved index is created and written.
DropSession(p) ==
    /\ proc[p].pc = "drop"
    /\ IF proc[p].session /\ proc[p].dirty
       THEN index' = Torn /\ Goto(p, "saving")
       ELSE proc' = Exited(p) /\ UNCHANGED index
    /\ UNCHANGED <<userVars, files, app, faultVars, historyVars>>

WriteIndex(p) ==
    /\ proc[p].pc = "saving"
    /\ index' = [level |-> proc[p].args.level, entry |-> proc[p].entry]
    /\ proc' = Exited(p)
    /\ UNCHANGED <<userVars, files, app, faultVars, historyVars>>

Crash(p) ==
    /\ p \in Active
    /\ Fault
    /\ proc' = Exited(p)
    /\ UNCHANGED <<userVars, diskVars, historyVars>>

ProcStep(p) ==
    \/ Open(p) \/ Clear(p) \/ Gc(p) \/ LoadSources(p) \/ Lookup(p)
    \/ Check(p) \/ Compile(p) \/ CreateApp(p) \/ WriteApp(p)
    \/ MarkCompiled(p) \/ CreateArtifact(p) \/ WriteArtifact(p)
    \/ DropSession(p) \/ WriteIndex(p)

BuildNext ==
    \/ Edit \/ Install \/ NewArgs
    \/ \E p \in Procs : ProcStep(p) \/ LoadFails(p) \/ StoreFails(p) \/ Crash(p)

BuildSpec == BuildInit /\ [][BuildNext]_buildVars

-----------------------------------------------------------------------------
(* Properties.                                                              *)

ProcStates == {"clear", "gc", "load", "lookup", "check", "compile", "copy", "emit", "copying",
               "emitting", "readback", "store", "storing", "drop", "saving"}

Entries == [fp : Sources, stored : BOOLEAN] \cup {None}
Builds == [source : Sources, external : Externals]
Bytes == Builds \cup {Torn, None}
Runs == [build : Builds, linked : Externals]

\* The type of the state.
BuildTypeOK ==
    /\ source \in Sources /\ external \in Externals /\ args \in Commands
    /\ index \in [level : Levels, entry : Entries] \cup {None, Torn}
    /\ files \in [Sources -> Bytes] /\ app \in Bytes
    /\ \A p \in Procs :
         \/ proc[p] = Idle
         \/ /\ proc[p] \in [pc : ProcStates, args : Commands, session : BOOLEAN,
                           entry : Entries, dirty : BOOLEAN, fp : Sources \cup {None},
                           data : Bytes, ran : Runs \cup {None}]
            /\ proc[p].dirty => proc[p].session
    /\ changes \in 0 .. MaxChanges /\ installs \in 0 .. MaxInstalls
    /\ faults \in 0 .. MaxFaults /\ overlaps \in 0 .. MaxOverlaps
    /\ disturbed \subseteq Procs /\ stale \subseteq Sources

\* `arth build` runs a program compiled from the source it fingerprinted, whether that
\* comes from the cache or from the compiler, however builds, cleans and
\* collections overlap and wherever they die; except for a build that met an
\* edit of the sources, which is fingerprinted and compiled from two readings,
\* and the builds its result reaches (cmd_build_with_options).
RunsItsSource ==
    \A p \in Active \ disturbed :
        proc[p].fp # None /\ proc[p].ran # None => proc[p].ran.build.source = proc[p].fp

\* In a project that has never had an external package, such a build runs what a
\* compiler would run now.  With packages the code does not keep this: a hit runs the
\* artifact, which is not linked ("Must be called before running a linked program that
\* uses CallSymbol opcodes", set_linked_symbol_table), and new packages are no miss.
CachedAsGoodAsNew ==
    external = NoExternals /\ installs = MaxInstalls =>
        \A p \in Active \ disturbed :
            proc[p].fp # None /\ proc[p].ran # None => proc[p].ran = Linked(Project)

\* As long as no process died, failed or overlapped another, the index
\* is whole between processes and the artifact its entry names is whole: a cache
\* hit never ends in "failed to decode bytecode" (cmd_build_with_options).  After a
\* death it may: status looks only whether the file is there, although it calls
\* "artifacts missing/invalid" corrupt (PackageCacheStatus).
HitsDecode ==
    faults = MaxFaults /\ overlaps = MaxOverlaps /\ Active = {} =>
        /\ index # Torn
        /\ index # None /\ index.entry # None /\ index.entry.stored =>
               files[index.entry.fp] \notin {Torn, None}

\* What a build runs, from the cache or compiled, and that a hit decodes
\* (cmd_build_with_options, ProjectCache).
BuildSafe == BuildTypeOK /\ RunsItsSource /\ CachedAsGoodAsNew /\ HitsDecode

=============================================================================
