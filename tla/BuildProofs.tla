---------------------------- MODULE BuildProofs -----------------------------
(***************************************************************************)
(* Proofs about IncrementalBuild, for any number of processes, sources and *)
(* commands, and any bounds, and about DepGraph, for any finite graph.     *)
(*                                                                         *)
(* Of the build, three claims go together in the invariant: what nobody    *)
(* edited under a build is of one source (Calm), what nothing disturbed    *)
(* at all is whole (Alone), and where no package changed everything was    *)
(* made with the same ones (Settled).                                      *)
(***************************************************************************)
EXTENDS IncrementalBuild, DepGraph, SequenceFacts

(* What a process at work may be.                                          *)
Processes == [pc : ProcStates, args : Commands, session : BOOLEAN,
              entry : Entries, dirty : BOOLEAN, fp : Sources \cup {None},
              data : Bytes, ran : Runs \cup {None}]

(* The states of a process that opened the index, and of one past the      *)
(* first reading of the sources.                                           *)
Opened == {"clear", "gc", "load", "lookup", "readback", "store", "storing", "saving"}
Building == {"lookup", "check", "compile", "copy", "emit", "copying", "emitting", "readback",
             "store", "storing"}

(* Where a process is says what it holds: the unsaved index is its own, an *)
(* artifact is stored for the entry it marked.                             *)
Staged(q) ==
    /\ q.pc \in Opened \/ q.dirty => q.session
    /\ q.session /\ q.pc \in Building => q.fp \in Sources
    /\ q.pc \in {"emit", "emitting"} => q.data \in Builds
    /\ q.pc \in {"copy", "copying"} => q.data # None
    /\ q.pc \in {"store", "storing"} =>
         /\ q.dirty /\ q.entry \in [fp : Sources, stored : BOOLEAN]
         /\ q.entry.fp = q.fp /\ ~q.entry.stored
    /\ q.pc = "saving" => q.dirty

(* The types of what outlives a process, and of the bounds.                *)
DiskTyped ==
    /\ source \in Sources /\ external \in Externals /\ args \in Commands
    /\ index \in [level : Levels, entry : Entries] \cup {None, Torn}
    /\ files \in [Sources -> Bytes] /\ app \in Bytes
    /\ changes \in 0 .. MaxChanges /\ installs \in 0 .. MaxInstalls /\ faults \in 0 .. MaxFaults
    /\ overlaps \in 0 .. MaxOverlaps /\ disturbed \subseteq Procs /\ stale \subseteq Sources

Typed ==
    /\ DiskTyped
    /\ proc \in [Procs -> Processes \cup {Idle}]
    /\ \A p \in Active : Staged(proc[p])

(* Bytes that are no program, or one made from f; those made from the      *)
(* sources as they are, and what was run of those.                         *)
Made(b, f) == b \in {None, Torn} \/ (b \in Builds /\ b.source = f)
Near(b) == Made(b, source)
RanNear(x) == x = None \/ (x \in Runs /\ x.build.source = source)

(* An overlapping group of processes met an edit together or not at all.   *)
(* An artifact that is not stale is the program of its fingerprint, and so *)
(* is what a process carries that met no edit.                             *)
Calm ==
    /\ Active \subseteq disturbed \/ Active \cap disturbed = {}
    /\ \A f \in Sources \ stale : Made(files[f], f)
    /\ \A p \in Active \ disturbed :
         /\ proc[p].fp \in {None, source} /\ Near(proc[p].data) /\ RanNear(proc[p].ran)
         /\ proc[p].pc = "readback" => Near(app)

(* The artifact an entry names is there and complete.                      *)
Whole(fs, entry) == entry # None /\ entry.stored => fs[entry.fp] \notin {Torn, None}

Undisturbed == faults = MaxFaults /\ overlaps = MaxOverlaps
IndexWhole == index # Torn /\ (index # None => Whole(files, index.entry))

(* As long as nothing died, failed or overlapped, one process at most is   *)
(* at work; what it has in memory is whole, and the index on disk is,      *)
(* until the process has something to save.                                *)
Alone ==
    Undisturbed =>
        /\ \A p, q \in Active : p = q
        /\ Active = {} => IndexWhole
        /\ \A p \in Active :
             /\ ~proc[p].dirty => IndexWhole
             /\ Whole(files, proc[p].entry)
             /\ proc[p].pc = "readback" => app \in Builds
             /\ proc[p].pc \in {"store", "storing"} => proc[p].data \in Builds

(* As long as no package came or went, everything was made with those      *)
(* there are, and run with them or without any.                            *)
With(b) == b \in Builds => b.external = external
RanWith(x) == x \in Runs => x.build.external = external /\ x.linked \in {external, NoExternals}
FilesWith == \A f \in Sources : With(files[f])
Settled ==
    installs = MaxInstalls =>
        /\ FilesWith /\ With(app)
        /\ \A p \in Active : With(proc[p].data) /\ RanWith(proc[p].ran)

(* The inductive invariant.                                                *)
BuildInv == Typed /\ Calm /\ Alone /\ Settled

-----------------------------------------------------------------------------
(* A process that goes on is r afterwards, and no other process moves.      *)
Becomes(p, r) == proc' = [proc EXCEPT ![p] = r]

(* The table of processes after a step of p that is not its last.          *)
LEMMA Continues ==
    ASSUME Typed, NEW p \in Procs, NEW r \in Processes, proc[p] # Idle, Becomes(p, r)
    PROVE  /\ proc' \in [Procs -> Processes \cup {Idle}]
           /\ Active' = Active /\ p \in Active /\ proc[p] \in Processes
           /\ proc'[p] = r /\ \A q \in Active \ {p} : proc'[q] = proc[q]
BY DEF Typed, Becomes, Active, Processes, ProcStates, Idle

(* The same when p exits.                                                  *)
LEMMA Leaves ==
    ASSUME Typed, NEW p \in Procs, proc[p] # Idle, Becomes(p, Idle)
    PROVE  /\ proc' \in [Procs -> Processes \cup {Idle}]
           /\ Active' = Active \ {p} /\ p \in Active /\ proc[p] \in Processes
           /\ \A q \in Active \ {p} : proc'[q] = proc[q]
BY DEF Typed, Becomes, Active, Processes, ProcStates, Idle

(* A process at work has the fields of one.                                *)
LEMMA NotIdle ==
    ASSUME Typed, NEW p \in Procs, proc[p].pc # "idle"
    PROVE  proc[p] \in Processes /\ proc[p] # Idle /\ p \in Active /\ Staged(proc[p])
BY DEF Typed, Active, Processes, ProcStates, Idle

(* What the step of a process that goes on as r has to show.                *)
LEMMA StepKeeps ==
    ASSUME BuildInv, NEW p \in Procs, NEW r \in Processes, proc[p].pc # "idle", Becomes(p, r),
           Staged(r), DiskTyped',
           UNCHANGED <<source, external, installs>>,
           disturbed' = disturbed \/ disturbed' = disturbed \cup Active,
           \A f \in Sources \ stale' : Made(files'[f], f),
           app' = app \/ (p \notin disturbed => Made(app', source)),
           p \notin disturbed' =>
               /\ r.fp \in {None, source} /\ Near(r.data) /\ RanNear(r.ran)
               /\ r.pc = "readback" => Made(app', source),
           Undisturbed' =>
               /\ Undisturbed
               /\ ~r.dirty => IndexWhole'
               /\ Whole(files', r.entry)
               /\ r.pc = "readback" => app' \in Builds
               /\ r.pc \in {"store", "storing"} => r.data \in Builds,
           installs = MaxInstalls => FilesWith' /\ With(app') /\ With(r.data) /\ RanWith(r.ran)
    PROVE  BuildInv'
<1>1. Typed /\ Calm /\ Alone /\ Settled
  BY DEF BuildInv
<1>2. /\ proc' \in [Procs -> Processes \cup {Idle}]
      /\ Active' = Active /\ p \in Active
      /\ proc'[p] = r /\ \A q \in Active \ {p} : proc'[q] = proc[q]
  BY <1>1, NotIdle, Continues
<1>3. Typed'
  BY <1>1, <1>2 DEF Typed
<1>4. Calm'
  <2>1. Active' \subseteq disturbed' \/ Active' \cap disturbed' = {}
    BY <1>1, <1>2 DEF Calm
  <2>2. ASSUME NEW q \in Active \ disturbed', q # p
        PROVE  /\ proc'[q] = proc[q] /\ q \notin disturbed /\ p \notin disturbed
               /\ proc[q].pc = "readback" => Made(app', source)
    BY <1>1, <1>2, <2>2 DEF Calm, Near, Made, RanNear
  <2>3. ASSUME NEW q \in Active' \ disturbed'
        PROVE  /\ proc'[q].fp \in {None, source} /\ Near(proc'[q].data)
               /\ RanNear(proc'[q].ran)
               /\ proc'[q].pc = "readback" => Made(app', source)
    <3>1. CASE q = p
      BY <1>2, <3>1, <2>3
    <3>2. CASE q # p
      BY <1>1, <1>2, <2>2, <2>3, <3>2 DEF Calm
    <3> QED
      BY <3>1, <3>2
  <2> QED
    BY <2>1, <2>3 DEF Calm, Near, Made, RanNear
<1>5. Alone'
  <2> SUFFICES ASSUME Undisturbed'
               PROVE  /\ \A q, s \in Active' : q = s
                      /\ Active' = {} => IndexWhole'
                      /\ \A q \in Active' :
                           /\ ~proc'[q].dirty => IndexWhole'
                           /\ Whole(files', proc'[q].entry)
                           /\ proc'[q].pc = "readback" => app' \in Builds
                           /\ proc'[q].pc \in {"store", "storing"} => proc'[q].data \in Builds
    BY DEF Alone
  <2>1. Undisturbed
    OBVIOUS
  <2>2. \A q, s \in Active : q = s
    BY <1>1, <2>1 DEF Alone
  <2>3. \A q \in Active' : q = p /\ proc'[q] = r
    BY <1>2, <2>2
  <2> QED
    BY <1>2, <2>1, <2>2, <2>3
<1>6. Settled'
  <2>1. /\ external' = external /\ installs' = installs
        /\ \A x : With(x)' <=> With(x)
        /\ \A x : RanWith(x)' <=> RanWith(x)
    BY DEF With, RanWith, Builds, Runs
  <2> QED
    BY <1>1, <1>2, <2>1 DEF Settled
<1> QED
  BY <1>3, <1>4, <1>5, <1>6 DEF BuildInv

(* A process that ends keeps nothing; the index it leaves is whole if       *)
(* nothing went wrong.                                                      *)
LEMMA LeaveKeeps ==
    ASSUME BuildInv, NEW p \in Procs, proc[p].pc # "idle", Becomes(p, Idle), DiskTyped',
           UNCHANGED <<source, external, files, app, installs, disturbed, stale>>,
           Undisturbed' => Undisturbed /\ IndexWhole'
    PROVE  BuildInv'
<1>1. Typed /\ Calm /\ Alone /\ Settled
  BY DEF BuildInv
<1>2. /\ proc' \in [Procs -> Processes \cup {Idle}]
      /\ Active' = Active \ {p} /\ p \in Active
      /\ \A q \in Active \ {p} : proc'[q] = proc[q]
  BY <1>1, NotIdle, Leaves
<1>3. Typed'
  BY <1>1, <1>2 DEF Typed
<1>4. Calm'
  BY <1>1, <1>2 DEF Calm, Near, Made, RanNear
<1>5. Alone'
  BY <1>1, <1>2 DEF Alone
<1>6. Settled'
  BY <1>1, <1>2 DEF Settled, FilesWith, With, RanWith
<1> QED
  BY <1>3, <1>4, <1>5, <1>6 DEF BuildInv

(* What the invariant says of one process.                                  *)
LEMMA ProcFacts ==
    ASSUME BuildInv, NEW p \in Procs, proc[p].pc # "idle"
    PROVE  /\ proc[p] \in Processes /\ Staged(proc[p]) /\ p \in Active /\ DiskTyped
           /\ proc \in [Procs -> Processes \cup {Idle}]
           /\ \A f \in Sources \ stale : Made(files[f], f)
           /\ p \notin disturbed =>
                /\ proc[p].fp \in {None, source} /\ Near(proc[p].data)
                /\ RanNear(proc[p].ran)
                /\ proc[p].pc = "readback" => Near(app)
           /\ Undisturbed =>
                /\ ~proc[p].dirty => IndexWhole
                /\ Whole(files, proc[p].entry)
                /\ proc[p].pc = "readback" => app \in Builds
                /\ proc[p].pc \in {"store", "storing"} => proc[p].data \in Builds
           /\ installs = MaxInstalls =>
                FilesWith /\ With(app) /\ With(proc[p].data) /\ RanWith(proc[p].ran)
BY NotIdle DEF BuildInv, Typed, Calm, Alone, Settled

(* ProjectCache::clear: nothing is left that could be of other sources,    *)
(* and the entry is gone with the artifacts.                               *)
LEMMA ClearInv ==
    ASSUME BuildInv, NEW p \in Procs, Clear(p)
    PROVE  BuildInv'
<1> DEFINE q == proc[p]
           r == [q EXCEPT !.entry = None, !.dirty = TRUE,
                           !.pc = IF q.args.cmd = "build" THEN "load" ELSE "drop"]
<1>1. /\ q \in Processes /\ Staged(q) /\ DiskTyped /\ q.pc = "clear"
      /\ proc \in [Procs -> Processes \cup {Idle}]
  BY ProcFacts DEF Clear
<1>2. Becomes(p, r)
  BY <1>1 DEF Clear, Becomes, Goto
<1>3. UNCHANGED <<source, external, args, index, app, changes, installs, faults, overlaps, disturbed, stale>>
  BY DEF Clear, userVars, diskVars, faultVars, historyVars
<1>4. r \in Processes /\ Staged(r)
  BY <1>1 DEF Processes, ProcStates, Staged, Opened, Building, DiskTyped, Entries
<1>5. DiskTyped'
  BY <1>1, <1>3 DEF Clear, DiskTyped, Bytes
<1>6. \A f \in Sources \ stale' : Made(files'[f], f)
  BY <1>1, <1>3, ProcFacts DEF Clear, DiskTyped, Near, Made
<1>7. p \notin disturbed' =>
        /\ r.fp \in {None, source} /\ Near(r.data) /\ RanNear(r.ran)
        /\ r.pc = "readback" => Made(app', source)
  BY <1>1, <1>3, ProcFacts DEF Clear, DiskTyped, Near, Processes
<1>8. Undisturbed' =>
        /\ Undisturbed
        /\ ~r.dirty => IndexWhole'
        /\ Whole(files', r.entry)
        /\ r.pc = "readback" => app' \in Builds
        /\ r.pc \in {"store", "storing"} => r.data \in Builds
  BY <1>1, <1>3, ProcFacts DEF Clear, DiskTyped, Whole, IndexWhole, Processes, Staged,
                                    Undisturbed
<1>9. app' = app \/ (p \notin disturbed => Made(app', source))
  BY <1>1, <1>3, ProcFacts DEF Clear, Near
<1>11. installs = MaxInstalls => FilesWith' /\ With(app') /\ With(r.data) /\ RanWith(r.ran)
  BY <1>1, <1>3, ProcFacts DEF Clear, DiskTyped, Processes, FilesWith, With, RanWith
<1> HIDE DEF r
<1> QED
  BY <1>1, <1>2, <1>3, <1>4, <1>5, <1>6, <1>7, <1>8, <1>9, <1>11, StepKeeps

(* The sources are fingerprinted: an edit since the process began would    *)
(* have disturbed it.                                                      *)
LEMMA LoadInv ==
    ASSUME BuildInv, NEW p \in Procs, LoadSources(p)
    PROVE  BuildInv'
<1> DEFINE q == proc[p]
           r == [q EXCEPT !.pc = "lookup", !.fp = source]
<1>1. /\ q \in Processes /\ Staged(q) /\ DiskTyped /\ q.pc = "load"
      /\ proc \in [Procs -> Processes \cup {Idle}]
  BY ProcFacts DEF LoadSources
<1>2. Becomes(p, r)
  BY <1>1 DEF LoadSources, Becomes, Goto
<1>3. UNCHANGED <<source, external, args, index, files, app, changes, installs, faults, overlaps, disturbed, stale>>
  BY DEF LoadSources, userVars, diskVars, faultVars, historyVars
<1>4. r \in Processes /\ Staged(r)
  BY <1>1 DEF Processes, ProcStates, Staged, Opened, Building, DiskTyped, Entries
<1>5. DiskTyped'
  BY <1>1, <1>3 DEF LoadSources, DiskTyped, Bytes
<1>6. \A f \in Sources \ stale' : Made(files'[f], f)
  BY <1>1, <1>3, ProcFacts DEF LoadSources, DiskTyped, Near
<1>7. p \notin disturbed' =>
        /\ r.fp \in {None, source} /\ Near(r.data) /\ RanNear(r.ran)
        /\ r.pc = "readback" => Made(app', source)
  BY <1>1, <1>3, ProcFacts DEF LoadSources, DiskTyped, Near, Processes
<1>8. Undisturbed' =>
        /\ Undisturbed
        /\ ~r.dirty => IndexWhole'
        /\ Whole(files', r.entry)
        /\ r.pc = "readback" => app' \in Builds
        /\ r.pc \in {"store", "storing"} => r.data \in Builds
  BY <1>1, <1>3, ProcFacts DEF LoadSources, DiskTyped, Whole, IndexWhole, Processes, Staged,
                                    Undisturbed
<1>9. app' = app \/ (p \notin disturbed => Made(app', source))
  BY <1>1, <1>3, ProcFacts DEF LoadSources, Near
<1>11. installs = MaxInstalls => FilesWith' /\ With(app') /\ With(r.data) /\ RanWith(r.ran)
  BY <1>1, <1>3, ProcFacts DEF LoadSources, DiskTyped, Processes, FilesWith, With, RanWith
<1> HIDE DEF r
<1> QED
  BY <1>1, <1>2, <1>3, <1>4, <1>5, <1>6, <1>7, <1>8, <1>9, <1>11, StepKeeps

(* cmd_check touches neither the index nor the artifacts.                  *)
LEMMA CheckInv ==
    ASSUME BuildInv, NEW p \in Procs, Check(p)
    PROVE  BuildInv'
<1> DEFINE q == proc[p]
           r == [q EXCEPT !.pc = IF Project \in BadBuilds THEN "drop" ELSE "compile"]
<1>1. /\ q \in Processes /\ Staged(q) /\ DiskTyped /\ q.pc = "check"
      /\ proc \in [Procs -> Processes \cup {Idle}]
  BY ProcFacts DEF Check
<1>2. Becomes(p, r)
  BY <1>1 DEF Check, Becomes, Goto
<1>3. UNCHANGED <<source, external, args, index, files, app, changes, installs, faults, overlaps, disturbed, stale>>
  BY DEF Check, userVars, diskVars, faultVars, historyVars
<1>4. r \in Processes /\ Staged(r)
  BY <1>1 DEF Processes, ProcStates, Staged, Opened, Building, DiskTyped, Entries
<1>5. DiskTyped'
  BY <1>1, <1>3 DEF Check, DiskTyped, Bytes
<1>6. \A f \in Sources \ stale' : Made(files'[f], f)
  BY <1>1, <1>3, ProcFacts DEF Check, DiskTyped, Near
<1>7. p \notin disturbed' =>
        /\ r.fp \in {None, source} /\ Near(r.data) /\ RanNear(r.ran)
        /\ r.pc = "readback" => Made(app', source)
  BY <1>1, <1>3, ProcFacts DEF Check, DiskTyped, Near, Processes
<1>8. Undisturbed' =>
        /\ Undisturbed
        /\ ~r.dirty => IndexWhole'
        /\ Whole(files', r.entry)
        /\ r.pc = "readback" => app' \in Builds
        /\ r.pc \in {"store", "storing"} => r.data \in Builds
  BY <1>1, <1>3, ProcFacts DEF Check, DiskTyped, Whole, IndexWhole, Processes, Staged,
                                    Undisturbed
<1>9. app' = app \/ (p \notin disturbed => Made(app', source))
  BY <1>1, <1>3, ProcFacts DEF Check, Near
<1>11. installs = MaxInstalls => FilesWith' /\ With(app') /\ With(r.data) /\ RanWith(r.ran)
  BY <1>1, <1>3, ProcFacts DEF Check, DiskTyped, Processes, FilesWith, With, RanWith
<1> HIDE DEF r
<1> QED
  BY <1>1, <1>2, <1>3, <1>4, <1>5, <1>6, <1>7, <1>8, <1>9, <1>11, StepKeeps

(* The second reading of the sources is the first one, or the process is   *)
(* disturbed.                                                              *)
LEMMA CompileInv ==
    ASSUME BuildInv, NEW p \in Procs, Compile(p)
    PROVE  BuildInv'
<1> DEFINE q == proc[p]
           r == [q EXCEPT !.pc = "emit", !.data = Project]
<1>1. /\ q \in Processes /\ Staged(q) /\ DiskTyped /\ q.pc = "compile"
      /\ proc \in [Procs -> Processes \cup {Idle}]
  BY ProcFacts DEF Compile
<1>2. Becomes(p, r)
  BY <1>1 DEF Compile, Becomes, Goto
<1>3. UNCHANGED <<source, external, args, index, files, app, changes, installs, faults, overlaps, disturbed, stale>>
  BY DEF Compile, userVars, diskVars, faultVars, historyVars
<1>4. r \in Processes /\ Staged(r)
  <2>1. Project \in Builds /\ Project \in Bytes
    BY <1>1 DEF DiskTyped, Project, Builds, Bytes
  <2> QED
    BY <1>1, <2>1 DEF Processes, ProcStates, Staged, Opened, Building
<1>5. DiskTyped'
  BY <1>1, <1>3 DEF Compile, DiskTyped, Bytes
<1>6. \A f \in Sources \ stale' : Made(files'[f], f)
  BY <1>1, <1>3, ProcFacts DEF Compile, DiskTyped, Near
<1>7. p \notin disturbed' =>
        /\ r.fp \in {None, source} /\ Near(r.data) /\ RanNear(r.ran)
        /\ r.pc = "readback" => Made(app', source)
  BY <1>1, <1>3, ProcFacts DEF Compile, DiskTyped, Near, Made, Builds, Project, Processes
<1>8. Undisturbed' =>
        /\ Undisturbed
        /\ ~r.dirty => IndexWhole'
        /\ Whole(files', r.entry)
        /\ r.pc = "readback" => app' \in Builds
        /\ r.pc \in {"store", "storing"} => r.data \in Builds
  BY <1>1, <1>3, ProcFacts DEF Compile, DiskTyped, Whole, IndexWhole, Processes, Staged,
                                    Undisturbed
<1>9. app' = app \/ (p \notin disturbed => Made(app', source))
  BY <1>1, <1>3, ProcFacts DEF Compile, Near
<1>11. installs = MaxInstalls => FilesWith' /\ With(app') /\ With(r.data) /\ RanWith(r.ran)
  BY <1>1, <1>3, ProcFacts DEF Compile, DiskTyped, Processes, FilesWith, With, RanWith, Project
<1> HIDE DEF r
<1> QED
  BY <1>1, <1>2, <1>3, <1>4, <1>5, <1>6, <1>7, <1>8, <1>9, <1>11, StepKeeps

(* app.abc is torn between its creation and its writing.                   *)
LEMMA CreateAppInv ==
    ASSUME BuildInv, NEW p \in Procs, CreateApp(p)
    PROVE  BuildInv'
<1> DEFINE q == proc[p]
           r == [q EXCEPT !.pc = IF q.pc = "copy" THEN "copying" ELSE "emitting"]
<1>1. /\ q \in Processes /\ Staged(q) /\ DiskTyped /\ q.pc \in {"copy", "emit"}
      /\ proc \in [Procs -> Processes \cup {Idle}]
  BY ProcFacts DEF CreateApp
<1>2. Becomes(p, r)
  BY <1>1 DEF CreateApp, Becomes, Goto
<1>3. UNCHANGED <<source, external, args, index, files, changes, installs, faults, overlaps, disturbed, stale>>
  BY DEF CreateApp, userVars, diskVars, faultVars, historyVars
<1>4. r \in Processes /\ Staged(r)
  BY <1>1 DEF Processes, ProcStates, Staged, Opened, Building, DiskTyped, Entries
<1>5. DiskTyped'
  BY <1>1, <1>3 DEF CreateApp, DiskTyped, Bytes
<1>6. \A f \in Sources \ stale' : Made(files'[f], f)
  BY <1>1, <1>3, ProcFacts DEF CreateApp, DiskTyped, Near
<1>7. p \notin disturbed' =>
        /\ r.fp \in {None, source} /\ Near(r.data) /\ RanNear(r.ran)
        /\ r.pc = "readback" => Made(app', source)
  BY <1>1, <1>3, ProcFacts DEF CreateApp, DiskTyped, Near, Processes
<1>8. Undisturbed' =>
        /\ Undisturbed
        /\ ~r.dirty => IndexWhole'
        /\ Whole(files', r.entry)
        /\ r.pc = "readback" => app' \in Builds
        /\ r.pc \in {"store", "storing"} => r.data \in Builds
  BY <1>1, <1>3, ProcFacts DEF CreateApp, DiskTyped, Whole, IndexWhole, Processes, Staged,
                                    Undisturbed
<1>9. app' = app \/ (p \notin disturbed => Made(app', source))
  BY <1>1, <1>3, ProcFacts DEF CreateApp, Near, Made
<1>11. installs = MaxInstalls => FilesWith' /\ With(app') /\ With(r.data) /\ RanWith(r.ran)
  BY <1>1, <1>3, ProcFacts, BuildAssumption
     DEF CreateApp, DiskTyped, Processes, FilesWith, With, RanWith, Builds
<1> HIDE DEF r
<1> QED
  BY <1>1, <1>2, <1>3, <1>4, <1>5, <1>6, <1>7, <1>8, <1>9, <1>11, StepKeeps

(* A hit hands out the artifact of the fingerprint: it is not stale, or    *)
(* everybody at work counts as disturbed from here on.                     *)
LEMMA LookupInv ==
    ASSUME BuildInv, NEW p \in Procs, Lookup(p)
    PROVE  BuildInv'
<1> DEFINE q == proc[p]
           r == [q EXCEPT
                  !.pc = IF q.args.inc /\ Hit(p) THEN "copy" ELSE "check",
                  !.data = IF q.args.inc /\ Hit(p) THEN files[q.entry.fp] ELSE None]
<1>1. /\ q \in Processes /\ Staged(q) /\ DiskTyped /\ q.pc = "lookup"
      /\ proc \in [Procs -> Processes \cup {Idle}]
  BY ProcFacts DEF Lookup
<1>2. Becomes(p, r)
  BY <1>1 DEF Lookup, Becomes, Goto
<1>3. UNCHANGED <<source, external, args, index, files, app, changes, installs, faults, overlaps, stale>>
  BY DEF Lookup, userVars, diskVars, faultVars, historyVars
<1>4. r \in Processes /\ Staged(r)
  <2>1. Hit(p) => files[q.entry.fp] \in Bytes
    <3>1. Hit(p) => q.entry.fp \in Sources
      BY <1>1 DEF Hit, Processes, Staged, Opened, Building
    <3> QED
      BY <1>1, <3>1 DEF DiskTyped
  <2>2. None \in Bytes
    BY DEF Bytes
  <2>3. PICK x \in Bytes, to \in {"copy", "check"} :
             r = [q EXCEPT !.pc = to, !.data = x] /\ (to = "copy" => x # None)
    BY <2>1, <2>2 DEF Hit
  <2> HIDE DEF q, r
  <2> QED
    <3>1. r \in Processes
      BY <1>1, <2>3 DEF Processes, ProcStates
    <3>2. /\ r.pc \in {"copy", "check"} /\ r.session = q.session /\ r.fp = q.fp
          /\ r.dirty = q.dirty /\ r.data = x /\ r.pc = to
      BY <1>1, <2>3 DEF Processes
    <3> QED
      BY <1>1, <2>3, <3>1, <3>2 DEF Staged, Opened, Building, Processes
<1>5. DiskTyped'
  BY <1>1, <1>3 DEF Lookup, DiskTyped, Bytes, Active
<1>6. \A f \in Sources \ stale' : Made(files'[f], f)
  BY <1>1, <1>3, ProcFacts DEF Lookup, DiskTyped, Near
<1>7. p \notin disturbed' =>
        /\ r.fp \in {None, source} /\ Near(r.data) /\ RanNear(r.ran)
        /\ r.pc = "readback" => Made(app', source)
  BY <1>1, <1>3, ProcFacts DEF Lookup, DiskTyped, Near, Processes, Hit, Staged, Opened, Building
<1>8. Undisturbed' =>
        /\ Undisturbed
        /\ ~r.dirty => IndexWhole'
        /\ Whole(files', r.entry)
        /\ r.pc = "readback" => app' \in Builds
        /\ r.pc \in {"store", "storing"} => r.data \in Builds
  BY <1>1, <1>3, ProcFacts, BuildAssumption DEF Lookup, DiskTyped, Whole, IndexWhole, Processes,
                                                 Staged, Undisturbed
<1>9. app' = app \/ (p \notin disturbed => Made(app', source))
  BY <1>1, <1>3, ProcFacts DEF Lookup, Near
<1>10. disturbed' = disturbed \/ disturbed' = disturbed \cup Active
  BY DEF Lookup
<1>11. installs = MaxInstalls => FilesWith' /\ With(app') /\ With(r.data) /\ RanWith(r.ran)
  BY <1>1, <1>3, ProcFacts DEF Lookup, DiskTyped, Processes, FilesWith, With, RanWith
<1> HIDE DEF r
<1> QED
  BY <1>10, <1>1, <1>2, <1>3, <1>4, <1>5, <1>6, <1>7, <1>8, <1>9, <1>11, StepKeeps

(* What is written to app.abc, and run, is what the process carries.       *)
LEMMA WriteAppInv ==
    ASSUME BuildInv, NEW p \in Procs, WriteApp(p)
    PROVE  BuildInv'
<1> DEFINE q == proc[p]
           r == [q EXCEPT !.pc = IF q.pc = "emitting" /\ q.session /\ q.args.inc THEN "readback" ELSE "drop",
                           !.ran = IF q.data = Torn THEN None
                                   ELSE IF q.pc = "copying" THEN Unlinked(q.data) ELSE Linked(q.data)]
<1>1. /\ q \in Processes /\ Staged(q) /\ DiskTyped /\ q.pc \in {"copying", "emitting"}
      /\ proc \in [Procs -> Processes \cup {Idle}]
  BY ProcFacts DEF WriteApp
<1>2. Becomes(p, r)
  BY <1>1 DEF WriteApp, Becomes, Goto
<1>3. UNCHANGED <<source, external, args, index, files, changes, installs, faults, overlaps, disturbed, stale>>
  BY DEF WriteApp, userVars, diskVars, faultVars, historyVars
<1>20. q.data = Torn \/ q.data \in Builds
  BY <1>1 DEF Staged, Processes, Bytes
<1>21. PICK x \in Runs \cup {None}, to \in {"readback", "drop"} :
         /\ r = [q EXCEPT !.pc = to, !.ran = x]
         /\ to = "readback" => q.pc = "emitting" /\ q.session
         /\ x # None => /\ q.data \in Builds /\ x.build = q.data
                        /\ x.linked \in {q.data.external, NoExternals}
  <2> DEFINE y == IF q.data = Torn THEN None
                  ELSE IF q.pc = "copying" THEN Unlinked(q.data) ELSE Linked(q.data)
  <2>1. /\ y \in Runs \cup {None}
        /\ y # None => /\ q.data \in Builds /\ y.build = q.data
                       /\ y.linked \in {q.data.external, NoExternals}
    BY <1>20, BuildAssumption DEF Runs, Builds, Linked, Unlinked
  <2>2. r = [q EXCEPT !.pc = IF q.pc = "emitting" /\ q.session /\ q.args.inc THEN "readback" ELSE "drop",
                      !.ran = y]
    OBVIOUS
  <2> HIDE DEF y, r
  <2> QED
    BY <2>1, <2>2
<1> HIDE DEF r
<1>22. q = proc[p]
  OBVIOUS
<1> HIDE DEF q
<1>23. /\ r \in Processes /\ r.pc = to /\ r.ran = x /\ r.data = q.data /\ r.fp = q.fp
       /\ r.session = q.session /\ r.dirty = q.dirty /\ r.entry = q.entry
  BY <1>1, <1>21 DEF Processes, ProcStates
<1>4. r \in Processes /\ Staged(r)
  BY <1>1, <1>21, <1>23 DEF Staged, Opened, Building, Processes
<1>26. app' = q.data
  BY <1>22 DEF WriteApp
<1>24. /\ p \notin disturbed => q.fp \in {None, source} /\ Near(q.data)
       /\ installs = MaxInstalls => FilesWith /\ With(q.data)
  BY <1>1, <1>22, ProcFacts DEF WriteApp
<1>25. None \notin Builds /\ Torn \notin Builds
  BY BuildAssumption DEF Builds
<1>5. DiskTyped'
  BY <1>1, <1>3, <1>26 DEF DiskTyped, Processes
<1>6. \A f \in Sources \ stale' : Made(files'[f], f)
  BY <1>1, <1>3, ProcFacts DEF WriteApp, DiskTyped, Near
<1>7. p \notin disturbed' =>
        /\ r.fp \in {None, source} /\ Near(r.data) /\ RanNear(r.ran)
        /\ r.pc = "readback" => Made(app', source)
  BY <1>3, <1>21, <1>23, <1>24, <1>25, <1>26 DEF Near, RanNear, Made
<1>8. Undisturbed' =>
        /\ Undisturbed
        /\ ~r.dirty => IndexWhole'
        /\ Whole(files', r.entry)
        /\ r.pc = "readback" => app' \in Builds
        /\ r.pc \in {"store", "storing"} => r.data \in Builds
  BY <1>1, <1>3, <1>21, <1>22, <1>23, <1>26, ProcFacts DEF WriteApp, Whole, IndexWhole, Staged, Undisturbed
<1>9. app' = app \/ (p \notin disturbed => Made(app', source))
  BY <1>1, <1>3, <1>22, <1>26, ProcFacts DEF WriteApp, Near
<1>11. installs = MaxInstalls => FilesWith' /\ With(app') /\ With(r.data) /\ RanWith(r.ran)
  <2>1. None \notin Runs
    BY BuildAssumption DEF Runs, Builds
  <2>2. installs = MaxInstalls => FilesWith' /\ With(app') /\ With(r.data)
    BY <1>3, <1>23, <1>24, <1>26 DEF FilesWith, With
  <2>3. installs = MaxInstalls => RanWith(r.ran)
    BY <1>21, <1>23, <1>24, <2>1 DEF With, RanWith
  <2> QED
    BY <2>2, <2>3
<1> QED
  BY <1>1, <1>2, <1>3, <1>4, <1>22, <1>5, <1>6, <1>7, <1>8, <1>9, <1>11, StepKeeps

(* mark_compiled: app.abc is read back, and nobody else wrote it unless    *)
(* processes overlapped.                                                   *)
LEMMA MarkCompiledInv ==
    ASSUME BuildInv, NEW p \in Procs, MarkCompiled(p)
    PROVE  BuildInv'
<1> DEFINE q == proc[p]
           r == [q EXCEPT !.pc = "store", !.data = app, !.dirty = TRUE,
                           !.entry = [fp |-> q.fp, stored |-> FALSE]]
<1>1. /\ q \in Processes /\ Staged(q) /\ DiskTyped /\ q.pc = "readback"
      /\ proc \in [Procs -> Processes \cup {Idle}]
  BY ProcFacts DEF MarkCompiled
<1>2. Becomes(p, r)
  BY <1>1 DEF MarkCompiled, Becomes, Goto
<1>3. UNCHANGED <<source, external, args, index, files, app, changes, installs, faults, overlaps, disturbed, stale>>
  BY DEF MarkCompiled, userVars, diskVars, faultVars, historyVars
<1>4. r \in Processes /\ Staged(r)
  BY <1>1 DEF Processes, ProcStates, Staged, Opened, Building, DiskTyped, Entries, Bytes
<1>5. DiskTyped'
  BY <1>1, <1>3 DEF MarkCompiled, DiskTyped, Bytes
<1>6. \A f \in Sources \ stale' : Made(files'[f], f)
  BY <1>1, <1>3, ProcFacts DEF MarkCompiled, DiskTyped, Near
<1>7. p \notin disturbed' =>
        /\ r.fp \in {None, source} /\ Near(r.data) /\ RanNear(r.ran)
        /\ r.pc = "readback" => Made(app', source)
  BY <1>1, <1>3, ProcFacts DEF MarkCompiled, DiskTyped, Near, Processes
<1>8. Undisturbed' =>
        /\ Undisturbed
        /\ ~r.dirty => IndexWhole'
        /\ Whole(files', r.entry)
        /\ r.pc = "readback" => app' \in Builds
        /\ r.pc \in {"store", "storing"} => r.data \in Builds
  BY <1>1, <1>3, ProcFacts, BuildAssumption DEF MarkCompiled, DiskTyped, Whole, IndexWhole, Processes,
                                                 Staged, Undisturbed
<1>9. app' = app \/ (p \notin disturbed => Made(app', source))
  BY <1>1, <1>3, ProcFacts DEF MarkCompiled, Near
<1>11. installs = MaxInstalls => FilesWith' /\ With(app') /\ With(r.data) /\ RanWith(r.ran)
  BY <1>1, <1>3, ProcFacts DEF MarkCompiled, DiskTyped, Processes, FilesWith, With, RanWith
<1> HIDE DEF r
<1> QED
  BY <1>1, <1>2, <1>3, <1>4, <1>5, <1>6, <1>7, <1>8, <1>9, <1>11, StepKeeps

(* store_bytecode: the artifact is torn until it is written; the index on  *)
(* disk may name it only while this process has it unsaved.                *)
LEMMA CreateArtifactInv ==
    ASSUME BuildInv, NEW p \in Procs, CreateArtifact(p)
    PROVE  BuildInv'
<1> DEFINE q == proc[p]
           r == [q EXCEPT !.pc = "storing"]
<1>1. /\ q \in Processes /\ Staged(q) /\ DiskTyped /\ q.pc = "store"
      /\ proc \in [Procs -> Processes \cup {Idle}]
  BY ProcFacts DEF CreateArtifact
<1>2. Becomes(p, r)
  BY <1>1 DEF CreateArtifact, Becomes, Goto
<1>3. UNCHANGED <<source, external, args, index, app, changes, installs, faults, overlaps, disturbed, stale>>
  BY DEF CreateArtifact, userVars, diskVars, faultVars, historyVars
<1>4. r \in Processes /\ Staged(r)
  BY <1>1 DEF Processes, ProcStates, Staged, Opened, Building, DiskTyped, Entries
<1>5. DiskTyped'
  BY <1>1, <1>3 DEF CreateArtifact, DiskTyped, Bytes
<1>6. \A f \in Sources \ stale' : Made(files'[f], f)
  BY <1>1, <1>3, ProcFacts DEF CreateArtifact, DiskTyped, Near, Made
<1>7. p \notin disturbed' =>
        /\ r.fp \in {None, source} /\ Near(r.data) /\ RanNear(r.ran)
        /\ r.pc = "readback" => Made(app', source)
  BY <1>1, <1>3, ProcFacts DEF CreateArtifact, DiskTyped, Near, Processes
<1>8. Undisturbed' =>
        /\ Undisturbed
        /\ ~r.dirty => IndexWhole'
        /\ Whole(files', r.entry)
        /\ r.pc = "readback" => app' \in Builds
        /\ r.pc \in {"store", "storing"} => r.data \in Builds
  BY <1>1, <1>3, ProcFacts, BuildAssumption DEF CreateArtifact, DiskTyped, Whole, IndexWhole, Processes,
                                                 Staged, Undisturbed
<1>9. app' = app \/ (p \notin disturbed => Made(app', source))
  BY <1>1, <1>3, ProcFacts DEF CreateArtifact, Near
<1>11. installs = MaxInstalls => FilesWith' /\ With(app') /\ With(r.data) /\ RanWith(r.ran)
  BY <1>1, <1>3, ProcFacts, BuildAssumption
     DEF CreateArtifact, DiskTyped, Processes, FilesWith, With, RanWith, Builds
<1> HIDE DEF r
<1> QED
  BY <1>1, <1>2, <1>3, <1>4, <1>5, <1>6, <1>7, <1>8, <1>9, <1>11, StepKeeps

(* store_bytecode: the artifact is whole, and stale if its process met an  *)
(* edit.                                                                   *)
LEMMA WriteArtifactInv ==
    ASSUME BuildInv, NEW p \in Procs, WriteArtifact(p)
    PROVE  BuildInv'
<1> DEFINE q == proc[p]
           r == [q EXCEPT !.pc = "drop", !.entry.stored = TRUE]
<1>1. /\ q \in Processes /\ Staged(q) /\ DiskTyped /\ q.pc = "storing"
      /\ proc \in [Procs -> Processes \cup {Idle}]
  BY ProcFacts DEF WriteArtifact
<1>2. Becomes(p, r)
  BY <1>1 DEF WriteArtifact, Becomes, Goto
<1>3. UNCHANGED <<source, external, args, index, app, changes, installs, faults, overlaps, disturbed>>
  BY DEF WriteArtifact, userVars, diskVars, faultVars, historyVars
<1>4. r \in Processes /\ Staged(r)
  <2> DEFINE e == [q.entry EXCEPT !.stored = TRUE]
  <2>1. q.entry \in [fp : Sources, stored : BOOLEAN]
    BY <1>1 DEF Staged
  <2>2. e \in [fp : Sources, stored : BOOLEAN]
    BY <2>1
  <2>3. r = [q EXCEPT !.pc = "drop", !.entry = e]
    BY <1>1 DEF Processes
  <2> HIDE DEF q, r, e
  <2>4. r \in Processes
    BY <1>1, <2>2, <2>3 DEF Processes, ProcStates, Entries
  <2>5. r.pc = "drop" /\ r.session = q.session /\ r.dirty = q.dirty
    BY <1>1, <2>3 DEF Processes
  <2> QED
    BY <1>1, <2>4, <2>5 DEF Staged, Opened, Building, Processes
<1>5. DiskTyped'
  <2>1. q.data \in Bytes /\ q.fp \in Sources
    BY <1>1 DEF Processes, Staged, Opened, Building
  <2>2. files' \in [Sources -> Bytes] /\ stale' \subseteq Sources
    BY <1>1, <2>1 DEF WriteArtifact, DiskTyped
  <2> HIDE DEF q, r
  <2> QED
    BY <1>1, <1>3, <2>2 DEF DiskTyped
<1>6. \A f \in Sources \ stale' : Made(files'[f], f)
  <2> SUFFICES ASSUME NEW f \in Sources \ stale'
               PROVE  Made(files'[f], f)
    OBVIOUS
  <2>1. q.fp \in Sources
    BY <1>1 DEF Staged, Opened, Building
  <2>2. CASE f = q.fp
    <3>1. p \notin disturbed
      BY <1>1, <2>1, <2>2 DEF WriteArtifact, DiskTyped
    <3>2. q.fp = source /\ Made(q.data, source)
      BY <1>1, <2>1, <3>1, ProcFacts, BuildAssumption DEF Near, Made, WriteArtifact
    <3> QED
      BY <1>1, <2>2, <3>2 DEF WriteArtifact, DiskTyped
  <2>3. CASE f # q.fp
    <3>1. f \notin stale /\ files'[f] = files[f]
      BY <1>1, <2>3 DEF WriteArtifact, DiskTyped
    <3> QED
      BY <1>1, <3>1, ProcFacts DEF WriteArtifact
  <2> QED
    BY <2>2, <2>3
<1>7. p \notin disturbed' =>
        /\ r.fp \in {None, source} /\ Near(r.data) /\ RanNear(r.ran)
        /\ r.pc = "readback" => Made(app', source)
  BY <1>1, <1>3, ProcFacts DEF WriteArtifact, DiskTyped, Near, Processes
<1>8. Undisturbed' =>
        /\ Undisturbed
        /\ ~r.dirty => IndexWhole'
        /\ Whole(files', r.entry)
        /\ r.pc = "readback" => app' \in Builds
        /\ r.pc \in {"store", "storing"} => r.data \in Builds
  BY <1>1, <1>3, ProcFacts, BuildAssumption DEF WriteArtifact, DiskTyped, Whole, IndexWhole, Processes,
                                                 Staged, Undisturbed
<1>9. app' = app \/ (p \notin disturbed => Made(app', source))
  BY <1>1, <1>3, ProcFacts DEF WriteArtifact, Near
<1>11. installs = MaxInstalls => FilesWith' /\ With(app') /\ With(r.data) /\ RanWith(r.ran)
  BY <1>1, <1>3, ProcFacts DEF WriteArtifact, DiskTyped, Processes, FilesWith, With, RanWith
<1> HIDE DEF r
<1> QED
  BY <1>1, <1>2, <1>3, <1>4, <1>5, <1>6, <1>7, <1>8, <1>9, <1>11, StepKeeps

(* ProjectCache::gc: the entry leaves the memory with its artifact.        *)
LEMMA GcInv ==
    ASSUME BuildInv, NEW p \in Procs, Gc(p)
    PROVE  BuildInv'
<1> DEFINE q == proc[p]
<1>1. /\ q \in Processes /\ Staged(q) /\ DiskTyped /\ q.pc = "gc"
      /\ proc \in [Procs -> Processes \cup {Idle}]
  BY ProcFacts DEF Gc
<1>2. UNCHANGED <<source, external, args, index, app, changes, installs, faults, overlaps, disturbed, stale>>
  BY DEF Gc, userVars, faultVars, historyVars
<1>3. PICK e :
        /\ Becomes(p, [q EXCEPT !.pc = "drop", !.dirty = TRUE, !.entry = e])
        /\ \/ e = q.entry /\ files' = files
           \/ e = None /\ files' = files
           \/ /\ e = None /\ q.entry # None
              /\ files' = [files EXCEPT ![q.entry.fp] = None]
  <2>1. PICK old \in BOOLEAN :
           IF old /\ q.entry # None
           THEN /\ files' = IF q.entry.stored THEN [files EXCEPT ![q.entry.fp] = None] ELSE files
                /\ proc' = [proc EXCEPT ![p].pc = "drop", ![p].dirty = TRUE, ![p].entry = None]
           ELSE /\ proc' = [proc EXCEPT ![p].pc = "drop", ![p].dirty = TRUE]
                /\ UNCHANGED files
    BY DEF Gc
  <2>2. CASE old /\ q.entry # None
    <3>1. Becomes(p, [q EXCEPT !.pc = "drop", !.dirty = TRUE, !.entry = None])
      BY <1>1, <2>1, <2>2 DEF Becomes
    <3>2. files' = files \/ files' = [files EXCEPT ![q.entry.fp] = None]
      BY <2>1, <2>2
    <3> HIDE DEF q
    <3> QED
      BY <2>2, <3>1, <3>2
  <2>3. CASE ~(old /\ q.entry # None)
    <3>1. [q EXCEPT !.pc = "drop", !.dirty = TRUE, !.entry = q.entry]
            = [q EXCEPT !.pc = "drop", !.dirty = TRUE]
      BY <1>1 DEF Processes
    <3>2. Becomes(p, [q EXCEPT !.pc = "drop", !.dirty = TRUE])
      BY <1>1, <2>1, <2>3 DEF Becomes
    <3>3. files' = files
      BY <2>1, <2>3
    <3> HIDE DEF q
    <3> QED
      BY <3>1, <3>2, <3>3
  <2> QED
    BY <2>2, <2>3
<1> DEFINE r == [q EXCEPT !.pc = "drop", !.dirty = TRUE, !.entry = e]
<1>4. r \in Processes /\ Staged(r) /\ e \in Entries
  BY <1>1, <1>3 DEF Processes, ProcStates, Staged, Opened, Building, Entries
<1>5. DiskTyped'
  BY <1>1, <1>2, <1>3 DEF DiskTyped, Bytes
<1>6. \A f \in Sources \ stale' : Made(files'[f], f)
  BY <1>1, <1>2, <1>3, ProcFacts DEF Gc, DiskTyped, Made
<1>7. p \notin disturbed' =>
        /\ r.fp \in {None, source} /\ Near(r.data) /\ RanNear(r.ran)
        /\ r.pc = "readback" => Made(app', source)
  BY <1>1, <1>2, ProcFacts DEF Gc, Processes
<1>8. Undisturbed' =>
        /\ Undisturbed
        /\ ~r.dirty => IndexWhole'
        /\ Whole(files', r.entry)
        /\ r.pc = "readback" => app' \in Builds
        /\ r.pc \in {"store", "storing"} => r.data \in Builds
  BY <1>1, <1>2, <1>3, ProcFacts DEF Gc, Processes, Whole, Undisturbed
<1>11. installs = MaxInstalls => FilesWith' /\ With(app') /\ With(r.data) /\ RanWith(r.ran)
  BY <1>1, <1>2, <1>3, ProcFacts DEF Gc, DiskTyped, Processes, FilesWith, With, RanWith
<1> HIDE DEF r
<1> QED
  BY <1>1, <1>2, <1>3, <1>4, <1>5, <1>6, <1>7, <1>8, <1>11, StepKeeps DEF r

(* A failure ends the claims about a machine on which nothing went wrong.   *)
LEMMA FaultSpoils ==
    ASSUME DiskTyped, Fault
    PROVE  /\ ~Undisturbed' /\ overlaps' = overlaps /\ faults' \in 0 .. MaxFaults
BY BuildAssumption DEF DiskTyped, Fault, Undisturbed

(* A command that fails for another reason goes on to drop its session.    *)
LEMMA FailInv ==
    ASSUME BuildInv, NEW p \in Procs, LoadFails(p) \/ StoreFails(p)
    PROVE  BuildInv'
<1> DEFINE q == proc[p]
           r == [q EXCEPT !.pc = "drop"]
<1>1. /\ q \in Processes /\ Staged(q) /\ DiskTyped /\ q.pc \in {"load", "storing"}
      /\ proc \in [Procs -> Processes \cup {Idle}]
  BY ProcFacts DEF LoadFails, StoreFails
<1>2. Becomes(p, r)
  BY <1>1 DEF LoadFails, StoreFails, Becomes, Goto
<1>3. UNCHANGED <<source, external, args, index, files, app, changes, installs, overlaps, disturbed, stale>> /\ Fault
  BY DEF LoadFails, StoreFails, Fault, userVars, diskVars, historyVars
<1>4. r \in Processes /\ Staged(r)
  BY <1>1 DEF Processes, ProcStates, Staged, Opened, Building
<1>5. DiskTyped' /\ ~Undisturbed'
  BY <1>1, <1>3, FaultSpoils DEF DiskTyped
<1>6. \A f \in Sources \ stale' : Made(files'[f], f)
  BY <1>1, <1>3, ProcFacts
<1>7. p \notin disturbed' =>
        /\ r.fp \in {None, source} /\ Near(r.data) /\ RanNear(r.ran)
        /\ r.pc = "readback" => Made(app', source)
  BY <1>1, <1>3, ProcFacts DEF Processes
<1>8. installs = MaxInstalls => FilesWith' /\ With(app') /\ With(r.data) /\ RanWith(r.ran)
  BY <1>1, <1>3, ProcFacts DEF Processes, FilesWith, With
<1> HIDE DEF r
<1> QED
  BY <1>1, <1>2, <1>3, <1>4, <1>5, <1>6, <1>7, <1>8, StepKeeps

(* A process that dies takes nothing with it but its memory.               *)
LEMMA CrashInv ==
    ASSUME BuildInv, NEW p \in Procs, Crash(p)
    PROVE  BuildInv'
<1>1. proc[p].pc # "idle" /\ DiskTyped
  BY ProcFacts DEF Crash, Active, BuildInv, Typed
<1>2. Becomes(p, Idle)
  BY DEF Crash, Becomes, Exited
<1>3. UNCHANGED <<source, external, args, index, files, app, changes, installs, overlaps, disturbed, stale>> /\ Fault
  BY DEF Crash, Fault, userVars, diskVars, historyVars
<1>4. DiskTyped' /\ ~Undisturbed'
  BY <1>1, <1>3, FaultSpoils DEF DiskTyped
<1> QED
  BY <1>1, <1>2, <1>3, <1>4, LeaveKeeps

(* The session is dropped: an unsaved index is created, or the process     *)
(* exits.                                                                  *)
LEMMA DropInv ==
    ASSUME BuildInv, NEW p \in Procs, DropSession(p)
    PROVE  BuildInv'
<1> DEFINE q == proc[p]
           r == [q EXCEPT !.pc = "saving"]
<1>1. /\ q \in Processes /\ Staged(q) /\ DiskTyped /\ q.pc = "drop"
      /\ proc \in [Procs -> Processes \cup {Idle}]
  BY ProcFacts DEF DropSession
<1>2. UNCHANGED <<source, external, args, files, app, changes, installs, faults, overlaps, disturbed, stale>>
  BY DEF DropSession, userVars, faultVars, historyVars
<1>3. CASE q.session /\ q.dirty
  <2>1. Becomes(p, r) /\ index' = Torn
    BY <1>1, <1>3 DEF DropSession, Becomes, Goto
  <2>2. r \in Processes /\ Staged(r)
    BY <1>1, <1>3 DEF Processes, ProcStates, Staged, Opened, Building
  <2>3. DiskTyped'
    BY <1>1, <1>2, <2>1 DEF DiskTyped
  <2>4. \A f \in Sources \ stale' : Made(files'[f], f)
    BY <1>1, <1>2, ProcFacts
  <2>5. p \notin disturbed' =>
          /\ r.fp \in {None, source} /\ Near(r.data) /\ RanNear(r.ran)
          /\ r.pc = "readback" => Made(app', source)
    BY <1>1, <1>2, ProcFacts DEF Processes
  <2>6. Undisturbed' =>
          /\ Undisturbed
          /\ ~r.dirty => IndexWhole'
          /\ Whole(files', r.entry)
          /\ r.pc = "readback" => app' \in Builds
          /\ r.pc \in {"store", "storing"} => r.data \in Builds
    BY <1>1, <1>2, <1>3, ProcFacts DEF Processes, Undisturbed
  <2>7. installs = MaxInstalls => FilesWith' /\ With(app') /\ With(r.data) /\ RanWith(r.ran)
    BY <1>1, <1>2, ProcFacts DEF Processes, FilesWith, With
  <2> HIDE DEF r
  <2> QED
    BY <1>1, <1>2, <2>1, <2>2, <2>3, <2>4, <2>5, <2>6, <2>7, StepKeeps
<1>4. CASE ~(q.session /\ q.dirty)
  <2>1. Becomes(p, Idle) /\ index' = index
    BY <1>1, <1>4 DEF DropSession, Becomes, Exited
  <2>2. DiskTyped'
    BY <1>1, <1>2, <2>1 DEF DiskTyped
  <2>3. ~q.dirty
    BY <1>1, <1>4 DEF Staged
  <2>4. Undisturbed' => Undisturbed /\ IndexWhole'
    BY <1>1, <1>2, <2>1, <2>3, ProcFacts DEF Undisturbed, IndexWhole
  <2> QED
    BY <1>1, <1>2, <2>1, <2>2, <2>4, LeaveKeeps
<1> QED
  BY <1>3, <1>4

(* The index is written: it names only what is whole.                      *)
LEMMA WriteIndexInv ==
    ASSUME BuildInv, NEW p \in Procs, WriteIndex(p)
    PROVE  BuildInv'
<1> DEFINE q == proc[p]
<1>1. /\ q \in Processes /\ Staged(q) /\ DiskTyped /\ q.pc = "saving"
      /\ proc \in [Procs -> Processes \cup {Idle}]
  BY ProcFacts DEF WriteIndex
<1>2. UNCHANGED <<source, external, args, files, app, changes, installs, faults, overlaps, disturbed, stale>>
  BY DEF WriteIndex, userVars, faultVars, historyVars
<1>3. Becomes(p, Idle) /\ index' = [level |-> q.args.level, entry |-> q.entry]
  BY DEF WriteIndex, Becomes, Exited
<1>4. index' \in [level : Levels, entry : Entries]
  BY <1>1, <1>3, BuildAssumption DEF Processes
<1>5. index' # Torn /\ index'.entry = q.entry
  BY <1>3, <1>4, BuildAssumption DEF Entries
<1>6. DiskTyped'
  BY <1>1, <1>2, <1>4 DEF DiskTyped
<1>7. Undisturbed' => Undisturbed /\ IndexWhole'
  BY <1>1, <1>2, <1>5, ProcFacts DEF Undisturbed, IndexWhole
<1> QED
  BY <1>1, <1>2, <1>3, <1>6, <1>7, LeaveKeeps

-----------------------------------------------------------------------------
(* ProjectCache::open: what was whole on disk is whole in memory.          *)
LEMMA OpenInv ==
    ASSUME BuildInv, NEW p \in Procs, Open(p)
    PROVE  BuildInv'
<1> DEFINE first == IF args.cmd = "gc" THEN "gc"
                    ELSE IF args.clean \/ args.cmd = "clean" THEN "clear" ELSE "load"
           e == IF ~Unreadable /\ Compatible(args.level) THEN index.entry ELSE None
           r == [pc |-> IF Unreadable THEN "check" ELSE first, args |-> args,
                 session |-> ~Unreadable, entry |-> e, dirty |-> FALSE, fp |-> None,
                 data |-> None, ran |-> None]
<1>1. Typed /\ Calm /\ Alone /\ Settled /\ DiskTyped
  BY DEF BuildInv, Typed
<1>2. /\ UNCHANGED <<source, external, args, index, files, app, changes, installs, faults, stale>>
      /\ proc[p] = Idle /\ proc' = [proc EXCEPT ![p] = r]
      /\ IF Active = {} THEN UNCHANGED overlaps ELSE overlaps > 0 /\ overlaps' = overlaps - 1
      /\ disturbed' = IF disturbed \cap Active = {} THEN disturbed \ {p}
                                                    ELSE disturbed \cup {p}
  BY DEF Open, userVars, diskVars
<1>3. e \in Entries /\ (e # None => index # None /\ index # Torn /\ e = index.entry)
  BY <1>1, BuildAssumption DEF DiskTyped, Unreadable, Compatible, Entries
<1>4. /\ r \in Processes /\ r.pc \in {"gc", "clear", "load", "check"} /\ r.entry = e /\ ~r.dirty
      /\ r.fp = None /\ r.data = None /\ r.ran = None
      /\ r.session = ~Unreadable /\ r.pc # "check" => ~Unreadable
  <2>1. r.pc \in {"gc", "clear", "load", "check"} /\ r.pc # "check" => ~Unreadable
    OBVIOUS
  <2>2. (~Unreadable) \in BOOLEAN /\ args \in Commands
    BY <1>1 DEF DiskTyped
  <2>3. r \in Processes
    BY <1>3, <2>1, <2>2 DEF Processes, ProcStates, Bytes
  <2> QED
    BY <2>1, <2>3
<1>5. Staged(r)
  BY <1>4, BuildAssumption DEF Staged, Opened, Building
<1> HIDE DEF r
<1>6. /\ proc' \in [Procs -> Processes \cup {Idle}]
      /\ Active' = Active \cup {p} /\ proc'[p] = r /\ p \notin Active
      /\ \A q \in Active : proc'[q] = proc[q]
  BY <1>1, <1>2, <1>4 DEF Typed, Active, Processes, ProcStates, Idle
<1>7. DiskTyped'
  BY <1>1, <1>2, BuildAssumption DEF DiskTyped
<1>8. Typed'
  BY <1>1, <1>5, <1>6, <1>7 DEF Typed
<1>9. Calm'
  <2>1. Active' \subseteq disturbed' \/ Active' \cap disturbed' = {}
    BY <1>1, <1>2, <1>6 DEF Calm
  <2>2. ASSUME NEW q \in Active' \ disturbed'
        PROVE  /\ proc'[q].fp \in {None, source'} /\ Near(proc'[q].data)
               /\ RanNear(proc'[q].ran)
               /\ proc'[q].pc = "readback" => Near(app)
    <3>1. CASE q = p
      BY <1>4, <1>6, <3>1 DEF Near, Made, RanNear
    <3>2. CASE q # p
      <4>1. q \in Active \ disturbed /\ proc'[q] = proc[q]
        BY <1>2, <1>6, <2>2, <3>2
      <4> QED
        BY <1>1, <1>2, <4>1 DEF Calm
    <3> QED
      BY <3>1, <3>2
  <2> QED
    BY <1>1, <1>2, <2>1, <2>2 DEF Calm, Near, Made, RanNear
<1>10. Alone'
  <2> SUFFICES ASSUME Undisturbed'
               PROVE  /\ \A q, s \in Active' : q = s
                      /\ Active' = {} => IndexWhole'
                      /\ \A q \in Active' :
                           /\ ~proc'[q].dirty => IndexWhole'
                           /\ Whole(files', proc'[q].entry)
                           /\ proc'[q].pc = "readback" => app' \in Builds
                           /\ proc'[q].pc \in {"store", "storing"} => proc'[q].data \in Builds
    BY DEF Alone
  <2>1. Undisturbed /\ Active = {}
    BY <1>1, <1>2, BuildAssumption DEF DiskTyped, Undisturbed
  <2>2. IndexWhole
    BY <1>1, <2>1 DEF Alone
  <2>3. Whole(files, e)
    BY <1>3, <2>2 DEF IndexWhole, Whole
  <2>4. IndexWhole'
    BY <1>2, <2>2 DEF IndexWhole
  <2> QED
    BY <1>2, <1>4, <1>6, <2>1, <2>3, <2>4
<1>11. Settled'
  <2>1. external' = external /\ installs' = installs
    BY DEF Open, userVars
  <2>2. proc'[p].data = None /\ proc'[p].ran = None /\ None \notin Builds /\ None \notin Runs
    BY <1>4, <1>6, BuildAssumption DEF Builds, Runs
  <2> QED
    BY <1>1, <1>2, <1>6, <2>1, <2>2 DEF Settled, FilesWith, With, RanWith
<1> QED
  BY <1>8, <1>9, <1>10, <1>11 DEF BuildInv

(* An edit disturbs everybody at work; new arguments disturb nobody.       *)
LEMMA UserInv ==
    ASSUME BuildInv, Edit \/ Install \/ NewArgs
    PROVE  BuildInv'
<1>1. Typed /\ Calm /\ Alone /\ Settled /\ DiskTyped
  BY DEF BuildInv, Typed
<1>2. /\ UNCHANGED <<index, files, app, proc, faults, overlaps, stale>>
      /\ source' \in Sources /\ external' \in Externals /\ args' \in Commands
      /\ changes' \in 0 .. MaxChanges /\ installs' \in 0 .. MaxInstalls
      /\ \/ disturbed' = disturbed \cup Active
         \/ disturbed' = disturbed /\ source' = source
      /\ Active' = Active
  BY <1>1, BuildAssumption DEF Edit, Install, NewArgs, diskVars, faultVars, historyVars, DiskTyped, Active
<1>3. Typed'
  BY <1>1, <1>2 DEF Typed, DiskTyped, Active
<1>4. Calm'
  BY <1>1, <1>2 DEF Calm, Near, Made, RanNear
<1>5. Alone'
  BY <1>1, <1>2 DEF Alone, Undisturbed, IndexWhole
<1>6. Settled'
  <2>1. installs' = MaxInstalls => installs = MaxInstalls /\ external' = external
    BY <1>1, BuildAssumption DEF Edit, Install, NewArgs, DiskTyped
  <2> QED
    BY <1>1, <1>2, <2>1 DEF Settled, FilesWith, With, RanWith
<1> QED
  BY <1>3, <1>4, <1>5, <1>6 DEF BuildInv

(* BuildSpec => []BuildSafe: for any sources, commands and processes, and  *)
(* any number of edits, failures and overlaps, a cached build that met no  *)
(* edit runs a program of the sources it fingerprinted, in a project       *)
(* without packages the very program a compiler would run, and a cache     *)
(* that only ran undisturbed always decodes (cmd_build_with_options,       *)
(* ProjectCache).                                                          *)
THEOREM BuildIsSafe == BuildSpec => []BuildSafe
<1>1. BuildInit => BuildInv
  <2> SUFFICES ASSUME BuildInit
               PROVE  BuildInv
    OBVIOUS
  <2>1. Active = {} /\ proc \in [Procs -> Processes \cup {Idle}]
    BY DEF BuildInit, Active, Idle
  <2>2. DiskTyped
    BY BuildAssumption DEF BuildInit, DiskTyped, Bytes
  <2>3. IndexWhole
    BY BuildAssumption DEF BuildInit, IndexWhole
  <2> QED
    BY <2>1, <2>2, <2>3, BuildAssumption
       DEF BuildInit, BuildInv, Typed, Calm, Alone, Made, Settled, FilesWith, With, Builds
<1>2. BuildInv /\ [BuildNext]_buildVars => BuildInv'
  <2> SUFFICES ASSUME BuildInv, [BuildNext]_buildVars
               PROVE  BuildInv'
    OBVIOUS
  <2>1. CASE Edit \/ Install \/ NewArgs
    BY <2>1, UserInv
  <2>2. ASSUME NEW p \in Procs, ProcStep(p) \/ LoadFails(p) \/ StoreFails(p) \/ Crash(p)
        PROVE  BuildInv'
    BY <2>2, OpenInv, ClearInv, GcInv, LoadInv, LookupInv, CheckInv, CompileInv, CreateAppInv,
       WriteAppInv, MarkCompiledInv, CreateArtifactInv, WriteArtifactInv, DropInv,
       WriteIndexInv, FailInv, CrashInv
       DEF ProcStep
  <2>3. CASE UNCHANGED buildVars
    <3>1. UNCHANGED <<source, external, args, index, files, app, proc, changes, installs, faults, overlaps,
                      disturbed, stale>>
      BY <2>3 DEF buildVars, userVars, diskVars, faultVars, historyVars
    <3> QED
      BY <3>1 DEF BuildInv, Typed, DiskTyped, Calm, Near, RanNear, Alone, Undisturbed, IndexWhole, Active,
                    Settled, FilesWith, With, RanWith
  <2> QED
    BY <2>1, <2>2, <2>3 DEF BuildNext
<1>3. BuildInv => BuildSafe
  <2> SUFFICES ASSUME BuildInv
               PROVE  BuildSafe
    OBVIOUS
  <2>1. BuildTypeOK
    BY DEF BuildInv, Typed, DiskTyped, BuildTypeOK, Processes, Staged, Active, Idle, ProcStates
  <2>2. RunsItsSource
    BY BuildAssumption DEF BuildInv, Calm, RanNear, RunsItsSource
  <2>3. HitsDecode
    BY BuildAssumption DEF BuildInv, Alone, Undisturbed, IndexWhole, Whole, HitsDecode
  <2>4. CachedAsGoodAsNew
    <3> SUFFICES ASSUME external = NoExternals, installs = MaxInstalls, NEW p \in Active \ disturbed,
                        proc[p].fp # None, proc[p].ran # None
                 PROVE  proc[p].ran = Linked(Project)
      BY DEF CachedAsGoodAsNew
    <3>1. proc[p] \in Processes /\ RanNear(proc[p].ran) /\ RanWith(proc[p].ran)
      BY NotIdle DEF BuildInv, Calm, Settled, Active
    <3>2. PICK x \in Runs : proc[p].ran = x /\ x.build.source = source
                            /\ x.build.external = external /\ x.linked = external
      BY <3>1 DEF RanNear, RanWith
    <3>3. x.build = Project
      BY <3>2 DEF Runs, Builds, Project
    <3> QED
      BY <3>2, <3>3 DEF Runs, Linked, Project
  <2> QED
    BY <2>1, <2>2, <2>3, <2>4 DEF BuildSafe
<1> QED
  BY <1>1, <1>2, <1>3, PTL DEF BuildSpec

-----------------------------------------------------------------------------
(* The dependency graph: the order of a plan, what it recompiles, and the   *)
(* search for a cycle.                                                      *)

(* Every dependency of a package in s comes before it in s.                *)
DependenciesBefore(s) ==
    \A j \in 1 .. Len(s) : \A q \in Inner(s[j]) : \E i \in 1 .. Len(s) : i < j /\ s[i] = q

(* What the plan works on, and where it is.                                *)
GraphTyped ==
    /\ graph \in Graphs /\ changed \subseteq Nodes
    /\ phase \in {"degrees", "sort", "invalidate", "planned", "detect", "acyclic", "cyclic"}
    /\ phase = "degrees" => order = <<>>
    /\ phase = "detect" => changed = {}

(* topological_sort: the order followed by the queue lists the nodes whose *)
(* dependencies are all in the order, once each and after those; the       *)
(* in-degrees count the others.                                            *)
SortedSoFar(o, q, d) ==
    /\ o \in Seq(Nodes) /\ q \in Seq(Nodes)
    /\ Distinct(o \o q) /\ DependenciesBefore(o \o q)
    /\ \A n \in Nodes : n \in ToSet(o \o q) <=> Inner(n) \subseteq ToSet(o)
    /\ d = [n \in Nodes |-> Cardinality(Inner(n) \ ToSet(o))]

SortInv == phase = "sort" => SortedSoFar(order, queue, degree)

(* compute_build_order: all the nodes, or a cycle.                         *)
OrderInv ==
    phase \in {"invalidate", "planned"} =>
        \/ order = <<>> /\ (Cyclic \/ Nodes = {})
        \/ /\ order \in Seq(Nodes) /\ Distinct(order) /\ ToSet(order) = Nodes
           /\ DependenciesBefore(order)

(* invalidated_by: nothing but what has to be found was found, and whose   *)
(* dependents were not looked at yet is in the queue.                      *)
ReachInv ==
    phase \in {"invalidate", "planned"} =>
        /\ changed \subseteq invalidated /\ invalidated \subseteq Packages
        /\ queue \in Seq(Packages) /\ ToSet(queue) \subseteq invalidated
        /\ \A p \in invalidated \ ToSet(queue) : Dependents(p) \subseteq invalidated
        /\ \A S \in SUBSET Packages : changed \subseteq S /\ Closed(S) => invalidated \subseteq S
        /\ phase = "planned" => queue = <<>>

Done == {p \in Nodes : colour[p] = "done"}

(* detect_cycle: the nodes that are done depend on nodes that are done and *)
(* have no cycle; the path follows dependencies, and of each node on it    *)
(* what was looked at is done, up to the next node of the path.            *)
DoneInv ==
    /\ colour \in [Nodes -> {"unvisited", "in_progress", "done"}]
    /\ \A p \in Done : Inner(p) \subseteq Done
    /\ \A S \in SUBSET Done : S # {} => \E p \in S : Inner(p) \cap S = {}

PathInv ==
    /\ path \in Seq(Nodes) /\ Distinct(path)
    /\ todo \in Seq(Seq(Nodes)) /\ Len(todo) = Len(path)
    /\ \A p \in Nodes : colour[p] = "in_progress" <=> p \in ToSet(path)
    /\ \A i \in 1 .. Len(path) :
          /\ ToSet(todo[i]) \subseteq Inner(path[i])
          /\ i + 1 \in 1 .. Len(path) => path[i + 1] \in Inner(path[i])
          /\ \A q \in Inner(path[i]) :
                q \in Done \/ q \in ToSet(todo[i]) \/ (i + 1 \in 1 .. Len(path) /\ path[i + 1] = q)

CycleInv ==
    /\ phase = "detect" => DoneInv /\ PathInv
    /\ phase = "acyclic" => ~Cyclic
    /\ phase = "cyclic" =>
         /\ \A i \in 1 .. Len(path) - 1 : path[i + 1] \in Inner(path[i])
         /\ Last(path) \in ToSet(Front(path))

GraphInv == GraphTyped /\ SortInv /\ OrderInv /\ ReachInv /\ CycleInv

-----------------------------------------------------------------------------
(* The names are finitely many, and so is what is taken from them.         *)
LEMMA NamesFinite ==
    ASSUME GraphTyped
    PROVE  /\ Packages \subseteq Nat /\ IsFiniteSet(Packages)
           /\ Nodes \subseteq Packages /\ IsFiniteSet(Nodes)
           /\ \A p : Inner(p) \subseteq Nodes /\ IsFiniteSet(Inner(p))
           /\ \A p : Dependents(p) \subseteq Packages
           /\ \A S \in SUBSET Packages : IsFiniteSet(S)
<1>1. Packages \subseteq Nat /\ IsFiniteSet(Packages) /\ Nodes \subseteq Packages
  BY GraphAssumption DEF GraphTyped, Nodes
<1>2. \A S \in SUBSET Packages : IsFiniteSet(S) BY <1>1, FS_Subset
<1>3. \A p : Inner(p) \subseteq Nodes BY DEF Inner
<1>4. \A p : Dependents(p) \subseteq Packages BY DEF Dependents
<1> QED BY <1>1, <1>2, <1>3, <1>4

(* Sorted lists the elements of a set.                                     *)
LEMMA SortedLists ==
    ASSUME GraphTyped, NEW S \in SUBSET Packages
    PROVE  Sorted(S) \in Seq(S) /\ Distinct(Sorted(S)) /\ ToSet(Sorted(S)) = S
<1>1. S \subseteq Nat /\ IsFiniteSet(S) BY NamesFinite
<1>2. \E s \in SetToSeqs(S) : Ascending(s) BY <1>1, AscendingExists
<1>3. Sorted(S) \in SetToSeqs(S) BY <1>2 DEF Sorted, Ascending
<1> QED BY <1>1, <1>3, Listing

(* A set of nodes that lists before itself what it depends on has no       *)
(* cycle: the first node of a cycle would have to come after another.      *)
LEMMA ListedIsAcyclic ==
    ASSUME NEW s \in Seq(Nodes), ToSet(s) = Nodes, DependenciesBefore(s)
    PROVE  ~Cyclic
<1> SUFFICES ASSUME NEW S \in SUBSET Nodes, S # {}, \A p \in S : Inner(p) \cap S # {}
             PROVE FALSE
  BY DEF Cyclic
<1> DEFINE At == {i \in 1 .. Len(s) : s[i] \in S}
<1>1. \A p \in S : \E i \in 1 .. Len(s) : s[i] = p BY DEF ToSet
<1>2. At # {} /\ At \subseteq Nat BY <1>1
<1>3. PICK i \in At : \A k \in At : i <= k
  <2> HIDE DEF At
  <2> QED BY <1>2, LeastNumber
<1>4. PICK q \in Inner(s[i]) : q \in S OBVIOUS
<1>5. PICK k \in 1 .. Len(s) : k < i /\ s[k] = q BY <1>4 DEF DependenciesBefore
<1>6. k \in At /\ k \in Nat /\ i \in Nat BY <1>4, <1>5
<1> QED BY <1>3, <1>5, <1>6

(* Both beginnings satisfy the invariant.                                  *)
LEMMA InitGraphInv == GraphInit => GraphInv
<1> SUFFICES ASSUME GraphInit PROVE GraphInv OBVIOUS
<1>1. GraphTyped BY DEF GraphInit, GraphTyped, Nodes
<1>2. DoneInv
  <2>1. Done = {} BY DEF GraphInit, Done, Nodes
  <2> QED BY <2>1 DEF GraphInit, DoneInv, Nodes
<1>3. PathInv
  <2>1. <<>> \in Seq(Nodes) /\ <<>> \in Seq(Seq(Nodes)) /\ Len(<<>>) = 0 /\ ToSet(<<>>) = {}
    BY DEF ToSet
  <2>2. \A p \in Nodes : colour[p] # "in_progress" BY DEF GraphInit, Nodes
  <2> QED BY <2>1, <2>2 DEF GraphInit, PathInv, Distinct
<1> QED BY <1>1, <1>2, <1>3 DEF GraphInit, GraphInv, SortInv, OrderInv, ReachInv, CycleInv

(* The graph stays as it is.                                               *)
LEMMA SameGraph ==
    ASSUME UNCHANGED graph
    PROVE  /\ Nodes' = Nodes /\ \A p : Inner(p)' = Inner(p) /\ Dependents(p)' = Dependents(p)
           /\ Cyclic' = Cyclic /\ \A S : Closed(S)' = Closed(S)
           /\ \A s : DependenciesBefore(s)' = DependenciesBefore(s)
<1>1. Nodes' = Nodes BY DEF Nodes
<1>2. \A p : Inner(p)' = Inner(p) /\ Dependents(p)' = Dependents(p)
  BY <1>1 DEF Inner, Dependencies, Dependents
<1>3. Cyclic' = Cyclic BY <1>1, <1>2, Zenon DEF Cyclic
<1>4. \A S : Closed(S)' = Closed(S) BY <1>2, Zenon DEF Closed
<1>5. \A s : DependenciesBefore(s)' = DependenciesBefore(s)
  BY <1>2, Zenon DEF DependenciesBefore
<1> QED BY <1>1, <1>2, <1>3, <1>4, <1>5

(* SortInv after a step, from what the sequences have become.              *)
LEMMA SortAfter ==
    ASSUME UNCHANGED graph, NEW o, NEW q, NEW d,
           order' = o, queue' = q, degree' = d, SortedSoFar(o, q, d)
    PROVE  SortInv'
BY SameGraph, Zenon DEF SortInv, SortedSoFar

(* compute_build_order starts: in-degrees, and the nodes without dependencies. *)
LEMMA DegreesInv == ASSUME GraphInv, Degrees PROVE GraphInv'
<1>1. GraphTyped /\ phase = "degrees" /\ phase' = "sort" /\ order = <<>>
      /\ UNCHANGED <<graph, changed, order>>
  BY DEF GraphInv, Degrees, GraphTyped
<1> DEFINE none == <<>>
           q == Sorted({p \in Nodes : Inner(p) = {}})
           d == [p \in Nodes |-> Cardinality(Inner(p))]
<1>2. /\ q \in Seq({p \in Nodes : Inner(p) = {}}) /\ Distinct(q)
      /\ ToSet(q) = {p \in Nodes : Inner(p) = {}}
  <2>1. {p \in Nodes : Inner(p) = {}} \in SUBSET Packages BY <1>1, NamesFinite
  <2> QED BY <1>1, <2>1, SortedLists
<1>3. q \in Seq(Nodes)
  <2> HIDE DEF q
  <2> QED BY <1>2
<1>4. none \o q = q /\ none \in Seq(Nodes) /\ ToSet(none) = {}
  <2> HIDE DEF q
  <2> QED BY <1>3 DEF ToSet
<1>5. DependenciesBefore(q)
  <2>1. \A i \in 1 .. Len(q) : q[i] \in {p \in Nodes : Inner(p) = {}}
    <3> HIDE DEF q
    <3> QED BY <1>2
  <2> HIDE DEF q
  <2> QED BY <2>1 DEF DependenciesBefore
<1>6. d = [n \in Nodes |-> Cardinality(Inner(n) \ ToSet(none))]
  <2>1. \A n : Inner(n) \ {} = Inner(n) OBVIOUS
  <2> QED BY <1>4, <2>1
<1>7. \A n \in Nodes : n \in ToSet(none \o q) <=> Inner(n) \subseteq ToSet(none)
  <2> HIDE DEF q, none
  <2> QED BY <1>2, <1>4
<1>8. queue' = q /\ degree' = d BY DEF Degrees
<1>9. SortInv'
  <2> HIDE DEF q, d
  <2>1. Distinct(none \o q) /\ DependenciesBefore(none \o q)
    <3> HIDE DEF none
    <3> QED BY <1>2, <1>4, <1>5
  <2>2. order' = none BY <1>1
  <2> HIDE DEF none
  <2>3. SortedSoFar(none, q, d) BY <1>3, <1>4, <1>6, <1>7, <2>1 DEF SortedSoFar
  <2> QED BY <1>1, <1>8, <2>2, <2>3, SortAfter
<1> QED BY <1>1, <1>9, SameGraph DEF GraphInv, GraphTyped, OrderInv, ReachInv, CycleInv

(* The invariant of the sort when p moves from the queue to the order and  *)
(* the nodes whose last open dependency it was enter the queue.            *)
LEMMA SortMoves ==
    ASSUME GraphTyped, NEW o, NEW q, NEW d, SortedSoFar(o, q, d), q # <<>>,
           NEW new, new \in Seq(Nodes), Distinct(new),
           ToSet(new) = {n \in Nodes : Head(q) \in Inner(n) /\ d[n] = 1}
    PROVE  SortedSoFar(Append(o, Head(q)), Tail(q) \o new,
                       [n \in Nodes |-> IF Head(q) \in Inner(n) THEN d[n] - 1 ELSE d[n]])
<1> DEFINE p == Head(q)
           pl == o \o q
           oo == Append(o, p)
           qq == Tail(q) \o new
           dd == [n \in Nodes |-> IF p \in Inner(n) THEN d[n] - 1 ELSE d[n]]
<1>1. /\ o \in Seq(Nodes) /\ q \in Seq(Nodes)
      /\ Distinct(pl) /\ DependenciesBefore(pl)
      /\ \A n \in Nodes : n \in ToSet(pl) <=> Inner(n) \subseteq ToSet(o)
      /\ d = [n \in Nodes |-> Cardinality(Inner(n) \ ToSet(o))]
  BY DEF SortedSoFar
<1>2. /\ p \in Nodes /\ Tail(q) \in Seq(Nodes) /\ oo \in Seq(Nodes)
      /\ ToSet(oo) = ToSet(o) \cup {p} /\ ToSet(q) = {p} \cup ToSet(Tail(q))
      /\ oo \o qq = pl \o new /\ pl[Len(o) + 1] = p
  BY <1>1, HeadMoves
<1>3. pl \in Seq(Nodes) /\ qq \in Seq(Nodes) BY <1>1, <1>2
<1>4. /\ ToSet(pl) = ToSet(o) \cup ToSet(q)
      /\ Len(pl) = Len(o) + Len(q) /\ \A i \in 1 .. Len(o) : pl[i] = o[i]
  BY <1>1, ConcatFacts
<1>5. p \notin ToSet(o)
  <2> SUFFICES ASSUME p \in ToSet(o) PROVE FALSE OBVIOUS
  <2>1. PICK i \in 1 .. Len(o) : o[i] = p BY <1>1 DEF ToSet
  <2>2. Len(o) \in Nat /\ Len(q) \in Nat /\ Len(q) # 0 BY <1>1
  <2>3. i \in 1 .. Len(pl) /\ Len(o) + 1 \in 1 .. Len(pl) /\ i # Len(o) + 1
    BY <1>4, <2>2
  <2> HIDE DEF pl, p
  <2> QED BY <1>1, <1>2, <1>4, <2>1, <2>3 DEF Distinct
<1>6. \A n \in Nodes : /\ d[n] \in Nat /\ (d[n] = 0 <=> Inner(n) \subseteq ToSet(o))
                       /\ Cardinality(Inner(n) \ ToSet(oo))
                            = IF p \in Inner(n) THEN d[n] - 1 ELSE d[n]
                       /\ (Cardinality(Inner(n) \ ToSet(oo)) = 0 <=> Inner(n) \subseteq ToSet(oo))
  <2> SUFFICES ASSUME NEW n \in Nodes
               PROVE  /\ d[n] \in Nat /\ (d[n] = 0 <=> Inner(n) \subseteq ToSet(o))
                      /\ Cardinality(Inner(n) \ ToSet(oo))
                            = IF p \in Inner(n) THEN d[n] - 1 ELSE d[n]
                      /\ (Cardinality(Inner(n) \ ToSet(oo)) = 0 <=> Inner(n) \subseteq ToSet(oo))
    OBVIOUS
  <2> DEFINE D == Inner(n) \ ToSet(o)
             E == Inner(n) \ ToSet(oo)
  <2>1. IsFiniteSet(D) /\ IsFiniteSet(E)
    <3>1. IsFiniteSet(Inner(n)) BY NamesFinite
    <3>2. D \in SUBSET Inner(n) /\ E \in SUBSET Inner(n) OBVIOUS
    <3> QED BY <3>1, <3>2, FS_Subset
  <2>2. d[n] = Cardinality(D) BY <1>1
  <2>3. E = D \ {p} BY <1>2
  <2>4. p \in D <=> p \in Inner(n) BY <1>5
  <2>5. D = {} <=> Inner(n) \subseteq ToSet(o) OBVIOUS
  <2>6. E = {} <=> Inner(n) \subseteq ToSet(oo) OBVIOUS
  <2> HIDE DEF D, E
  <2>7. Cardinality(D) \in Nat /\ (Cardinality(D) = 0 <=> D = {})
        /\ (Cardinality(E) = 0 <=> E = {})
    BY <2>1, FS_CardinalityType, FS_EmptySet
  <2>8. Cardinality(D \ {p}) = IF p \in D THEN Cardinality(D) - 1 ELSE Cardinality(D)
    BY <2>1, FS_RemoveElement
  <2> QED BY <2>2, <2>3, <2>4, <2>5, <2>6, <2>7, <2>8 DEF D, E
<1> HIDE DEF p, pl, oo, dd
<1>7. dd = [n \in Nodes |-> Cardinality(Inner(n) \ ToSet(oo))] BY <1>6 DEF dd
<1>8. ToSet(new) = {n \in Nodes : p \in Inner(n) /\ d[n] = 1} BY DEF p
<1>9. ToSet(pl \o new) = ToSet(pl) \cup ToSet(new) BY <1>3, ConcatFacts
<1>10. \A n \in Nodes : n \in ToSet(pl \o new) <=> Inner(n) \subseteq ToSet(oo)
  <2> SUFFICES ASSUME NEW n \in Nodes
               PROVE n \in ToSet(pl \o new) <=> Inner(n) \subseteq ToSet(oo)
    OBVIOUS
  <2>1. n \in ToSet(pl) <=> d[n] = 0 BY <1>1, <1>6
  <2>2. n \in ToSet(new) <=> p \in Inner(n) /\ d[n] = 1 BY <1>8
  <2>3. Inner(n) \subseteq ToSet(oo) <=> (IF p \in Inner(n) THEN d[n] - 1 ELSE d[n]) = 0
    BY <1>6
  <2>4. d[n] = 0 => p \notin Inner(n) BY <1>5, <1>6
  <2> HIDE DEF pl
  <2> QED BY <1>6, <1>9, <2>1, <2>2, <2>3, <2>4
<1>11. Distinct(pl \o new)
  <2>1. ToSet(pl) \cap ToSet(new) = {}
    <3>1. \A n \in Nodes : n \in ToSet(pl) => d[n] = 0 BY <1>1, <1>6
    <3> QED BY <1>8, <3>1
  <2> QED BY <1>1, <1>3, <2>1, ConcatFacts
<1>12. DependenciesBefore(pl \o new)
  <2> DEFINE r == pl \o new
  <2>1. /\ r \in Seq(Nodes) /\ Len(r) = Len(pl) + Len(new)
        /\ \A i \in 1 .. Len(pl) : r[i] = pl[i]
        /\ \A i \in 1 .. Len(new) : r[Len(pl) + i] = new[i]
    BY <1>3, ConcatFacts
  <2>2. Len(pl) \in Nat /\ Len(new) \in Nat /\ Len(o) \in Nat /\ Len(q) \in Nat /\ Len(q) # 0
    BY <1>1, <1>3
  <2>3. \A i \in 1 .. Len(pl) : i \in 1 .. Len(r) BY <2>1, <2>2
  <2>4. \A x \in ToSet(oo) : \E i \in 1 .. Len(pl) : pl[i] = x
    <3>1. ToSet(oo) \subseteq ToSet(pl) BY <1>2, <1>4
    <3>2. DOMAIN pl = 1 .. Len(pl) BY <1>3
    <3>3. \A x \in ToSet(pl) : \E i \in 1 .. Len(pl) : pl[i] = x BY <3>2 DEF ToSet
    <3> QED BY <3>1, <3>3
  <2> HIDE DEF r, pl
  <2>5. SUFFICES ASSUME NEW j \in 1 .. Len(r), NEW x \in Inner(r[j])
                 PROVE \E i \in 1 .. Len(r) : i < j /\ r[i] = x
    BY DEF DependenciesBefore, r
  <2>6. CASE j \in 1 .. Len(pl)
    <3>1. x \in Inner(pl[j]) BY <2>1, <2>5, <2>6
    <3>2. PICK i \in 1 .. Len(pl) : i < j /\ pl[i] = x BY <1>1, <2>6, <3>1 DEF DependenciesBefore
    <3> QED BY <2>1, <2>3, <3>2
  <2>7. CASE j \notin 1 .. Len(pl)
    <3>1. j - Len(pl) \in 1 .. Len(new) /\ j = Len(pl) + (j - Len(pl)) /\ Len(pl) < j
      BY <2>1, <2>2, <2>5, <2>7
    <3>2. r[j] = new[j - Len(pl)] BY <2>1, <3>1
    <3>3. r[j] \in ToSet(new)
      BY <3>1, <3>2 DEF ToSet
    <3>4. Inner(r[j]) \subseteq ToSet(oo) 
      <4>1. r[j] \in Nodes /\ r[j] \in ToSet(pl \o new) BY <1>8, <1>9, <3>3
      <4> QED BY <1>10, <4>1
    <3>5. PICK i \in 1 .. Len(pl) : pl[i] = x BY <2>4, <2>5, <3>4
    <3>6. i < j BY <2>2, <3>1, <3>5
    <3> QED BY <2>1, <2>3, <3>5, <3>6
  <2> QED BY <2>6, <2>7
<1>13. SortedSoFar(oo, qq, dd)
  <2>1. oo \o qq = pl \o new BY <1>2 DEF oo, p
  <2>2. oo \in Seq(Nodes) BY <1>2
  <2> HIDE DEF qq, pl
  <2> QED BY <1>3, <1>7, <1>10, <1>11, <1>12, <2>1, <2>2 DEF SortedSoFar
<1> QED BY <1>13 DEF p, oo, qq, dd

(* topological_sort takes a node and releases its neighbours.              *)
LEMMA SortStepInv == ASSUME GraphInv, SortStep PROVE GraphInv'
<1>1. /\ GraphTyped /\ SortedSoFar(order, queue, degree) /\ phase = "sort" /\ phase' = "sort"
      /\ queue # <<>> /\ UNCHANGED <<graph, changed>>
      /\ order' = Append(order, Head(queue))
      /\ queue' = Tail(queue) \o Sorted(Released(Head(queue)))
      /\ degree' = [n \in Nodes |-> IF Head(queue) \in Inner(n) THEN degree[n] - 1 ELSE degree[n]]
  BY DEF GraphInv, SortStep, SortInv
<1> DEFINE new == Sorted(Released(Head(queue)))
<1>2. /\ new \in Seq(Nodes) /\ Distinct(new)
      /\ ToSet(new) = {n \in Nodes : Head(queue) \in Inner(n) /\ degree[n] = 1}
  <2>1. Released(Head(queue)) = {n \in Nodes : Head(queue) \in Inner(n) /\ degree[n] = 1}
    BY DEF Released
  <2>2. Released(Head(queue)) \in SUBSET Packages BY <1>1, <2>1, NamesFinite
  <2>3. /\ new \in Seq(Released(Head(queue))) /\ Distinct(new)
        /\ ToSet(new) = Released(Head(queue))
    BY <1>1, <2>2, SortedLists
  <2>4. new \in Seq(Nodes)
    <3> HIDE DEF new
    <3> QED BY <2>1, <2>3
  <2> QED BY <2>1, <2>3, <2>4
<1> HIDE DEF new
<1>3. SortedSoFar(Append(order, Head(queue)), Tail(queue) \o new,
                 [n \in Nodes |-> IF Head(queue) \in Inner(n) THEN degree[n] - 1 ELSE degree[n]])
  BY <1>1, <1>2, SortMoves
<1>4. SortInv'
  <2>1. SortedSoFar(order', queue', degree') BY <1>1, <1>3, Zenon DEF new
  <2>2. PICK o, q, d : o = order' /\ q = queue' /\ d = degree' OBVIOUS
  <2>3. SortedSoFar(o, q, d) BY <2>1, <2>2, Zenon
  <2> QED BY <1>1, <2>2, <2>3, SortAfter
<1> QED BY <1>1, <1>4, SameGraph DEF GraphInv, GraphTyped, OrderInv, ReachInv, CycleInv

(* When the queue is empty, the order has all the nodes, or those missing  *)
(* depend on each other.                                                   *)
LEMMA SortEnds ==
    ASSUME GraphTyped, NEW o, NEW d, SortedSoFar(o, <<>>, d)
    PROVE  /\ o \in Seq(Nodes) /\ Distinct(o) /\ DependenciesBefore(o)
           /\ Len(o) = Cardinality(Nodes) => ToSet(o) = Nodes
           /\ Len(o) # Cardinality(Nodes) => Cyclic
<1>1. o \in Seq(Nodes) BY DEF SortedSoFar
<1>2. o \o <<>> = o BY <1>1
<1>3. /\ Distinct(o) /\ DependenciesBefore(o)
      /\ \A n \in Nodes : n \in ToSet(o) <=> Inner(n) \subseteq ToSet(o)
  BY <1>2, Zenon DEF SortedSoFar
<1>4. Len(o) = Cardinality(Nodes) <=> ToSet(o) = Nodes
  BY <1>1, <1>3, NamesFinite, DistinctFits
<1>5. ASSUME ToSet(o) # Nodes PROVE Cyclic
  <2> DEFINE S == Nodes \ ToSet(o)
  <2>1. ToSet(o) \subseteq Nodes BY <1>1 DEF ToSet
  <2>2. S # {} /\ S \in SUBSET Nodes BY <1>5, <2>1
  <2>3. \A p \in S : Inner(p) \cap S # {} BY <1>3, NamesFinite
  <2> HIDE DEF S
  <2> QED BY <2>2, <2>3 DEF Cyclic
<1> QED BY <1>1, <1>3, <1>4, <1>5

(* The order is complete or given up; the search of the invalidated starts. *)
LEMMA SortEndInv == ASSUME GraphInv, SortEnd PROVE GraphInv'
<1>1. /\ GraphTyped /\ SortedSoFar(order, queue, degree) /\ phase = "sort"
      /\ phase' = "invalidate" /\ queue = <<>> /\ UNCHANGED <<graph, changed>>
      /\ order' = (IF Len(order) = Cardinality(Nodes) THEN order ELSE <<>>)
      /\ invalidated' = changed /\ queue' \in SetToSeqs(changed)
  BY DEF GraphInv, SortEnd, SortInv
<1>2. SortedSoFar(order, <<>>, degree) BY <1>1, Zenon
<1>3. /\ order \in Seq(Nodes) /\ Distinct(order) /\ DependenciesBefore(order)
      /\ Len(order) = Cardinality(Nodes) => ToSet(order) = Nodes
      /\ Len(order) # Cardinality(Nodes) => Cyclic
  BY <1>1, <1>2, SortEnds
<1>4. OrderInv'
  <2>1. CASE Len(order) = Cardinality(Nodes)
    <3>1. order' = order BY <1>1, <2>1
    <3> QED BY <1>1, <1>3, <2>1, <3>1, SameGraph DEF OrderInv
  <2>2. CASE Len(order) # Cardinality(Nodes)
    <3>1. order' = <<>> BY <1>1, <2>2
    <3> QED BY <1>1, <1>3, <2>2, <3>1, SameGraph DEF OrderInv
  <2> QED BY <2>1, <2>2
<1>5. ReachInv'
  <2>1. changed \subseteq Packages /\ changed \in SUBSET Packages /\ IsFiniteSet(changed)
    BY <1>1, NamesFinite DEF GraphTyped
  <2>2. PICK q : q = queue' OBVIOUS
  <2>3. q \in Seq(changed) /\ ToSet(q) = changed BY <1>1, <2>1, <2>2, Listing
  <2>4. q \in Seq(Packages) BY <2>1, <2>3
  <2>5. phase' # "planned" BY <1>1
  <2>6. UNCHANGED <<graph, changed>> /\ invalidated' = changed /\ queue' = q BY <1>1, <2>2
  <2> QED BY <2>1, <2>3, <2>4, <2>5, <2>6 DEF ReachInv
<1>6. phase' # "sort" /\ phase' \notin {"detect", "acyclic", "cyclic"} /\ GraphTyped'
  BY <1>1, SameGraph DEF GraphTyped
<1> QED BY <1>4, <1>5, <1>6 DEF GraphInv, SortInv, CycleInv

(* invalidated_by visits a package and queues its new dependents.          *)
LEMMA InvalidateStepInv == ASSUME GraphInv, InvalidateStep PROVE GraphInv'
<1>1. /\ GraphTyped /\ phase = "invalidate" /\ phase' = phase /\ queue # <<>>
      /\ UNCHANGED <<graph, changed, order>>
      /\ changed \subseteq invalidated /\ invalidated \subseteq Packages
      /\ queue \in Seq(Packages) /\ ToSet(queue) \subseteq invalidated
      /\ \A p \in invalidated \ ToSet(queue) : Dependents(p) \subseteq invalidated
      /\ \A S \in SUBSET Packages : changed \subseteq S /\ Closed(S) => invalidated \subseteq S
  BY DEF GraphInv, InvalidateStep, ReachInv, sortVars
<1> DEFINE p == Head(queue)
           new == Dependents(p) \ invalidated
           q == Tail(queue) \o Sorted(new)
<1>2. invalidated' = invalidated \cup new /\ queue' = q BY DEF InvalidateStep
<1>3. new \subseteq Packages /\ new \in SUBSET Packages BY <1>1, NamesFinite
<1>4. Sorted(new) \in Seq(Packages) /\ ToSet(Sorted(new)) = new
  <2> HIDE DEF new
  <2>1. Sorted(new) \in Seq(new) /\ ToSet(Sorted(new)) = new BY <1>1, <1>3, SortedLists
  <2>2. \A s \in Seq(new) : s \in Seq(Packages) BY <1>3
  <2> QED BY <2>1, <2>2
<1> HIDE DEF new
<1>5. Tail(queue) \in Seq(Packages) /\ p \in Packages /\ ToSet(queue) = {p} \cup ToSet(Tail(queue))
  BY <1>1, HeadMoves
<1>6. q \in Seq(Packages) /\ ToSet(q) = ToSet(Tail(queue)) \cup new
  <2>1. PICK u \in Seq(Packages), v \in Seq(Packages) : u = Tail(queue) /\ v = Sorted(new)
    BY <1>4, <1>5, Zenon
  <2>2. u \o v \in Seq(Packages) /\ ToSet(u \o v) = ToSet(u) \cup ToSet(v) BY ConcatFacts
  <2>3. q = u \o v BY <2>1, Zenon
  <2>4. ToSet(u) = ToSet(Tail(queue)) /\ ToSet(v) = new BY <1>4, <2>1, Zenon
  <2> HIDE DEF q
  <2> QED BY <2>2, <2>3, <2>4, Zenon
<1> HIDE DEF q, p
<1>7. ASSUME NEW S \in SUBSET Packages, changed \subseteq S, Closed(S)
      PROVE  invalidated \cup new \subseteq S
  <2>1. invalidated \subseteq S BY <1>1, <1>7
  <2>2. p \in S BY <1>1, <1>5, <2>1
  <2> QED BY <1>7, <2>1, <2>2 DEF Closed, new
<1>8. ASSUME NEW r \in (invalidated \cup new) \ ToSet(q)
      PROVE  Dependents(r) \subseteq invalidated \cup new
  <2>1. CASE r = p BY <2>1 DEF new
  <2>2. CASE r # p
    <3>1. r \in invalidated \ ToSet(queue) BY <1>5, <1>6, <2>2
    <3> QED BY <1>1, <3>1
  <2> QED BY <2>1, <2>2
<1>9. ReachInv'
  <2>1. PICK j, k : j = invalidated' /\ k = queue' OBVIOUS
  <2>2. j = invalidated \cup new /\ k = q BY <1>2, <2>1
  <2>3. /\ changed \subseteq j /\ j \subseteq Packages /\ k \in Seq(Packages) /\ ToSet(k) \subseteq j
        /\ \A r \in j \ ToSet(k) : Dependents(r) \subseteq j
        /\ \A S \in SUBSET Packages : changed \subseteq S /\ Closed(S) => j \subseteq S
    BY <1>1, <1>3, <1>5, <1>6, <1>7, <1>8, <2>2
  <2>4. phase' # "planned" BY <1>1
  <2> QED BY <1>1, <2>1, <2>3, <2>4, SameGraph DEF ReachInv
<1> QED BY <1>1, <1>9, SameGraph DEF GraphInv, GraphTyped, SortInv, OrderInv, CycleInv

(* The plan is made when the queue is empty.                               *)
LEMMA PlanEndInv == ASSUME GraphInv, PlanEnd PROVE GraphInv'
<1>1. /\ phase = "invalidate" /\ queue = <<>> /\ phase' = "planned"
      /\ UNCHANGED <<graph, changed, order, queue, invalidated>>
  BY DEF PlanEnd, sortVars
<1>2. ReachInv' BY <1>1, SameGraph DEF GraphInv, ReachInv
<1>3. OrderInv' BY <1>1, SameGraph DEF GraphInv, OrderInv
<1>4. GraphTyped' BY <1>1, SameGraph DEF GraphInv, GraphTyped
<1> QED BY <1>1, <1>2, <1>3, <1>4 DEF GraphInv, SortInv, CycleInv

(* The search of a cycle leaves the plan alone.                            *)
LEMMA SearchOnly ==
    ASSUME GraphInv, phase = "detect", phase' \in {"detect", "acyclic", "cyclic"},
           UNCHANGED <<graph, changed>>, CycleInv'
    PROVE  GraphInv'
BY SameGraph DEF GraphInv, GraphTyped, SortInv, OrderInv, ReachInv

(* What the search of a cycle keeps, of a path, its agenda and a colouring. *)
PathOf(c, pa, to) ==
    /\ pa \in Seq(Nodes) /\ Distinct(pa)
    /\ to \in Seq(Seq(Nodes)) /\ Len(to) = Len(pa)
    /\ \A p \in Nodes : c[p] = "in_progress" <=> p \in ToSet(pa)
    /\ \A i \in 1 .. Len(pa) :
          /\ ToSet(to[i]) \subseteq Inner(pa[i])
          /\ i + 1 \in 1 .. Len(pa) => pa[i + 1] \in Inner(pa[i])
          /\ \A q \in Inner(pa[i]) :
                c[q] = "done" \/ q \in ToSet(to[i]) \/ (i + 1 \in 1 .. Len(pa) /\ pa[i + 1] = q)

(* PathInv is that of the variables.                                       *)
LEMMA PathInvIs == PathInv <=> PathOf(colour, path, todo)
<1>1. \A p : \A q \in Inner(p) : q \in Done <=> colour[q] = "done" BY DEF Done, Inner
<1> QED BY <1>1 DEF PathInv, PathOf

(* PathInv after a step, from what path and agenda have become.            *)
LEMMA PathAfter ==
    ASSUME UNCHANGED graph, NEW c, NEW pa, NEW to,
           colour' = c, path' = pa, todo' = to, PathOf(c, pa, to)
    PROVE  PathInv'
<1>1. Nodes' = Nodes /\ \A p : Inner(p)' = Inner(p) BY SameGraph
<1>2. \A p : \A q \in Inner(p) : q \in Done' <=> c[q] = "done"
  <2>1. Done' = {q \in Nodes : c[q] = "done"} BY <1>1 DEF Done
  <2> QED BY <2>1 DEF Inner
<1>3. /\ path' \in Seq(Nodes') /\ Distinct(path')
      /\ todo' \in Seq(Seq(Nodes')) /\ Len(todo') = Len(path')
      /\ \A p \in Nodes' : colour'[p] = "in_progress" <=> p \in ToSet(path')
  BY <1>1 DEF PathOf
<1>4. \A i \in 1 .. Len(path') :
          /\ ToSet(todo'[i]) \subseteq Inner(path'[i])
          /\ i + 1 \in 1 .. Len(path') => path'[i + 1] \in Inner(path'[i])
          /\ \A q \in Inner(path'[i]) :
                q \in Done' \/ q \in ToSet(todo'[i])
                \/ (i + 1 \in 1 .. Len(path') /\ path'[i + 1] = q)
  BY <1>2 DEF PathOf
<1> QED BY <1>1, <1>3, <1>4 DEF PathInv, Distinct, ToSet, Inner, Dependencies

(* A step that finishes no node only has to keep the path.                 *)
LEMMA DetectAfter ==
    ASSUME UNCHANGED graph, NEW c, NEW pa, NEW to,
           colour' = c, path' = pa, todo' = to, phase' = "detect",
           c \in [Nodes -> {"unvisited", "in_progress", "done"}],
           \A p \in Nodes : c[p] = "done" <=> p \in Done,
           DoneInv, PathOf(c, pa, to)
    PROVE  CycleInv'
<1>1. Done' = Done
  <2>1. Done' = {q \in Nodes : c[q] = "done"} BY SameGraph DEF Done
  <2>2. Done \subseteq Nodes BY DEF Done
  <2> QED BY <2>1, <2>2
<1>2. DoneInv' BY <1>1, SameGraph DEF DoneInv
<1>3. PathInv' BY PathAfter
<1> QED BY <1>2, <1>3 DEF CycleInv

(* detect_cycle leaves a node: its dependencies are done, so it closes no  *)
(* cycle with the nodes that are.                                          *)
LEMMA LeaveInv == ASSUME GraphInv, Leave PROVE GraphInv'
<1>1. /\ GraphTyped /\ DoneInv /\ PathInv /\ phase = "detect" /\ phase' = "detect"
      /\ path # <<>> /\ Last(todo) = <<>> /\ UNCHANGED <<graph, changed>>
      /\ colour' = [colour EXCEPT ![Last(path)] = "done"] /\ path' = Front(path) /\ todo' = Front(todo)
  BY DEF GraphInv, CycleInv, Leave
<1>2. PathOf(colour, path, todo) BY <1>1, PathInvIs
<1>3. todo # <<>> BY <1>1, <1>2 DEF PathOf
<1> DEFINE p == Last(path)
           n == Len(path)
           c == [colour EXCEPT ![p] = "done"]
           pa == Front(path)
           to == Front(todo)
<1>4. /\ n \in Nat \ {0} /\ p = path[n] /\ p \in Nodes /\ pa \in Seq(Nodes) /\ Len(pa) = n - 1
      /\ \A i \in 1 .. n - 1 : pa[i] = path[i]
  BY <1>1, <1>2, LastPlace DEF PathOf
<1>5. /\ Last(todo) = todo[n] /\ to \in Seq(Seq(Nodes)) /\ Len(to) = n - 1
      /\ \A i \in 1 .. n - 1 : to[i] = todo[i]
  BY <1>2, <1>3, LastPlace DEF PathOf
<1>6. colour[p] = "in_progress" /\ p \notin Done
  <2>1. p \in ToSet(path) BY <1>2, <1>4 DEF PathOf, ToSet
  <2> QED BY <1>2, <1>4, <2>1 DEF PathOf, Done
<1>7. Inner(p) \subseteq Done
  <2>1. \A q \in Inner(p) : colour[q] = "done" \/ q \in ToSet(todo[n])
    <3>1. n \in 1 .. n /\ n + 1 \notin 1 .. n BY <1>4
    <3> QED BY <1>2, <1>4, <3>1 DEF PathOf
  <2>2. ToSet(todo[n]) = {} BY <1>1, <1>5 DEF ToSet
  <2> QED BY <2>1, <2>2 DEF Done, Inner
<1>8. Done' = Done \cup {p}
  <2>1. \A q \in Nodes : c[q] = "done" <=> q = p \/ q \in Done
    BY <1>1, <1>4 DEF DoneInv, Done
  <2> HIDE DEF p
  <2>2. \A q \in Nodes : colour'[q] = "done" <=> q = p \/ q \in Done BY <1>1, <2>1 DEF p
  <2>3. Done' = {q \in Nodes : colour'[q] = "done"} BY <1>1, SameGraph DEF Done
  <2>4. Done \subseteq Nodes /\ p \in Nodes BY <1>4 DEF Done
  <2> QED BY <2>2, <2>3, <2>4
<1>9. DoneInv'
  <2>1. c \in [Nodes -> {"unvisited", "in_progress", "done"}] BY <1>1 DEF DoneInv
  <2> HIDE DEF p
  <2>2. ASSUME NEW S \in SUBSET (Done \cup {p}), S # {}
        PROVE \E q \in S : Inner(q) \cap S = {}
    <3>1. CASE S \subseteq Done BY <1>1, <2>2, <3>1 DEF DoneInv
    <3>2. CASE p \in S /\ Inner(p) \cap S = {} BY <3>2
    <3>3. CASE p \in S /\ Inner(p) \cap S # {}
      <4>1. S \ {p} \in SUBSET Done /\ S \ {p} # {}
        BY <1>6, <1>7, <2>2, <3>3
      <4>2. PICK q \in S \ {p} : Inner(q) \cap (S \ {p}) = {} BY <1>1, <4>1 DEF DoneInv
      <4>3. Inner(q) \subseteq Done BY <1>1, <4>1, <4>2 DEF DoneInv
      <4> QED BY <1>6, <4>2, <4>3
    <3> QED BY <2>2, <3>1, <3>2, <3>3
  <2>3. \A q \in Done \cup {p} : Inner(q) \subseteq Done \cup {p} BY <1>1, <1>7 DEF DoneInv
  <2>4. PICK D : D = Done' OBVIOUS
  <2>5. D = Done \cup {p} BY <1>8, <2>4
  <2>6. colour' \in [Nodes -> {"unvisited", "in_progress", "done"}] BY <1>1, <2>1 DEF p
  <2>7. /\ \A q \in D : Inner(q) \subseteq D
        /\ \A S \in SUBSET D : S # {} => \E q \in S : Inner(q) \cap S = {}
    BY <2>2, <2>3, <2>5
  <2> QED BY <1>1, <2>4, <2>6, <2>7, SameGraph DEF DoneInv
<1>10. PathOf(c, pa, to)
  <2>1. Distinct(pa)
    <3> SUFFICES ASSUME NEW i \in 1 .. Len(pa), NEW j \in 1 .. Len(pa), i # j PROVE pa[i] # pa[j]
      BY DEF Distinct
    <3>1. i \in 1 .. n /\ j \in 1 .. n /\ i \in 1 .. n - 1 /\ j \in 1 .. n - 1 BY <1>4
    <3> QED BY <1>2, <1>4, <3>1 DEF PathOf, Distinct
  <2>2. /\ \A q \in ToSet(path) : q = p \/ q \in ToSet(pa)
        /\ \A q \in ToSet(pa) : q \in ToSet(path) /\ q # p
    <3>1. DOMAIN path = 1 .. n /\ DOMAIN pa = 1 .. n - 1 BY <1>2, <1>4 DEF PathOf
    <3>2. \A i \in 1 .. n - 1 : i \in 1 .. n /\ i # n BY <1>4
    <3>3. \A i \in 1 .. n : i \in 1 .. n - 1 \/ i = n BY <1>4
    <3>4. n \in 1 .. n BY <1>4
    <3>5. \A i \in 1 .. n - 1 : path[i] # p BY <1>2, <1>4, <3>2, <3>4 DEF PathOf, Distinct
    <3> HIDE DEF p, pa
    <3> QED BY <1>4, <3>1, <3>2, <3>3, <3>5 DEF ToSet
  <2>3. \A q \in Nodes : /\ c[q] = "in_progress" <=> q # p /\ colour[q] = "in_progress"
                         /\ c[q] = "done" <=> q = p \/ colour[q] = "done"
    BY <1>1, <1>4 DEF DoneInv
  <2>4. \A q \in Nodes : c[q] = "in_progress" <=> q \in ToSet(pa)
    <3> HIDE DEF p, pa, c
    <3> QED BY <1>2, <2>2, <2>3 DEF PathOf
  <2>5. ASSUME NEW i \in 1 .. Len(pa)
        PROVE  /\ ToSet(to[i]) \subseteq Inner(pa[i])
               /\ i + 1 \in 1 .. Len(pa) => pa[i + 1] \in Inner(pa[i])
               /\ \A q \in Inner(pa[i]) :
                     c[q] = "done" \/ q \in ToSet(to[i]) \/ (i + 1 \in 1 .. Len(pa) /\ pa[i + 1] = q)
    <3>1. i \in 1 .. n - 1 /\ i \in 1 .. n /\ i + 1 \in 1 .. n BY <1>4
    <3>2. pa[i] = path[i] /\ to[i] = todo[i] BY <1>4, <1>5, <3>1
    <3>3. /\ ToSet(todo[i]) \subseteq Inner(path[i])
          /\ path[i + 1] \in Inner(path[i])
          /\ \A q \in Inner(path[i]) : colour[q] = "done" \/ q \in ToSet(todo[i]) \/ path[i + 1] = q
      BY <1>2, <3>1 DEF PathOf
    <3>4. i + 1 \in 1 .. n - 1 => pa[i + 1] = path[i + 1] BY <1>4
    <3>5. i + 1 \notin 1 .. n - 1 => path[i + 1] = p
      <4>1. i + 1 \notin 1 .. n - 1 => i + 1 = n BY <1>4, <3>1
      <4> QED BY <1>4, <4>1
    <3>6. Inner(path[i]) \subseteq Nodes BY DEF Inner
    <3> HIDE DEF p, pa, c, to
    <3> QED BY <1>4, <2>3, <3>2, <3>3, <3>4, <3>5, <3>6
  <2> QED
    <3> HIDE DEF p, pa, c, to
    <3> QED BY <1>4, <1>5, <2>1, <2>4, <2>5 DEF PathOf
<1>11. PathInv'
  <2>1. PICK cc, pp, tt : cc = c /\ pp = pa /\ tt = to OBVIOUS
  <2>2. colour' = cc /\ path' = pp /\ todo' = tt BY <1>1, <2>1
  <2>3. PathOf(cc, pp, tt) BY <1>10, <2>1
  <2> QED BY <1>1, <2>2, <2>3, PathAfter
<1>12. CycleInv' BY <1>1, <1>9, <1>11 DEF CycleInv
<1> QED BY <1>1, <1>12, SearchOnly

(* The agenda of a path, with the node x to enter from its last node.       *)
ToEnter(c, pa, x, rest) ==
    /\ \A p \in Nodes : c[p] = "in_progress" <=> p \in ToSet(pa)
    /\ \A i \in 1 .. Len(pa) :
          /\ ToSet(rest[i]) \subseteq Inner(pa[i])
          /\ i + 1 \in 1 .. Len(pa) => pa[i + 1] \in Inner(pa[i])
          /\ i = Len(pa) => x \in Inner(pa[i])
          /\ \A q \in Inner(pa[i]) :
                \/ c[q] = "done" \/ q \in ToSet(rest[i])
                \/ i + 1 \in 1 .. Len(pa) /\ pa[i + 1] = q
                \/ i = Len(pa) /\ q = x

(* A node that was not visited is put at the end of the path.              *)
LEMMA EnterMoves ==
    ASSUME NEW c \in [Nodes -> {"unvisited", "in_progress", "done"}],
           NEW pa \in Seq(Nodes), Distinct(pa), NEW x \in Nodes, c[x] = "unvisited",
           NEW rest \in Seq(Seq(Nodes)), Len(rest) = Len(pa),
           NEW new \in Seq(Nodes), ToSet(new) = Inner(x),
           ToEnter(c, pa, x, rest)
    PROVE  PathOf([c EXCEPT ![x] = "in_progress"], Append(pa, x), Append(rest, new))
<1> DEFINE cc == [c EXCEPT ![x] = "in_progress"]
           pp == Append(pa, x)
           tt == Append(rest, new)
<1>1. PICK n \in Nat : n = Len(pa) OBVIOUS
<1>2. /\ pp \in Seq(Nodes) /\ Len(pp) = n + 1 /\ pp[n + 1] = x
      /\ \A i \in 1 .. n : pp[i] = pa[i]
  BY <1>1
<1>3. /\ tt \in Seq(Seq(Nodes)) /\ Len(tt) = n + 1 /\ tt[n + 1] = new
      /\ \A i \in 1 .. n : tt[i] = rest[i]
  BY <1>1
<1>4. /\ \A q \in Nodes : cc[q] = "in_progress" <=> q = x \/ c[q] = "in_progress"
      /\ \A q \in Nodes : cc[q] = "done" <=> c[q] = "done"
  OBVIOUS
<1> HIDE DEF cc, pp, tt
<1>5. ToSet(pp) = ToSet(pa) \cup {x} BY AppendFacts DEF pp
<1>6. \A i \in 1 .. n + 1 : i \in 1 .. n \/ i = n + 1 BY <1>1
<1>7. \A i \in 1 .. n : i \in 1 .. n + 1 /\ i # n + 1 BY <1>1
<1>8. n + 1 \in 1 .. n + 1 BY <1>1
<1>9. \A i \in 1 .. n : pa[i] \in ToSet(pa)
  <2>1. DOMAIN pa = 1 .. Len(pa) OBVIOUS
  <2> QED BY <1>1, <2>1 DEF ToSet
<1>10. \A i \in 1 .. n : pa[i] # x BY <1>9 DEF ToEnter
<1>11. Distinct(pp)
  <2> SUFFICES ASSUME NEW i \in 1 .. n + 1, NEW j \in 1 .. n + 1, i # j PROVE pp[i] # pp[j]
    BY <1>2 DEF Distinct
  <2>1. \A k, m \in 1 .. n : k # m => pa[k] # pa[m] BY <1>1 DEF Distinct
  <2>2. CASE i \in 1 .. n /\ j \in 1 .. n BY <1>2, <2>1, <2>2
  <2>3. CASE i = n + 1 /\ j \in 1 .. n BY <1>2, <1>10, <2>3
  <2>4. CASE i \in 1 .. n /\ j = n + 1 BY <1>2, <1>10, <2>4
  <2> QED BY <1>6, <2>2, <2>3, <2>4
<1>12. \A q \in Nodes : cc[q] = "in_progress" <=> q \in ToSet(pp) BY <1>4, <1>5 DEF ToEnter
<1>13. ASSUME NEW i \in 1 .. n + 1
       PROVE /\ ToSet(tt[i]) \subseteq Inner(pp[i])
             /\ i + 1 \in 1 .. n + 1 => pp[i + 1] \in Inner(pp[i])
             /\ \A q \in Inner(pp[i]) :
                   cc[q] = "done" \/ q \in ToSet(tt[i]) \/ (i + 1 \in 1 .. n + 1 /\ pp[i + 1] = q)
  <2>1. CASE i = n + 1
    <3>1. pp[i] = x /\ tt[i] = new /\ i + 1 \notin 1 .. n + 1 BY <1>1, <1>2, <1>3, <2>1
    <3> QED BY <3>1
  <2>2. CASE i \in 1 .. n
    <3>1. pp[i] = pa[i] /\ tt[i] = rest[i] /\ i + 1 \in 1 .. n + 1 BY <1>1, <1>2, <1>3, <2>2
    <3>2. i = n => pp[i + 1] = x BY <1>2
    <3>3. i # n => i + 1 \in 1 .. n /\ pp[i + 1] = pa[i + 1] BY <1>1, <1>2, <2>2
    <3>4. i = n => i + 1 \notin 1 .. n BY <1>1
    <3>5. Inner(pa[i]) \subseteq Nodes BY DEF Inner
    <3>6. /\ ToSet(rest[i]) \subseteq Inner(pa[i])
          /\ i + 1 \in 1 .. n => pa[i + 1] \in Inner(pa[i])
          /\ i = n => x \in Inner(pa[i])
          /\ \A q \in Inner(pa[i]) :
                \/ c[q] = "done" \/ q \in ToSet(rest[i])
                \/ i + 1 \in 1 .. n /\ pa[i + 1] = q
                \/ i = n /\ q = x
      BY <1>1, <2>2 DEF ToEnter
    <3> QED BY <1>4, <3>1, <3>2, <3>3, <3>4, <3>5, <3>6
  <2> QED BY <1>6, <2>1, <2>2
<1>14. PathOf(cc, pp, tt) BY <1>2, <1>3, <1>11, <1>12, <1>13 DEF PathOf
<1> QED BY <1>14 DEF cc, pp, tt

(* detect_cycle enters a node it was not in, or has done all nodes, and    *)
(* then there is no cycle.                                                 *)
LEMMA NextRootInv == ASSUME GraphInv, NextRoot PROVE GraphInv'
<1> DEFINE white == {p \in Nodes : colour[p] = "unvisited"}
<1>1. /\ GraphTyped /\ DoneInv /\ PathInv /\ phase = "detect" /\ path = <<>>
      /\ UNCHANGED <<graph, changed>>
  BY DEF GraphInv, CycleInv, NextRoot
<1>2. PathOf(colour, path, todo) BY <1>1, PathInvIs
<1>3. ToSet(path) = {} BY <1>1 DEF ToSet
<1>4. CASE white = {}
  <2>1. phase' = "acyclic" BY <1>4 DEF NextRoot
  <2>2. \A p \in Nodes : colour[p] = "done" BY <1>1, <1>2, <1>3, <1>4 DEF PathOf, DoneInv
  <2>3. Nodes = Done BY <2>2 DEF Done
  <2>4. ~Cyclic
    <3> SUFFICES ASSUME NEW S \in SUBSET Nodes, S # {}, \A p \in S : Inner(p) \cap S # {}
                 PROVE FALSE
      BY DEF Cyclic
    <3> QED BY <1>1, <2>3 DEF DoneInv
  <2>5. ~Cyclic' BY <1>1, <2>4, SameGraph
  <2>6. CycleInv' BY <2>1, <2>5 DEF CycleInv
  <2> QED BY <1>1, <2>1, <2>6, SearchOnly
<1>5. CASE white # {}
  <2> DEFINE x == Head(Sorted(white))
             none == <<>>
             new == Sorted(Inner(x))
             cc == [colour EXCEPT ![x] = "in_progress"]
             pp == Append(none, x)
             tt == Append(none, new)
  <2>1. white \in SUBSET Packages /\ white \subseteq Nodes BY <1>1, NamesFinite
  <2>2. x \in white
    <3> HIDE DEF white
    <3>1. Sorted(white) \in Seq(white) /\ ToSet(Sorted(white)) = white BY <1>1, <2>1, SortedLists
    <3>2. Sorted(white) # <<>> BY <1>5, <3>1 DEF ToSet
    <3> QED BY <3>1, <3>2
  <2>3. /\ Enter(x, none) /\ colour' = cc /\ path' = pp /\ todo' = tt /\ phase' = "detect"
    BY <1>1, <1>5 DEF NextRoot, Enter
  <2>4. x \in Nodes /\ colour[x] = "unvisited" BY <2>2
  <2> HIDE DEF x
  <2>5. new \in Seq(Nodes) /\ ToSet(new) = Inner(x)
    <3>1. Inner(x) \in SUBSET Packages /\ Inner(x) \subseteq Nodes BY <1>1, NamesFinite
    <3>2. new \in Seq(Inner(x)) /\ ToSet(new) = Inner(x) BY <1>1, <3>1, SortedLists
    <3> QED BY <3>1, <3>2
  <2> HIDE DEF new
  <2>6. none \in Seq(Nodes) /\ none \in Seq(Seq(Nodes)) /\ Len(none) = 0 /\ ToSet(none) = {}
        /\ Distinct(none)
    BY DEF ToSet, Distinct
  <2>7. \A p \in Nodes : colour[p] = "in_progress" <=> p \in ToSet(none)
    BY <1>2, <1>3, <2>6 DEF PathOf
  <2> HIDE DEF none
  <2>8. colour \in [Nodes -> {"unvisited", "in_progress", "done"}] BY <1>1 DEF DoneInv
  <2>9. PathOf(cc, pp, tt)
    <3>1. \A i \in 1 .. Len(none) : FALSE BY <2>6
    <3>2. ToEnter(colour, none, x, none) BY <2>7, <3>1 DEF ToEnter
    <3> QED BY <2>4, <2>5, <2>6, <2>8, <3>2, EnterMoves
  <2>10. /\ cc \in [Nodes -> {"unvisited", "in_progress", "done"}]
         /\ \A p \in Nodes : cc[p] = "done" <=> p \in Done
    BY <2>4, <2>8 DEF Done
  <2> HIDE DEF cc, pp, tt
  <2>11. CycleInv' BY <1>1, <2>3, <2>9, <2>10, DetectAfter
  <2> QED BY <1>1, <2>3, <2>11, SearchOnly
<1> QED BY <1>4, <1>5

(* detect_cycle looks at a dependency: one on the path closes a cycle.     *)
LEMMA LookAtInv == ASSUME GraphInv, LookAt PROVE GraphInv'
<1> DEFINE dep == Head(Last(todo))
           rest == Append(Front(todo), Tail(Last(todo)))
<1>1. /\ GraphTyped /\ DoneInv /\ PathInv /\ phase = "detect" /\ path # <<>> /\ Last(todo) # <<>>
      /\ UNCHANGED <<graph, changed>>
  BY DEF GraphInv, CycleInv, LookAt
<1>2. PathOf(colour, path, todo) BY <1>1, PathInvIs
<1>3. PICK n \in Nat \ {0} : n = Len(path)
  <2>1. path \in Seq(Nodes) BY <1>2 DEF PathOf
  <2>2. Len(path) \in Nat \ {0} BY <1>1, <2>1
  <2> QED BY <2>2
<1>4. PICK last \in Seq(Nodes) : /\ last = Last(todo) /\ last = todo[n] /\ last # <<>>
                                 /\ Front(todo) \in Seq(Seq(Nodes)) /\ Len(Front(todo)) = n - 1
                                 /\ \A i \in 1 .. n - 1 : Front(todo)[i] = todo[i]
  <2>1. todo \in Seq(Seq(Nodes)) /\ Len(todo) = n /\ todo # <<>> BY <1>2, <1>3 DEF PathOf
  <2>2. /\ Last(todo) = todo[n] /\ Last(todo) \in Seq(Nodes)
        /\ Front(todo) \in Seq(Seq(Nodes)) /\ Len(Front(todo)) = n - 1
        /\ \A i \in 1 .. n - 1 : Front(todo)[i] = todo[i]
    BY <2>1, LastPlace
  <2> QED BY <1>1, <2>2
<1>5. /\ dep \in Nodes /\ Tail(last) \in Seq(Nodes) /\ ToSet(last) = {dep} \cup ToSet(Tail(last))
  <2>1. \A A : \A s, t, u \in Seq(A) : t # <<>> =>
           Head(t) \in A /\ Tail(t) \in Seq(A) /\ ToSet(t) = {Head(t)} \cup ToSet(Tail(t))
    BY HeadMoves
  <2> QED BY <1>4, <2>1
<1>6. PICK f, t : f = Front(todo) /\ t = Tail(last) OBVIOUS
<1>7. /\ rest \in Seq(Seq(Nodes)) /\ Len(rest) = n /\ rest[n] = t
      /\ \A i \in 1 .. n - 1 : rest[i] = todo[i]
  <2>1. rest = Append(f, t) BY <1>4, <1>6
  <2> HIDE DEF rest
  <2>2. f \in Seq(Seq(Nodes)) /\ Len(f) = n - 1 /\ t \in Seq(Nodes)
        /\ \A i \in 1 .. n - 1 : f[i] = todo[i]
    BY <1>4, <1>5, <1>6
  <2> QED BY <1>3, <2>1, <2>2
<1> HIDE DEF dep, rest
<1>8. \A i \in 1 .. n : i \in 1 .. n - 1 \/ i = n BY <1>3
<1>9. n \in 1 .. n /\ n + 1 \notin 1 .. n BY <1>3
<1>10. /\ path \in Seq(Nodes) /\ Distinct(path)
       /\ \A p \in Nodes : colour[p] = "in_progress" <=> p \in ToSet(path)
       /\ \A i \in 1 .. n :
          /\ ToSet(todo[i]) \subseteq Inner(path[i])
          /\ i + 1 \in 1 .. n => path[i + 1] \in Inner(path[i])
          /\ \A q \in Inner(path[i]) :
                colour[q] = "done" \/ q \in ToSet(todo[i]) \/ (i + 1 \in 1 .. n /\ path[i + 1] = q)
  BY <1>2, <1>3 DEF PathOf
<1>11. dep \in Inner(path[n]) BY <1>4, <1>5, <1>9, <1>10
<1>12. \A i \in 1 .. n :
          /\ ToSet(rest[i]) \subseteq Inner(path[i])
          /\ \A q \in Inner(path[i]) : colour[q] = "done" \/ q \in ToSet(rest[i])
                \/ (i + 1 \in 1 .. n /\ path[i + 1] = q) \/ (i = n /\ q = dep)
  <2>1. ToSet(rest[n]) \subseteq ToSet(todo[n]) /\ ToSet(todo[n]) = {dep} \cup ToSet(rest[n])
    BY <1>4, <1>5, <1>6, <1>7
  <2> SUFFICES ASSUME NEW i \in 1 .. n
               PROVE /\ ToSet(rest[i]) \subseteq Inner(path[i])
                     /\ \A q \in Inner(path[i]) : colour[q] = "done" \/ q \in ToSet(rest[i])
                           \/ (i + 1 \in 1 .. n /\ path[i + 1] = q) \/ (i = n /\ q = dep)
    OBVIOUS
  <2>2. CASE i = n BY <1>10, <2>1, <2>2
  <2>3. CASE i \in 1 .. n - 1 BY <1>7, <1>10, <2>3
  <2> QED BY <1>8, <2>2, <2>3
<1>13. colour \in [Nodes -> {"unvisited", "in_progress", "done"}] BY <1>1 DEF DoneInv
<1>14. CASE /\ colour[dep] = "in_progress"
            /\ path' = Append(path, dep) /\ phase' = "cyclic" /\ UNCHANGED <<colour, todo>>
  <2>1. PICK pp : pp = Append(path, dep) OBVIOUS
  <2>2. /\ pp \in Seq(Nodes) /\ Len(pp) = n + 1 /\ pp[n + 1] = dep
        /\ \A i \in 1 .. n : pp[i] = path[i]
    BY <1>3, <1>5, <1>10, <2>1
  <2>3. \A i \in 1 .. n : pp[i + 1] \in Inner(pp[i])
    <3> SUFFICES ASSUME NEW i \in 1 .. n PROVE pp[i + 1] \in Inner(pp[i]) OBVIOUS
    <3>1. CASE i = n BY <1>9, <1>11, <2>2, <3>1
    <3>2. CASE i \in 1 .. n - 1
      <4>1. i + 1 \in 1 .. n BY <1>3, <3>2
      <4> QED BY <1>10, <2>2, <4>1
    <3> QED BY <1>8, <3>1, <3>2
  <2>4. Last(pp) = dep /\ ToSet(Front(pp)) = ToSet(path)
    <3>1. pp # <<>> BY <1>3, <2>2
    <3>2. /\ Last(pp) = pp[n + 1] /\ Front(pp) \in Seq(Nodes) /\ Len(Front(pp)) = n
          /\ \A i \in 1 .. n : Front(pp)[i] = pp[i]
      <4>1. Len(pp) - 1 = n BY <1>3, <2>2
      <4> QED BY <2>2, <3>1, <4>1, LastPlace
    <3>3. DOMAIN Front(pp) = 1 .. n /\ DOMAIN path = 1 .. n BY <1>3, <1>10, <3>2
    <3> QED BY <2>2, <3>2, <3>3 DEF ToSet
  <2>5. dep \in ToSet(path) BY <1>5, <1>10, <1>14
  <2>6. /\ \A i \in 1 .. Len(pp) - 1 : pp[i + 1] \in Inner(pp[i])
        /\ Last(pp) \in ToSet(Front(pp))
    <3>1. Len(pp) - 1 = n BY <1>3, <2>2
    <3> QED BY <2>3, <2>4, <2>5, <3>1
  <2>7. path' = pp BY <1>14, <2>1
  <2>8. CycleInv'
    <3>1. \A p : Inner(p)' = Inner(p) BY <1>1, SameGraph
    <3>2. /\ \A i \in 1 .. Len(path') - 1 : path'[i + 1] \in Inner(path'[i])
          /\ Last(path') \in ToSet(Front(path'))
      BY <2>6, <2>7
    <3>3. \A p : Inner(p)' = Inner(p) /\ Dependencies(p)' = Dependencies(p)
      BY <1>1, <3>1 DEF Dependencies, Nodes
    <3> QED BY <1>1, <1>14, <3>2, <3>3 DEF CycleInv, Inner, Nodes, Dependencies
  <2> QED BY <1>1, <1>14, <2>8, SearchOnly
<1>15. CASE colour[dep] = "unvisited" /\ Enter(dep, rest)
  <2> DEFINE new == Sorted(Inner(dep))
             cc == [colour EXCEPT ![dep] = "in_progress"]
             pp == Append(path, dep)
             tt == Append(rest, new)
  <2>1. /\ colour' = cc /\ path' = pp /\ todo' = tt /\ phase' = "detect"
    BY <1>1, <1>15 DEF Enter
  <2>2. new \in Seq(Nodes) /\ ToSet(new) = Inner(dep)
    <3>1. Inner(dep) \in SUBSET Packages /\ Inner(dep) \subseteq Nodes BY <1>1, NamesFinite
    <3>2. new \in Seq(Inner(dep)) /\ ToSet(new) = Inner(dep) BY <1>1, <3>1, SortedLists
    <3> QED BY <3>1, <3>2
  <2> HIDE DEF new
  <2>3. \A i \in 1 .. n :
              /\ ToSet(rest[i]) \subseteq Inner(path[i])
              /\ i + 1 \in 1 .. n => path[i + 1] \in Inner(path[i])
              /\ i = n => dep \in Inner(path[i])
              /\ \A q \in Inner(path[i]) :
                    \/ colour[q] = "done" \/ q \in ToSet(rest[i])
                    \/ i + 1 \in 1 .. n /\ path[i + 1] = q
                    \/ i = n /\ q = dep
    BY <1>10, <1>11, <1>12
  <2>4. PathOf(cc, pp, tt)
    <3>1. ToEnter(colour, path, dep, rest) BY <1>3, <1>10, <2>3 DEF ToEnter
    <3> QED BY <1>3, <1>5, <1>7, <1>10, <1>13, <1>15, <2>2, <3>1, EnterMoves
  <2>5. /\ cc \in [Nodes -> {"unvisited", "in_progress", "done"}]
        /\ \A p \in Nodes : cc[p] = "done" <=> p \in Done
    BY <1>5, <1>13, <1>15 DEF Done
  <2> HIDE DEF cc, pp, tt
  <2>6. CycleInv' BY <1>1, <2>1, <2>4, <2>5, DetectAfter
  <2> QED BY <1>1, <2>1, <2>6, SearchOnly
<1>16. CASE colour[dep] = "done" /\ todo' = rest /\ UNCHANGED <<colour, path, phase>>
  <2>1. \A i \in 1 .. n :
              /\ ToSet(rest[i]) \subseteq Inner(path[i])
              /\ i + 1 \in 1 .. n => path[i + 1] \in Inner(path[i])
              /\ \A q \in Inner(path[i]) :
                    colour[q] = "done" \/ q \in ToSet(rest[i])
                    \/ (i + 1 \in 1 .. n /\ path[i + 1] = q)
    BY <1>10, <1>12, <1>16
  <2>2. PathOf(colour, path, rest) BY <1>3, <1>7, <1>10, <2>1 DEF PathOf
  <2>3. \A p \in Nodes : colour[p] = "done" <=> p \in Done BY DEF Done
  <2>4. PICK c, pp : c = colour /\ pp = path OBVIOUS
  <2>5. colour' = c /\ path' = pp /\ todo' = rest /\ phase' = "detect" BY <1>1, <1>16, <2>4
  <2>6. /\ PathOf(c, pp, rest) /\ \A p \in Nodes : c[p] = "done" <=> p \in Done
        /\ c \in [Nodes -> {"unvisited", "in_progress", "done"}]
    BY <1>13, <2>2, <2>3, <2>4
  <2>7. CycleInv' BY <1>1, <2>5, <2>6, DetectAfter
  <2> QED BY <1>1, <2>5, <2>7, SearchOnly
<1> QED BY <1>14, <1>15, <1>16 DEF LookAt, dep, rest

(* Every step of the planner and of the search keeps the invariant.        *)
LEMMA GraphInvInductive == GraphInv /\ [GraphNext]_graphVars => GraphInv'
<1> SUFFICES ASSUME GraphInv, [GraphNext]_graphVars PROVE GraphInv' OBVIOUS
<1>1. CASE Degrees BY <1>1, DegreesInv
<1>2. CASE SortStep BY <1>2, SortStepInv
<1>3. CASE SortEnd BY <1>3, SortEndInv
<1>4. CASE InvalidateStep BY <1>4, InvalidateStepInv
<1>5. CASE PlanEnd BY <1>5, PlanEndInv
<1>6. CASE NextRoot BY <1>6, NextRootInv
<1>7. CASE LookAt BY <1>7, LookAtInv
<1>8. CASE Leave BY <1>8, LeaveInv
<1>9. CASE UNCHANGED graphVars
  <2>1. /\ UNCHANGED <<graph, changed, phase, degree, order, queue, invalidated, colour, path, todo>>
        /\ UNCHANGED graph
    BY <1>9 DEF graphVars, sortVars, cycleVars
  <2>2. GraphTyped' BY <2>1, SameGraph DEF GraphInv, GraphTyped
  <2>3. SortInv' BY <2>1, SameGraph DEF GraphInv, SortInv, SortedSoFar
  <2>4. OrderInv' BY <2>1, SameGraph DEF GraphInv, OrderInv
  <2>5. ReachInv' BY <2>1, SameGraph DEF GraphInv, ReachInv
  <2>6. CycleInv'
    <3>1. Done' = Done BY <2>1, SameGraph DEF Done
    <3>2. \A p : Inner(p)' = Inner(p) BY <2>1, SameGraph
    <3>3. DoneInv' <=> DoneInv BY <2>1, <3>1, SameGraph DEF DoneInv
    <3>4. PathInv => PathInv'
      <4> SUFFICES ASSUME PathInv PROVE PathInv' OBVIOUS
      <4>1. PICK c, pa, to : c = colour /\ pa = path /\ to = todo OBVIOUS
      <4>2. PathOf(c, pa, to) BY <4>1, PathInvIs
      <4>3. colour' = c /\ path' = pa /\ todo' = to BY <2>1, <4>1
      <4> QED BY <2>1, <4>2, <4>3, PathAfter
    <3> QED BY <2>1, <3>3, <3>4, SameGraph DEF GraphInv, CycleInv
  <2> QED BY <2>2, <2>3, <2>4, <2>5, <2>6 DEF GraphInv
<1> QED BY <1>1, <1>2, <1>3, <1>4, <1>5, <1>6, <1>7, <1>8, <1>9 DEF GraphNext

(* The invariant holds throughout.                                         *)
THEOREM PlansAreSound == GraphSpec => []GraphInv
BY InitGraphInv, GraphInvInductive, PTL DEF GraphSpec

(* The invariant has what the plan and the search promise.                 *)
LEMMA GraphInvMeans == GraphInv => RecompilesExactly /\ OrderOrCycle
<1> SUFFICES ASSUME GraphInv PROVE RecompilesExactly /\ OrderOrCycle OBVIOUS
<1>1. RecompilesExactly
  <2> SUFFICES ASSUME phase = "planned"
               PROVE /\ changed \subseteq invalidated
                     /\ Closed(invalidated)
                     /\ \A S \in SUBSET Packages : changed \subseteq S /\ Closed(S) => invalidated \subseteq S
                     /\ Cached = Nodes \ invalidated
    BY DEF RecompilesExactly
  <2>1. /\ changed \subseteq invalidated /\ queue = <<>>
        /\ \A p \in invalidated \ ToSet(queue) : Dependents(p) \subseteq invalidated
        /\ \A S \in SUBSET Packages : changed \subseteq S /\ Closed(S) => invalidated \subseteq S
    BY DEF GraphInv, ReachInv
  <2>2. ToSet(queue) = {} BY <2>1 DEF ToSet
  <2>3. Closed(invalidated) BY <2>1, <2>2 DEF Closed
  <2>4. Cached = Nodes \ invalidated BY <2>1 DEF Cached
  <2> QED BY <2>1, <2>3, <2>4
<1>2. DependenciesFirst
  <2> SUFFICES ASSUME phase = "planned"
               PROVE /\ Cyclic <=> order = <<>> /\ Nodes # {}
                     /\ ~Cyclic =>
                          /\ ToSet(Recompile) = invalidated \cap Nodes
                          /\ \A i, j \in 1 .. Len(Recompile) :
                               Recompile[i] \in Inner(Recompile[j]) => i < j
    BY DEF DependenciesFirst
  <2>1. CASE order = <<>> /\ (Cyclic \/ Nodes = {})
    <3>1. Nodes = {} => ~Cyclic BY DEF Cyclic
    <3>2. order \in Seq(Nodes) /\ ToSet(order) = {} BY <2>1 DEF ToSet
    <3>3. Retain(order, invalidated) \in Seq(Nodes)
          /\ ToSet(Retain(order, invalidated)) = ToSet(order) \cap invalidated
      BY <3>2, RetainPlaces, RetainFacts
    <3>4. PICK r \in Seq(Nodes) : r = Recompile BY <3>3, Zenon DEF Recompile
    <3>5. ToSet(r) = {} BY <3>2, <3>3, <3>4 DEF Recompile
    <3>6. DOMAIN r = 1 .. Len(r) BY <3>4
    <3>7. \A i \in 1 .. Len(r) : FALSE BY <3>5, <3>6 DEF ToSet
    <3> QED BY <2>1, <3>1, <3>4, <3>5, <3>7
  <2>2. CASE /\ order \in Seq(Nodes) /\ Distinct(order) /\ ToSet(order) = Nodes
             /\ DependenciesBefore(order)
    <3>1. ~Cyclic BY <2>2, ListedIsAcyclic
    <3>2. ~(order = <<>> /\ Nodes # {})
      <4>1. order = <<>> => ToSet(order) = {} BY DEF ToSet
      <4> QED BY <2>2, <4>1
    <3>3. /\ Retain(order, invalidated) \in Seq(Nodes)
          /\ ToSet(Retain(order, invalidated)) = ToSet(order) \cap invalidated
          /\ \A i, j \in 1 .. Len(Retain(order, invalidated)) : \A k, m \in 1 .. Len(order) :
                Retain(order, invalidated)[i] = order[k] /\ Retain(order, invalidated)[j] = order[m]
                /\ k < m => i < j
      BY <2>2, RetainPlaces, RetainFacts
    <3>4. PICK r \in Seq(Nodes) : r = Retain(order, invalidated) BY <3>3, Zenon
    <3>5. r = Recompile BY <3>4, Zenon DEF Recompile
    <3>6. /\ ToSet(r) = invalidated \cap Nodes
          /\ \A i, j \in 1 .. Len(r) : \A k, m \in 1 .. Len(order) :
                r[i] = order[k] /\ r[j] = order[m] /\ k < m => i < j
      BY <2>2, <3>3, <3>4
    <3>7. ASSUME NEW i \in 1 .. Len(r), NEW j \in 1 .. Len(r), r[i] \in Inner(r[j])
          PROVE i < j
      <4>1. DOMAIN r = 1 .. Len(r) /\ DOMAIN order = 1 .. Len(order) BY <2>2, <3>4
      <4>2. r[j] \in ToSet(order) BY <2>2, <3>6, <3>7, <4>1 DEF ToSet
      <4>3. PICK m \in 1 .. Len(order) : order[m] = r[j] BY <4>1, <4>2 DEF ToSet
      <4>4. PICK k \in 1 .. Len(order) : k < m /\ order[k] = r[i]
        BY <2>2, <3>7, <4>3 DEF DependenciesBefore
      <4> QED BY <3>6, <4>3, <4>4
    <3> QED BY <3>1, <3>2, <3>5, <3>6, <3>7
  <2> QED BY <2>1, <2>2 DEF GraphInv, OrderInv
<1>3. CycleIsReal BY DEF GraphInv, CycleInv, CycleIsReal
<1> QED BY <1>1, <1>2, <1>3 DEF OrderOrCycle

(* A plan recompiles the changed packages with all that import them, and   *)
(* nothing else (DepGraph::invalidated_by, CompileSession::plan).          *)
THEOREM RecompilesWhatChanged == GraphSpec => []RecompilesExactly
BY PlansAreSound, GraphInvMeans, PTL

(* A plan compiles a package after its imports unless these form a cycle,  *)
(* and detect_cycle finds a cycle iff there is one, and names it           *)
(* (topological_sort, compute_build_order, detect_cycle).                  *)
THEOREM OrdersOrNamesACycle == GraphSpec => []OrderOrCycle
BY PlansAreSound, GraphInvMeans, PTL

=============================================================================
