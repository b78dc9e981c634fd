-------------------------- MODULE Installer_proofs --------------------------
(***************************************************************************)
(* Theorems about Installer, for any directories, hosts, releases, command *)
(* lines, and any number of runs and faults.                               *)
(***************************************************************************)
EXTENDS Installer, TLAPS, WellFoundedInduction

-----------------------------------------------------------------------------
(* Detection.                                                              *)

LEMMA DetectType ==
  ASSUME NEW option \in Dirs \cup {NoDir}, NEW h \in Hosts, NEW existing
  PROVE  /\ detect_immodules_dir(option, h, existing) \in Dirs \cup {NoDir}
         /\ option # NoDir => detect_immodules_dir(option, h, existing) = option
<1>1. Candidates \in Seq(Dirs) /\ h.pkgconfig \in Dirs \cup {NoDir} /\ h.ldconfig \in Dirs \cup {NoDir}
  BY InstallerAssumption
<1>2. \A i \in DOMAIN Candidates : Candidates[i] \in Dirs
  BY <1>1
<1>. QED  BY <1>1, <1>2 DEF detect_immodules_dir

\* Making the detected directory does not change what is detected.
LEMMA DetectStable ==
  ASSUME NEW h \in Hosts, NEW existing,
         NEW d \in Dirs, detect_immodules_dir(NoDir, h, existing) = d
  PROVE  detect_immodules_dir(NoDir, h, existing \cup {d}) = d
<1>. DEFINE more == existing \cup {d}
<1>1. CASE h.pkgconfig # NoDir
  BY <1>1 DEF detect_immodules_dir
<1>2. CASE h.pkgconfig = NoDir /\ \E i \in DOMAIN Candidates : first_existing(i, existing)
  <2>1. d \in existing
    BY <1>2 DEF detect_immodules_dir, first_existing
  <2>2. more = existing
    BY <2>1
  <2>. QED  BY <2>2
<1>3. CASE h.pkgconfig = NoDir /\ ~ \E i \in DOMAIN Candidates : first_existing(i, existing)
  <2>1. d = h.ldconfig
    BY <1>3 DEF detect_immodules_dir
  <2>2. ASSUME NEW i \in DOMAIN Candidates, first_existing(i, more)  PROVE Candidates[i] = d
    BY <2>2, <1>3 DEF first_existing
  <2>. QED  BY <2>1, <2>2, <1>3 DEF detect_immodules_dir
<1>. QED  BY <1>1, <1>2, <1>3

\* Naturals have a least element, from the well-foundedness the library proves.
LEMMA LeastNatural ==
  ASSUME NEW S \in SUBSET Nat, S # {}
  PROVE  \E x \in S : \A y \in S : ~(y < x)
<1>. DEFINE Less == {p \in Nat \X Nat : p[1] < p[2]}
<1>1. IsWellFoundedOn(Less, Nat)
  BY NatLessThanWellFounded DEF OpToRel
<1>. HIDE DEF Less
<1>2. PICK x \in S : \A y \in S : <<y, x>> \notin Less
  BY <1>1, WFMin
<1>3. \A y \in S : ~(y < x)
  BY <1>2 DEF Less
<1>. QED  BY <1>3

\* If a candidate exists, one of them is the first that does.
LEMMA FirstExists ==
  ASSUME NEW existing, NEW i \in DOMAIN Candidates, Candidates[i] \in existing
  PROVE  \E k \in DOMAIN Candidates : first_existing(k, existing)
<1>. DEFINE there == {k \in DOMAIN Candidates : Candidates[k] \in existing}
<1>1. there \in SUBSET Nat /\ there # {}
  BY InstallerAssumption
<1>2. PICK k \in there : \A j \in there : ~(j < k)
  BY <1>1, LeastNatural
<1>. QED  BY <1>2 DEF first_existing

\* Making any directory leads detection there or nowhere else than before.
LEMMA DetectMoves ==
  ASSUME NEW h \in Hosts, NEW existing, NEW d \in Dirs
  PROVE  detect_immodules_dir(NoDir, h, existing \cup {d})
           \in {detect_immodules_dir(NoDir, h, existing), d}
<1>. DEFINE more == existing \cup {d}
            old  == detect_immodules_dir(NoDir, h, existing)
            new  == detect_immodules_dir(NoDir, h, more)
<1>1. CASE h.pkgconfig # NoDir
  BY <1>1 DEF detect_immodules_dir
<1>2. CASE h.pkgconfig = NoDir /\ \E i \in DOMAIN Candidates : first_existing(i, more)
  <2>1. PICK i \in DOMAIN Candidates : first_existing(i, more) /\ new = Candidates[i]
    BY <1>2 DEF detect_immodules_dir
  <2>2. SUFFICES ASSUME Candidates[i] # d  PROVE new = old
    BY <2>1
  <2>3. first_existing(i, existing)
    BY <2>1, <2>2 DEF first_existing
  <2>4. \A j \in DOMAIN Candidates : first_existing(j, existing) => j = i
    BY <2>3, InstallerAssumption DEF first_existing
  <2>. QED  BY <1>2, <2>1, <2>3, <2>4 DEF detect_immodules_dir
<1>3. CASE h.pkgconfig = NoDir /\ ~ \E i \in DOMAIN Candidates : first_existing(i, more)
  <2>1. new = h.ldconfig
    BY <1>3 DEF detect_immodules_dir
  <2>2. \A i \in DOMAIN Candidates : Candidates[i] \notin more
    BY <1>3, FirstExists
  <2>3. ~ \E i \in DOMAIN Candidates : first_existing(i, existing)
    BY <2>2 DEF first_existing
  <2>. QED  BY <1>3, <2>1, <2>3 DEF detect_immodules_dir
<1>. QED  BY <1>1, <1>2, <1>3

-----------------------------------------------------------------------------
(* The inductive invariant.                                                *)

Installing == {"engine", "component", "make_dir", "module"}
Removing   == {"rm_engine", "rm_component", "rm_module"}
Working    == Installing \cup Removing \cup {"query_modules", "write_cache"}

\* Every option that was passed over was a setting.
Parsed ==
  /\ run.shifted <= Len(run.given)
  /\ \A i \in 1 .. run.shifted : run.given[i].opt \in Settings

\* Past the options, all of them were settings, and the run may write.
Admitted ==
  pc \in Working \cup {"detect"} =>
    run.shifted = Len(run.given) /\ run.root /\ ~ostree

\* A run knows its directory from detection on, fails only into the cleanup, and
\* takes the commands of its own mode.
Course ==
  /\ pc \in {"extract", "options", "detect"} => run.dir = NoDir
  /\ pc \notin {"ended", "cleanup"} => status = "none"
  /\ at("cleanup") => status \in {"none", "failed"}
  /\ pc \in Installing => ~run.uninstall
  /\ pc \in Removing => run.uninstall

\* The run is where it says it is: its directory is the one detection gives.
Directed ==
  pc \in Working => run.dir = detect_immodules_dir(run.option, host, dirs)

\* All commands on files have succeeded, and nothing has failed since.
Finished ==
  /\ run.dir # NoDir
  /\ \/ pc \in {"query_modules", "write_cache"}
     \/ at("cleanup") /\ status = "none"
     \/ at("ended") /\ status = "done"

Wanted == IF run.uninstall THEN "none" ELSE run.version

\* The files a run has dealt with are as it wants them.
Progress ==
  /\ Finished \/ pc \in {"component", "make_dir", "module", "rm_component", "rm_module"}
       => disk["engine"] = Wanted
  /\ Finished \/ pc \in {"make_dir", "module", "rm_module"} => disk["component"] = Wanted
  /\ Finished => disk[run.dir] = Wanted

\* A finished uninstall has left nothing that its options led to, unless another
\* directory has come in between.
Undone ==
  Finished /\ run.uninstall =>
    \A d \in Dirs : disk[d] # "none" /\ origin[d] = run.option =>
      run.option = NoDir /\ run.dir \in made

\* A cache that was refreshed is right.
ModulesCached ==
  "modules" \in run.unrefreshed \/ (run.dir \in listed <=> disk[run.dir] \in Versions)

RegistryCached ==
  "registry" \in run.unrefreshed \/ (registry <=> disk["component"] \in Versions)

Cached ==
  Finished /\ run.refresh =>
    /\ ~at("query_modules") => ModulesCached
    /\ pc \notin {"query_modules", "write_cache"} => RegistryCached

\* A module that came with a directory is in it; one that came with none is where
\* detection leads now, or detection leads to a directory an --immodules-dir made.
Origins ==
  \A d \in Dirs :
    /\ origin[d] \in {d, NoDir, "elsewhere"}
    /\ origin[d] = NoDir => detected(dirs) = d \/ detected(dirs) \in made

InstallerInvariant ==
  TypeOK /\ Parsed /\ Admitted /\ Course /\ Directed /\ Progress /\ Undone /\ Cached
  /\ Origins /\ PayloadRemoved

LEMMA InvariantImplies ==
  InstallerInvariant => SuccessIsComplete /\ UninstallUndoes /\ CachesFollow
<1>. SUFFICES ASSUME InstallerInvariant, Succeeded
              PROVE  /\ \A f \in {"engine", "component", run.dir} : disk[f] = Wanted
                     /\ run.uninstall =>
                          \A d \in Dirs : disk[d] # "none" /\ origin[d] = run.option =>
                            run.option = NoDir /\ run.dir \in made
                     /\ run.refresh => ModulesCached /\ RegistryCached
  BY DEF SuccessIsComplete, UninstallUndoes, CachesFollow, Wanted, ModulesCached,
         RegistryCached
<1>1. Finished /\ at("ended")
  BY DEF Succeeded, Finished
<1>. QED
  BY <1>1 DEF InstallerInvariant, Progress, Undone, Cached, at

LEMMA InvariantInit ==
  Init => InstallerInvariant
<1>. SUFFICES ASSUME Init  PROVE InstallerInvariant
  OBVIOUS
<1>1. /\ run.given = <<>> /\ run.shifted = 0 /\ run.dir = NoDir
      /\ run \in Runs
  BY InstallerAssumption DEF Init, started, Runs
<1>2. /\ disk \in [Files -> Contents]
      /\ origin \in [Dirs -> Dirs \cup {NoDir, "elsewhere"}]
      /\ \A d \in Dirs : origin[d] = "elsewhere"
  BY DEF Init, Files, Contents
<1>3. pc = "ended" /\ tmp = FALSE /\ status = "none"
  BY DEF Init
<1>4. TypeOK
  <2>1. /\ pc \in Steps /\ tmp \in BOOLEAN /\ status \in {"none", "done", "failed", "killed"}
        /\ pc \notin Script
    BY <1>3 DEF Steps, Script
  <2>2. dirs = {} /\ made = {} /\ listed = {} /\ registry \in BOOLEAN /\ host \in Hosts /\ ostree \in BOOLEAN
    BY DEF Init
  <2>3. runs \in 0 .. MaxRuns /\ faults \in 0 .. MaxFaults
    BY InstallerAssumption DEF Init
  <2>. QED  BY <1>1, <1>2, <2>1, <2>2, <2>3 DEF TypeOK
<1>5. Parsed /\ Admitted /\ Course /\ Directed
  BY <1>1, <1>3 DEF Parsed, Admitted, Course, Directed, Working, Installing, Removing
<1>6. ~Finished
  BY <1>1 DEF Finished
<1>7. Progress /\ Undone /\ Cached
  BY <1>3, <1>6 DEF Progress, Undone, Cached
<1>8. Origins
  BY <1>2, InstallerAssumption DEF Origins
<1>9. PayloadRemoved
  BY <1>3 DEF PayloadRemoved
<1>. QED  BY <1>4, <1>5, <1>7, <1>8, <1>9 DEF InstallerInvariant

-----------------------------------------------------------------------------
(* The steps that leave files, caches and the shell's variables alone.     *)

LEMMA Quiet ==
  ASSUME InstallerInvariant,
         UNCHANGED <<run, files, caches, host, ostree>>,
         pc' \in Steps, tmp' \in BOOLEAN, status' \in {"none", "done", "failed", "killed"},
         runs' \in 0 .. MaxRuns, faults' \in 0 .. MaxFaults,
         pc' \notin Working, pc' = "detect" => Admitted',
         pc' = "detect" => run.dir = NoDir, pc' = "options" => run.dir = NoDir,
         pc' = "extract" => run.dir = NoDir,
         pc' \notin {"ended", "cleanup"} => status' = "none",
         pc' = "cleanup" => status' \in {"none", "failed"},
         Finished' => Finished /\ pc = "cleanup",
         PayloadRemoved'
  PROVE  InstallerInvariant'
<1>. USE DEF files, caches
<1>1. TypeOK'
  BY DEF InstallerInvariant, TypeOK, Working, Installing, Removing, Script, Steps
<1>2. Parsed' /\ Origins'
  BY DEF InstallerInvariant, Parsed, Origins, detected
<1>3. Admitted'
  <2>1. CASE pc' = "detect"
    BY <2>1
  <2>2. CASE pc' # "detect"
    BY <2>2 DEF Admitted
  <2>. QED  BY <2>1, <2>2
<1>4. Course' /\ Directed'
  BY DEF Course, Directed, Working, Installing, Removing, at
<1>5. Progress'
  <2>1. pc' \notin {"component", "make_dir", "module", "rm_component", "rm_module"}
    BY DEF Working, Installing, Removing
  <2>2. Finished' => /\ disk["engine"] = Wanted /\ disk["component"] = Wanted
                     /\ disk[run.dir] = Wanted
    BY DEF InstallerInvariant, Progress
  <2>. QED  BY <2>1, <2>2 DEF Progress, Wanted
<1>6. Undone'
  BY DEF InstallerInvariant, Undone
<1>7. Cached'
  BY DEF InstallerInvariant, Cached, ModulesCached, RegistryCached, at
<1>. QED  BY <1>1, <1>2, <1>3, <1>4, <1>5, <1>6, <1>7 DEF InstallerInvariant

\* die keeps the invariant wherever it is called.
LEMMA DieKeeps ==
  ASSUME InstallerInvariant, die, UNCHANGED <<tmp, run, files, caches, host, ostree>>,
         runs' \in 0 .. MaxRuns, faults' \in 0 .. MaxFaults
  PROVE  InstallerInvariant'
<1>1. pc' = "cleanup" /\ status' = "failed"
  BY DEF die, goto
<1>2. ~Finished' /\ PayloadRemoved'
  BY <1>1 DEF Finished, PayloadRemoved, at
<1>3. tmp' \in BOOLEAN
  BY DEF InstallerInvariant, TypeOK
<1>. QED
  BY <1>1, <1>2, <1>3, Quiet DEF Steps, Working, Installing, Removing

LEMMA FaultType ==
  ASSUME InstallerInvariant, fault  PROVE faults' \in 0 .. MaxFaults
BY InstallerAssumption DEF fault, InstallerInvariant, TypeOK

LEMMA ExtractKeeps ==
  ASSUME InstallerInvariant, extract  PROVE InstallerInvariant'
<1>. USE DEF InstallerInvariant, TypeOK
<1>1. runs' \in 0 .. MaxRuns /\ faults' \in 0 .. MaxFaults
  BY FaultType DEF extract
<1>2. CASE die
  BY <1>1, <1>2, DieKeeps DEF extract
<1>3. CASE tmp /\ goto("options") /\ UNCHANGED <<status, faults>>
  <2>1. pc = "extract" /\ pc' = "options" /\ status' = "none" /\ run.dir = NoDir
    BY <1>3 DEF extract, at, goto, Course
  <2>2. ~Finished' /\ PayloadRemoved'
    BY <2>1 DEF Finished, PayloadRemoved, at
  <2>. QED  BY <1>1, <1>3, <2>1, <2>2, Quiet DEF extract, Steps, Working, Installing, Removing
<1>. QED  BY <1>2, <1>3 DEF extract

LEMMA TrapKeeps ==
  ASSUME InstallerInvariant, trap  PROVE InstallerInvariant'
<1>1. /\ pc = "extract" /\ pc' = "extract" /\ status' = "none" /\ run.dir = NoDir
      /\ tmp' = FALSE /\ faults' \in 0 .. MaxFaults /\ runs' \in 0 .. MaxRuns
  BY FaultType DEF trap, at, InstallerInvariant, Course, TypeOK
<1>2. ~Finished' /\ PayloadRemoved'
  BY <1>1 DEF Finished, PayloadRemoved, at
<1>. QED  BY <1>1, <1>2, Quiet DEF trap, Steps, Working, Installing, Removing

LEMMA CleanupKeeps ==
  ASSUME InstallerInvariant, cleanup  PROVE InstallerInvariant'
<1>1. /\ pc = "cleanup" /\ pc' = "ended" /\ tmp' = FALSE
      /\ status' = IF status = "none" THEN "done" ELSE status
      /\ status' \in {"none", "done", "failed", "killed"}
      /\ UNCHANGED <<run, runs, faults, files, caches, host, ostree>>
  BY DEF cleanup, at, goto, InstallerInvariant, TypeOK
<1>2. status = "done" => FALSE
  BY <1>1 DEF InstallerInvariant, Course, at
<1>3. Finished' => Finished
  BY <1>1, <1>2 DEF Finished, at
<1>4. PayloadRemoved'
  BY <1>1 DEF PayloadRemoved
<1>. QED
  BY <1>1, <1>3, <1>4, Quiet DEF Steps, Working, Installing, Removing, InstallerInvariant, TypeOK

LEMMA KillKeeps ==
  ASSUME InstallerInvariant, kill  PROVE InstallerInvariant'
<1>1. /\ pc' = "ended" /\ status' = "killed" /\ faults' \in 0 .. MaxFaults
      /\ UNCHANGED <<tmp, run, runs, files, caches, host, ostree>>
  BY FaultType DEF kill, goto
<1>2. ~Finished' /\ PayloadRemoved'
  BY <1>1 DEF Finished, PayloadRemoved, at
<1>. QED
  BY <1>1, <1>2, Quiet DEF Steps, Working, Installing, Removing, InstallerInvariant, TypeOK

LEMMA OptionsKeep ==
  ASSUME InstallerInvariant, print_or_help \/ refuse_option \/ require
  PROVE  InstallerInvariant'
<1>1. /\ pc = "options" /\ status = "none" /\ run.dir = NoDir
      /\ UNCHANGED <<tmp, run, runs, faults, files, caches, host, ostree>>
      /\ runs' \in 0 .. MaxRuns /\ faults' \in 0 .. MaxFaults /\ tmp' \in BOOLEAN
  BY DEF print_or_help, refuse_option, require, at, InstallerInvariant, Course, TypeOK
<1>2. CASE die
  BY <1>1, <1>2, DieKeeps
<1>3. CASE goto("cleanup") /\ UNCHANGED status
  <2>1. pc' = "cleanup" /\ status' = "none"
    BY <1>1, <1>3 DEF goto
  <2>2. ~Finished' /\ PayloadRemoved'
    BY <1>1, <2>1 DEF Finished, PayloadRemoved, at
  <2>. QED  BY <1>1, <2>1, <2>2, Quiet DEF Steps, Working, Installing, Removing
<1>4. CASE require /\ run.root /\ ~ostree /\ goto("detect") /\ UNCHANGED status
  <2>1. pc' = "detect" /\ status' = "none"
    BY <1>1, <1>4 DEF goto
  <2>2. ~Finished' /\ PayloadRemoved' /\ Admitted'
    BY <1>1, <1>4, <2>1 DEF Finished, PayloadRemoved, Admitted, require, at
  <2>. QED  BY <1>1, <2>1, <2>2, Quiet DEF Steps, Working, Installing, Removing
<1>. QED  BY <1>2, <1>3, <1>4 DEF print_or_help, refuse_option, require

LEMMA InterruptKeeps ==
  ASSUME InstallerInvariant, interrupt  PROVE InstallerInvariant'
<1>1. runs' \in 0 .. MaxRuns /\ faults' \in 0 .. MaxFaults
  BY FaultType DEF interrupt, InstallerInvariant, TypeOK
<1>. QED  BY <1>1, DieKeeps DEF interrupt

-----------------------------------------------------------------------------
(* The steps that set the shell's variables.                               *)

LEMMA MktempKeeps ==
  ASSUME InstallerInvariant, NEW line \in CommandLines, NEW root \in BOOLEAN,
         NEW version \in Versions, mktemp(line, root, version)
  PROVE  InstallerInvariant'
<1>1. /\ pc' = "extract" /\ tmp' = TRUE /\ status' = "none"
      /\ run' = started(line, root, version)
      /\ runs' \in 0 .. MaxRuns /\ faults' \in 0 .. MaxFaults
      /\ UNCHANGED <<files, caches, host, ostree>>
  BY InstallerAssumption DEF mktemp, goto, InstallerInvariant, TypeOK
<1>2. line \in Seq(Options)
  BY InstallerAssumption
<1>3. /\ run' \in Runs /\ run'.dir = NoDir /\ run'.shifted = 0 /\ run'.given = line
  BY <1>1, <1>2 DEF started, Runs
<1>4. TypeOK'
  BY <1>1, <1>3 DEF InstallerInvariant, TypeOK, Steps, Script, files, caches
<1>5. Parsed'
  BY <1>2, <1>3 DEF Parsed
<1>6. Admitted' /\ Course' /\ Directed'
  BY <1>1, <1>3 DEF Admitted, Course, Directed, Working, Installing, Removing, at
<1>7. ~Finished'
  BY <1>3 DEF Finished
<1>8. Progress' /\ Undone' /\ Cached'
  BY <1>1, <1>7 DEF Progress, Undone, Cached
<1>9. Origins' /\ PayloadRemoved'
  BY <1>1 DEF InstallerInvariant, Origins, PayloadRemoved, detected, files, at
<1>. QED  BY <1>4, <1>5, <1>6, <1>8, <1>9 DEF InstallerInvariant

LEMMA SetOptionKeeps ==
  ASSUME InstallerInvariant, set_option  PROVE InstallerInvariant'
<1>. DEFINE o == run.given[run.shifted + 1]
<1>1. /\ pc = "options" /\ pc' = "options" /\ status' = "none" /\ run.dir = NoDir
      /\ run.shifted < Len(run.given) /\ o.opt \in Settings /\ run \in Runs
      /\ UNCHANGED <<tmp, runs, faults, files, caches, host, ostree>>
  BY DEF set_option, option_is, at, InstallerInvariant, Course, TypeOK
<1>2. o \in Options
  BY <1>1 DEF Runs
<1>3. /\ run'.given = run.given /\ run'.shifted = run.shifted + 1 /\ run'.dir = NoDir
      /\ run' \in Runs
  <2>. DEFINE option == IF o.opt = "immodules_dir" THEN o.dir ELSE run.option
              refresh == run.refresh /\ o.opt # "no_refresh"
              uninstall == run.uninstall \/ o.opt = "uninstall"
  <2>1. run' = [run EXCEPT !.shifted = run.shifted + 1, !.option = option,
                           !.refresh = refresh, !.uninstall = uninstall]
    BY <1>1 DEF set_option, Runs
  <2>2. /\ option \in Dirs \cup {NoDir} /\ run.shifted + 1 \in Nat
        /\ refresh \in BOOLEAN /\ uninstall \in BOOLEAN
    BY <1>1, <1>2 DEF Runs, Options
  <2>. HIDE DEF option, refresh, uninstall
  <2>. QED  BY <1>1, <2>1, <2>2 DEF Runs
<1>4. TypeOK'
  BY <1>1, <1>3 DEF InstallerInvariant, TypeOK, Script, files, caches
<1>5. Parsed'
  BY <1>1, <1>3 DEF InstallerInvariant, Parsed, Runs
<1>6. Admitted' /\ Course' /\ Directed'
  BY <1>1, <1>3 DEF Admitted, Course, Directed, Working, Installing, Removing, at
<1>7. ~Finished'
  BY <1>3 DEF Finished
<1>8. Progress' /\ Undone' /\ Cached'
  BY <1>1, <1>7 DEF Progress, Undone, Cached
<1>9. Origins' /\ PayloadRemoved'
  BY <1>1 DEF InstallerInvariant, Origins, PayloadRemoved, detected, files, at
<1>. QED  BY <1>4, <1>5, <1>6, <1>8, <1>9 DEF InstallerInvariant

LEMMA DetectKeeps ==
  ASSUME InstallerInvariant, detect  PROVE InstallerInvariant'
<1>. DEFINE dir == detect_immodules_dir(run.option, host, dirs)
<1>1. /\ pc = "detect" /\ status = "none" /\ run.dir = NoDir /\ run \in Runs
      /\ run' = [run EXCEPT !.dir = dir]
      /\ UNCHANGED <<tmp, runs, faults, files, caches, host, ostree>>
  BY DEF detect, at, InstallerInvariant, Course, TypeOK
<1>2. dir \in Dirs \cup {NoDir}
  BY <1>1, DetectType DEF InstallerInvariant, TypeOK, Runs
<1>3. \/ dir = NoDir /\ pc' = "cleanup" /\ status' = "failed"
      \/ dir # NoDir /\ status' = "none"
         /\ pc' = IF run.uninstall THEN "rm_engine" ELSE "engine"
  BY <1>1 DEF detect, die, goto
<1>. HIDE DEF dir
<1>4. /\ run' \in Runs /\ run'.dir = dir /\ run'.given = run.given /\ run'.shifted = run.shifted
      /\ run'.option = run.option /\ run'.root = run.root /\ run'.uninstall = run.uninstall
  BY <1>1, <1>2 DEF Runs
<1>5. /\ pc' \in Steps /\ status' \in {"none", "done", "failed", "killed"}
      /\ pc' \in Script => run'.dir \in Dirs
  BY <1>2, <1>3, <1>4 DEF Steps, Script
<1>6. TypeOK'
  BY <1>1, <1>4, <1>5 DEF InstallerInvariant, TypeOK, files, caches
<1>7. Parsed'
  BY <1>4 DEF InstallerInvariant, Parsed
<1>8. Admitted'
  BY <1>1, <1>3, <1>4 DEF InstallerInvariant, Admitted
<1>9. Course'
  BY <1>3, <1>4 DEF Course, Installing, Removing, at
<1>10. Directed'
  BY <1>1, <1>3, <1>4 DEF Directed, dir, files, Working, Installing, Removing
<1>11. ~Finished'
  BY <1>3, <1>4 DEF Finished, at
<1>12. Progress' /\ Undone' /\ Cached'
  BY <1>3, <1>11 DEF Progress, Undone, Cached
<1>13. Origins' /\ PayloadRemoved'
  BY <1>1, <1>3 DEF InstallerInvariant, Origins, PayloadRemoved, detected, files, at
<1>. QED  BY <1>6, <1>7, <1>8, <1>9, <1>10, <1>12, <1>13 DEF InstallerInvariant

LEMMA HostChangesKeeps ==
  ASSUME InstallerInvariant, host_changes  PROVE InstallerInvariant'
<1>1. /\ pc = "ended" /\ host' \in Hosts /\ dirs' \in SUBSET Dirs
      /\ origin' = moved(host', dirs')
      /\ UNCHANGED <<shell, disk, made, caches, ostree>>
  BY DEF host_changes, at
<1>2. /\ origin' \in [Dirs -> Dirs \cup {NoDir, "elsewhere"}]
      /\ \A d \in Dirs :
           IF /\ origin[d] = NoDir
              /\ detect_immodules_dir(NoDir, host', dirs') \notin {d, detected(dirs)}
           THEN origin'[d] = "elsewhere" ELSE origin'[d] = origin[d]
  BY <1>1 DEF moved, InstallerInvariant, TypeOK
<1>3. TypeOK'
  BY <1>1, <1>2 DEF InstallerInvariant, TypeOK, shell, caches, Script
<1>4. Parsed' /\ Admitted' /\ Course' /\ Directed' /\ PayloadRemoved'
  BY <1>1 DEF InstallerInvariant, Parsed, Admitted, Course, Directed, PayloadRemoved, shell,
              Working, Installing, Removing, at
<1>5. Progress' /\ Cached'
  BY <1>1 DEF InstallerInvariant, Progress, Cached, ModulesCached, RegistryCached, Finished,
              Wanted, shell, caches, at
<1>6. Undone'
  <2>1. run.option \in Dirs \cup {NoDir}
    BY DEF InstallerInvariant, TypeOK, Runs
  <2>2. \A d \in Dirs : origin[d] # run.option => origin'[d] # run.option
    BY <1>2, <2>1, InstallerAssumption
  <2>. QED
    BY <1>1, <2>2 DEF InstallerInvariant, Undone, Finished, shell, at
<1>7. Origins'
  <2>1. made' = made /\ detected(dirs)' = detect_immodules_dir(NoDir, host', dirs')
    BY <1>1 DEF detected
  <2>. QED  BY <1>2, <2>1, InstallerAssumption DEF InstallerInvariant, Origins
<1>. QED  BY <1>3, <1>4, <1>5, <1>6, <1>7 DEF InstallerInvariant

-----------------------------------------------------------------------------
(* The commands on files.                                                  *)

\* A failing command ends the run, whatever it did to its file.
LEMMA FailKeeps ==
  ASSUME InstallerInvariant, fail, disk' \in [Files -> Contents],
         origin' \in [Dirs -> Dirs \cup {NoDir, "elsewhere"}], made' \in SUBSET Dirs, Origins'
  PROVE  InstallerInvariant'
<1>1. /\ pc' = "cleanup" /\ status' = "failed" /\ faults' \in 0 .. MaxFaults
      /\ UNCHANGED <<tmp, run, runs, dirs, caches, host, ostree>>
  BY FaultType DEF fail, die, goto
<1>2. TypeOK'
  BY <1>1 DEF InstallerInvariant, TypeOK, Steps, Script, caches
<1>3. Parsed' /\ Admitted' /\ Course' /\ Directed' /\ PayloadRemoved'
  BY <1>1 DEF InstallerInvariant, Parsed, Admitted, Course, Directed, PayloadRemoved,
              Working, Installing, Removing, at
<1>4. ~Finished'
  BY <1>1 DEF Finished, at
<1>5. Progress' /\ Undone' /\ Cached'
  BY <1>1, <1>4 DEF Progress, Undone, Cached
<1>. QED  BY <1>2, <1>3, <1>5 DEF InstallerInvariant

\* What holds of a run at one of its commands on files.
LEMMA AtWork ==
  ASSUME InstallerInvariant, pc \in Working
  PROVE  /\ run \in Runs /\ run.dir \in Dirs /\ run.option \in Dirs \cup {NoDir}
         /\ run.version \in Contents /\ run.version # "none"
         /\ run.dir = detect_immodules_dir(run.option, host, dirs)
         /\ run.shifted = Len(run.given) /\ run.root /\ ~ostree /\ status = "none"
<1>1. pc \in Script \ {"options", "detect"}
  BY DEF Working, Installing, Removing, Script, Steps
<1>. QED
  BY <1>1, InstallerAssumption
  DEF InstallerInvariant, TypeOK, Runs, Contents, Directed, Admitted, Course, Working,
      Installing, Removing

\* What a copy does: one file gets the release, or anything at all in a failed run.
LEMMA InstallCases ==
  ASSUME InstallerInvariant, NEW step \in {"engine", "component", "module"},
         NEW file \in Files, NEW next, install(step, file, next)
  PROVE  /\ pc = step /\ disk' \in [Files -> Contents]
         /\ UNCHANGED <<dirs, host>>
         /\ \A f \in Files : f # file => disk'[f] = disk[f]
         /\ \/ disk'[file] = run.version /\ pass(next)
            \/ fail
<1>1. pc = step /\ run.version \in Contents
  BY AtWork DEF install, at, Working, Installing
<1>2. /\ disk \in [Files -> Contents]
      /\ \A content \in Left(file) : content \in Contents
  BY DEF InstallerInvariant, TypeOK, Left, Contents
<1>. QED  BY <1>1, <1>2 DEF install, pass, fail

LEMMA RmCases ==
  ASSUME InstallerInvariant, NEW step \in Removing, NEW file \in Files, NEW next,
         rm(step, file, next)
  PROVE  /\ pc = step /\ disk' \in [Files -> Contents]
         /\ UNCHANGED <<dirs, host>>
         /\ \A f \in Files : f # file => disk'[f] = disk[f]
         /\ \/ disk'[file] = "none" /\ pass(next)
            \/ fail
<1>1. pc = step
  BY DEF rm, at
<1>2. disk \in [Files -> Contents] /\ "none" \in Contents
  BY DEF InstallerInvariant, TypeOK, Contents
<1>. QED  BY <1>1, <1>2 DEF rm, pass, fail

LEMMA OriginsKept ==
  ASSUME InstallerInvariant, pc \in Working, UNCHANGED <<dirs, host, made>>,
         origin' = origin \/ origin' = [origin EXCEPT ![run.dir] = run.option]
  PROVE  /\ Origins' /\ made' \in SUBSET Dirs
         /\ origin' \in [Dirs -> Dirs \cup {NoDir, "elsewhere"}]
<1>1. /\ run.dir \in Dirs /\ run.option \in Dirs \cup {NoDir}
      /\ run.dir = detect_immodules_dir(run.option, host, dirs)
      /\ run.option # NoDir => run.dir = run.option
  BY AtWork, DetectType DEF InstallerInvariant, TypeOK
<1>2. origin \in [Dirs -> Dirs \cup {NoDir, "elsewhere"}] /\ made \in SUBSET Dirs
  BY DEF InstallerInvariant, TypeOK
<1>. QED  BY <1>1, <1>2 DEF InstallerInvariant, Origins, detected

\* A command that succeeds before the last one of the run.
LEMMA PassKeeps ==
  ASSUME InstallerInvariant, NEW next \in Installing \cup Removing, pass(next),
         pc \in Installing \cup Removing, pc \in Installing <=> next \in Installing,
         disk' \in [Files -> Contents], dirs' \in SUBSET Dirs, made' \in SUBSET Dirs,
         origin' \in [Dirs -> Dirs \cup {NoDir, "elsewhere"}], Origins', Directed', Progress'
  PROVE  InstallerInvariant'
<1>1. /\ pc' = next /\ status = "none" /\ run.dir \in Dirs
      /\ UNCHANGED <<tmp, run, status, runs, faults, caches, host, ostree>>
  BY AtWork DEF pass, goto, Working
<1>2. TypeOK'
  BY <1>1 DEF InstallerInvariant, TypeOK, Steps, Script, caches, Installing, Removing
<1>3. Parsed' /\ Admitted' /\ PayloadRemoved'
  BY <1>1 DEF InstallerInvariant, Parsed, Admitted, PayloadRemoved, Working, Installing,
              Removing, at
<1>4. Course'
  BY <1>1 DEF InstallerInvariant, Course, Installing, Removing, at
<1>5. ~Finished'
  BY <1>1 DEF Finished, Installing, Removing, at
<1>6. Undone' /\ Cached'
  BY <1>5 DEF Undone, Cached
<1>. QED  BY <1>2, <1>3, <1>4, <1>6 DEF InstallerInvariant

LEMMA InstallEngineKeeps ==
  ASSUME InstallerInvariant, install_engine \/ install_component  PROVE InstallerInvariant'
<1>1. PICK step \in {"engine", "component"}, next \in {"component", "make_dir"} :
        /\ next = "component" <=> step = "engine"
        /\ install(step, step, next)
  BY DEF install_engine, install_component
<1>2. /\ pc = step /\ disk' \in [Files -> Contents] /\ UNCHANGED <<dirs, host>>
      /\ \A f \in Files : f # step => disk'[f] = disk[f]
      /\ (disk'[step] = run.version /\ pass(next)) \/ fail
  <2>1. step \in Files
    BY DEF Files
  <2>. QED  BY <1>1, <2>1, InstallCases
<1>3. origin' = origin /\ made' = made
  BY DEF install_engine, install_component
<1>4. /\ Origins' /\ made' \in SUBSET Dirs
      /\ origin' \in [Dirs -> Dirs \cup {NoDir, "elsewhere"}]
      /\ run.dir \in Dirs /\ ~run.uninstall
  BY <1>2, <1>3, OriginsKept, AtWork DEF Working, Installing, InstallerInvariant, Course
<1>5. CASE fail
  BY <1>2, <1>4, <1>5, FailKeeps
<1>6. CASE disk'[step] = run.version /\ pass(next)
  <2>1. pc' = next /\ run' = run
    BY <1>6 DEF pass, goto
  <2>2. Directed'
    BY <1>2, <2>1 DEF InstallerInvariant, Directed, Working, Installing
  <2>3. ~Finished'
    BY <2>1 DEF Finished, at
  <2>4. Progress'
    <3>1. Wanted' = run.version /\ Wanted = run.version
      BY <1>4, <2>1 DEF Wanted
    <3>2. CASE step = "engine"
      BY <1>1, <1>6, <2>1, <2>3, <3>1, <3>2 DEF Progress
    <3>3. CASE step = "component"
      <4>1. disk["engine"] = run.version
        BY <1>2, <3>1, <3>3 DEF InstallerInvariant, Progress
      <4>2. disk'["engine"] = run.version
        BY <1>2, <4>1, <3>3 DEF Files
      <4>. QED  BY <1>6, <2>1, <2>3, <3>1, <3>3, <4>2 DEF Progress
    <3>. QED  BY <3>2, <3>3
  <2>. QED
    BY <1>2, <1>4, <1>6, <2>2, <2>4, PassKeeps DEF InstallerInvariant, TypeOK, Installing
<1>. QED  BY <1>2, <1>5, <1>6

LEMMA MakeDirKeeps ==
  ASSUME InstallerInvariant, make_dir  PROVE InstallerInvariant'
<1>1. /\ pc = "make_dir" /\ disk' = disk /\ host' = host /\ run' = run
      /\ run.dir \in Dirs /\ run.option \in Dirs \cup {NoDir} /\ ~run.uninstall
      /\ run.dir = detect_immodules_dir(run.option, host, dirs)
      /\ host \in Hosts /\ dirs \in SUBSET Dirs /\ disk \in [Files -> Contents]
      /\ made \in SUBSET Dirs
      /\ origin \in [Dirs -> Dirs \cup {NoDir, "elsewhere"}] /\ origin' = origin
  BY AtWork DEF make_dir, at, pass, fail, Working, Installing, InstallerInvariant, TypeOK, Course
<1>2. CASE fail /\ UNCHANGED made
  <2>1. Origins'
    BY <1>1, <1>2 DEF InstallerInvariant, Origins, detected, fail
  <2>. QED  BY <1>1, <1>2, <2>1, FailKeeps
<1>3. CASE /\ dirs' = dirs \cup {run.dir}
           /\ made' = IF run.option = NoDir THEN made ELSE made \cup ({run.dir} \ dirs)
           /\ pass("module")
  <2>1. PICK d \in Dirs : d = run.dir
    BY <1>1
  <2>2. /\ run.option = NoDir => detected(dirs) = d /\ detect_immodules_dir(NoDir, host, dirs') = d
        /\ detect_immodules_dir(run.option, host, dirs') = d
    BY <1>1, <1>3, <2>1, DetectStable, DetectType DEF detected
  <2>3. made' \in SUBSET Dirs /\ made \subseteq made'
    BY <1>1, <1>3
  <2>4. detected(dirs)' = detected(dirs) \/ detected(dirs)' \in made'
    <3>1. detected(dirs)' = detect_immodules_dir(NoDir, host, dirs')
      BY <1>1 DEF detected
    <3>2. CASE run.option = NoDir
      BY <2>2, <3>1, <3>2
    <3>3. CASE run.dir \in dirs
      <4>1. dirs' = dirs
        BY <1>3, <3>3
      <4>. QED  BY <3>1, <4>1 DEF detected
    <3>4. CASE run.option # NoDir /\ run.dir \notin dirs
      <4>1. d \in made'
        BY <1>3, <2>1, <3>4
      <4>2. detect_immodules_dir(NoDir, host, dirs') \in {detected(dirs), d}
        BY <1>1, <1>3, <2>1, DetectMoves DEF detected
      <4>. QED  BY <3>1, <4>1, <4>2
    <3>. QED  BY <3>2, <3>3, <3>4
  <2>5. Origins'
    BY <1>1, <2>3, <2>4 DEF InstallerInvariant, Origins
  <2>6. pc' = "module"
    BY <1>3 DEF pass, goto
  <2>7. Directed'
    BY <1>1, <2>1, <2>2 DEF Directed
  <2>8. ~Finished'
    BY <2>6 DEF Finished, at
  <2>9. Progress'
    BY <1>1, <2>6, <2>8 DEF InstallerInvariant, Progress, Wanted
  <2>10. dirs' \in SUBSET Dirs
    BY <1>1, <1>3
  <2>. QED
    BY <1>1, <1>3, <2>3, <2>5, <2>7, <2>9, <2>10, PassKeeps DEF Installing
<1>. QED  BY <1>2, <1>3 DEF make_dir

LEMMA RmEngineKeeps ==
  ASSUME InstallerInvariant, rm_engine \/ rm_component  PROVE InstallerInvariant'
<1>1. PICK step \in {"rm_engine", "rm_component"}, file \in {"engine", "component"},
           next \in {"rm_component", "rm_module"} :
        /\ file = "engine" <=> step = "rm_engine"
        /\ next = "rm_component" <=> step = "rm_engine"
        /\ rm(step, file, next)
  BY DEF rm_engine, rm_component
<1>2. /\ pc = step /\ disk' \in [Files -> Contents] /\ UNCHANGED <<dirs, host>>
      /\ \A f \in Files : f # file => disk'[f] = disk[f]
      /\ (disk'[file] = "none" /\ pass(next)) \/ fail
  <2>1. file \in Files /\ step \in Removing
    BY DEF Files, Removing
  <2>. QED  BY <1>1, <2>1, RmCases
<1>3. origin' = origin /\ made' = made
  BY DEF rm_engine, rm_component
<1>4. /\ Origins' /\ made' \in SUBSET Dirs
      /\ origin' \in [Dirs -> Dirs \cup {NoDir, "elsewhere"}]
      /\ run.dir \in Dirs /\ run.uninstall
  BY <1>2, <1>3, OriginsKept, AtWork DEF Working, Removing, InstallerInvariant, Course
<1>5. CASE fail
  BY <1>2, <1>4, <1>5, FailKeeps
<1>6. CASE disk'[file] = "none" /\ pass(next)
  <2>1. pc' = next /\ run' = run
    BY <1>6 DEF pass, goto
  <2>2. Directed'
    BY <1>2, <2>1 DEF InstallerInvariant, Directed, Working, Removing
  <2>3. ~Finished'
    BY <2>1 DEF Finished, at
  <2>4. Progress'
    <3>1. Wanted' = "none" /\ Wanted = "none"
      BY <1>4, <2>1 DEF Wanted
    <3>2. CASE step = "rm_engine"
      BY <1>1, <1>6, <2>1, <2>3, <3>1, <3>2 DEF Progress
    <3>3. CASE step = "rm_component"
      <4>1. disk["engine"] = "none"
        BY <1>2, <3>1, <3>3 DEF InstallerInvariant, Progress
      <4>2. disk'["engine"] = "none"
        BY <1>1, <1>2, <4>1, <3>3 DEF Files
      <4>. QED  BY <1>1, <1>6, <2>1, <2>3, <3>1, <3>3, <4>2 DEF Progress
    <3>. QED  BY <3>2, <3>3
  <2>. QED
    BY <1>2, <1>4, <1>6, <2>2, <2>4, PassKeeps
    DEF InstallerInvariant, TypeOK, Installing, Removing
<1>. QED  BY <1>2, <1>5, <1>6

-----------------------------------------------------------------------------
(* The last command on files, and the caches.                              *)

\* A run that has just done its work, and what that is.
LEMMA FinishKeeps ==
  ASSUME InstallerInvariant, pc \in {"module", "rm_module"}, pass(finish),
         disk' \in [Files -> Contents], UNCHANGED <<dirs, host>>, made' \in SUBSET Dirs,
         origin' \in [Dirs -> Dirs \cup {NoDir, "elsewhere"}], Origins',
         \A f \in {"engine", "component", run.dir} : disk'[f] = Wanted, Undone'
  PROVE  InstallerInvariant'
<1>1. /\ pc' = finish /\ status = "none" /\ run.dir \in Dirs
      /\ UNCHANGED <<tmp, run, status, runs, faults, caches, host, ostree>>
  BY AtWork DEF pass, goto, Working, Installing, Removing
<1>2. pc' = "query_modules" \/ (pc' = "cleanup" /\ ~run.refresh)
  BY <1>1 DEF finish
<1>3. TypeOK'
  BY <1>1, <1>2 DEF InstallerInvariant, TypeOK, Steps, Script, caches
<1>4. Parsed' /\ Admitted' /\ Directed' /\ PayloadRemoved'
  BY <1>1, <1>2 DEF InstallerInvariant, Parsed, Admitted, Directed, PayloadRemoved, Working,
                    Installing, Removing, at
<1>5. Course'
  BY <1>1, <1>2 DEF Course, Installing, Removing, at
<1>6. Progress'
  BY <1>1 DEF Progress, Wanted
<1>7. Cached'
  BY <1>1, <1>2 DEF Cached, at
<1>. QED  BY <1>3, <1>4, <1>5, <1>6, <1>7 DEF InstallerInvariant

LEMMA InstallModuleKeeps ==
  ASSUME InstallerInvariant, install_module  PROVE InstallerInvariant'
<1>1. pc = "module" /\ run.dir \in Dirs /\ ~run.uninstall
  BY AtWork DEF install_module, install, at, Working, Installing, InstallerInvariant, Course
<1>2. PICK d \in Dirs, next \in {"query_modules", "cleanup"} : d = run.dir /\ next = finish
  BY <1>1 DEF finish
<1>3. /\ disk' \in [Files -> Contents] /\ UNCHANGED <<dirs, host>>
      /\ \A f \in Files : f # d => disk'[f] = disk[f]
      /\ (disk'[d] = run.version /\ pass(next)) \/ fail
  <2>1. d \in Files /\ install("module", d, next)
    BY <1>2 DEF install_module, Files
  <2>. QED  BY <2>1, InstallCases
<1>4. /\ Origins' /\ made' \in SUBSET Dirs
      /\ origin' \in [Dirs -> Dirs \cup {NoDir, "elsewhere"}]
  BY <1>1, <1>3, OriginsKept DEF install_module, Working, Installing
<1>5. CASE fail
  BY <1>3, <1>4, <1>5, FailKeeps
<1>6. CASE disk'[d] = run.version /\ pass(next)
  <2>1. run' = run /\ d \notin {"engine", "component"}
    BY <1>6, InstallerAssumption DEF pass
  <2>2. disk["engine"] = run.version /\ disk["component"] = run.version
    BY <1>1 DEF InstallerInvariant, Progress, Wanted
  <2>3. \A f \in {"engine", "component", run.dir} : disk'[f] = Wanted
    BY <1>1, <1>2, <1>3, <1>6, <2>1, <2>2 DEF Wanted, Files
  <2>4. Undone'
    BY <1>1, <2>1 DEF Undone
  <2>. QED  BY <1>1, <1>2, <1>3, <1>4, <1>6, <2>3, <2>4, FinishKeeps
<1>. QED  BY <1>3, <1>5, <1>6

LEMMA RmModuleKeeps ==
  ASSUME InstallerInvariant, rm_module  PROVE InstallerInvariant'
<1>1. /\ pc = "rm_module" /\ run.dir \in Dirs /\ run.uninstall
      /\ run.option \in Dirs \cup {NoDir} /\ host \in Hosts
      /\ run.dir = detect_immodules_dir(run.option, host, dirs)
  BY AtWork DEF rm_module, rm, at, Working, Removing, InstallerInvariant, Course, TypeOK
<1>2. PICK d \in Dirs, next \in {"query_modules", "cleanup"} : d = run.dir /\ next = finish
  BY <1>1 DEF finish
<1>3. /\ disk' \in [Files -> Contents] /\ UNCHANGED <<dirs, host>>
      /\ \A f \in Files : f # d => disk'[f] = disk[f]
      /\ (disk'[d] = "none" /\ pass(next)) \/ fail
  <2>1. d \in Files /\ rm("rm_module", d, next)
    BY <1>2 DEF rm_module, Files
  <2>2. "rm_module" \in Removing
    BY DEF Removing
  <2>. QED  BY <2>1, <2>2, RmCases
<1>4. origin' = origin /\ made' = made
  BY DEF rm_module
<1>5. /\ Origins' /\ made' \in SUBSET Dirs
      /\ origin' \in [Dirs -> Dirs \cup {NoDir, "elsewhere"}]
  BY <1>1, <1>3, <1>4, OriginsKept DEF Working, Removing
<1>6. CASE fail
  BY <1>3, <1>5, <1>6, FailKeeps
<1>7. CASE disk'[d] = "none" /\ pass(next)
  <2>1. run' = run /\ d \notin {"engine", "component"}
    BY <1>7, InstallerAssumption DEF pass
  <2>2. disk["engine"] = "none" /\ disk["component"] = "none"
    BY <1>1 DEF InstallerInvariant, Progress, Wanted
  <2>3. \A f \in {"engine", "component", run.dir} : disk'[f] = Wanted
    BY <1>1, <1>2, <1>3, <1>7, <2>1, <2>2 DEF Wanted, Files
  <2>4. \A e \in Dirs : origin[e] = run.option =>
                         e = run.dir \/ (run.option = NoDir /\ run.dir \in made)
    <3>. SUFFICES ASSUME NEW e \in Dirs, origin[e] = run.option
                  PROVE  e = run.dir \/ (run.option = NoDir /\ run.dir \in made)
      OBVIOUS
    <3>1. CASE run.option = NoDir
      BY <1>1, <3>1 DEF InstallerInvariant, Origins, detected
    <3>2. CASE run.option # NoDir
      <4>1. run.dir = run.option
        BY <1>1, <3>2, DetectType
      <4>. QED  BY <1>1, <3>2, <4>1, InstallerAssumption DEF InstallerInvariant, Origins
    <3>. QED  BY <3>1, <3>2
  <2>5. Undone'
    BY <1>2, <1>4, <1>7, <2>1, <2>4 DEF Undone
  <2>. QED  BY <1>1, <1>2, <1>3, <1>5, <1>7, <2>3, <2>5, FinishKeeps
<1>. QED  BY <1>3, <1>6, <1>7

LEMMA CachesKeep ==
  ASSUME InstallerInvariant, query_modules \/ write_cache  PROVE InstallerInvariant'
<1>1. /\ \/ pc = "query_modules" /\ pc' = "write_cache"
         \/ pc = "write_cache" /\ pc' = "cleanup"
      /\ run.dir \in Dirs /\ run \in Runs /\ status = "none"
      /\ \/ run' = run
         \/ \E cache \in {"modules", "registry"} :
              run' = [run EXCEPT !.unrefreshed = @ \cup {cache}]
      /\ UNCHANGED <<tmp, status, runs, faults, files, host, ostree>>
  BY AtWork DEF query_modules, write_cache, not_refreshed, at, goto, Working
<1>2. /\ run' \in Runs /\ run'.dir = run.dir /\ run'.given = run.given
      /\ run'.shifted = run.shifted /\ run'.option = run.option /\ run'.root = run.root
      /\ run'.uninstall = run.uninstall /\ run'.version = run.version
      /\ run'.refresh = run.refresh
      /\ run.unrefreshed \subseteq run'.unrefreshed
  BY <1>1 DEF Runs
<1>3. TypeOK'
  <2>1. pc' \in Steps
    BY <1>1 DEF Steps
  <2>2. listed' \in SUBSET Dirs /\ registry' \in BOOLEAN
    <3>1. listed \in SUBSET Dirs /\ registry \in BOOLEAN
      BY DEF InstallerInvariant, TypeOK
    <3>2. CASE query_modules
      <4>1. listed' \in {listed, listed \cup {run.dir}, listed \ {run.dir}} /\ registry' = registry
        BY <3>2 DEF query_modules
      <4>. QED  BY <1>1, <3>1, <4>1
    <3>3. CASE write_cache
      <4>1. refreshed(disk["component"]) \in BOOLEAN
        BY DEF refreshed
      <4>2. listed' = listed /\ (registry' = refreshed(disk["component"]) \/ registry' = registry)
        BY <3>3 DEF write_cache
      <4>. QED  BY <3>1, <4>1, <4>2
    <3>. QED  BY <3>2, <3>3
  <2>. QED  BY <1>1, <1>2, <2>1, <2>2 DEF InstallerInvariant, TypeOK, files
<1>4. Parsed' /\ Admitted' /\ PayloadRemoved'
  BY <1>1, <1>2 DEF InstallerInvariant, Parsed, Admitted, PayloadRemoved, Working, at
<1>5. Course' /\ Directed'
  BY <1>1, <1>2 DEF InstallerInvariant, Course, Directed, Working, Installing, Removing, files, at
<1>6. Finished /\ Finished'
  BY <1>1, <1>2, InstallerAssumption DEF Finished, at
<1>7. Progress' /\ Undone'
  BY <1>1, <1>2, <1>6 DEF InstallerInvariant, Progress, Undone, Wanted, files
<1>8. Origins'
  BY <1>1 DEF InstallerInvariant, Origins, detected, files
<1>9. Cached'
  <2>. SUFFICES ASSUME run.refresh
                PROVE  ModulesCached' /\ (pc' = "cleanup" => RegistryCached')
    BY <1>1, <1>2 DEF Cached, at
  <2>1. CASE query_modules
    <3>1. \/ listed' = IF refreshed(disk[run.dir]) THEN listed \cup {run.dir} ELSE listed \ {run.dir}
          \/ "modules" \in run'.unrefreshed
      BY <1>1, <2>1 DEF query_modules, not_refreshed, Runs
    <3>. QED
      BY <1>1, <1>2, <2>1, <3>1 DEF query_modules, refreshed, ModulesCached, at, goto, files
  <2>2. CASE write_cache
    <3>1. ModulesCached
      BY <1>6, <2>2 DEF InstallerInvariant, Cached, write_cache, at
    <3>2. registry' = refreshed(disk["component"]) \/ "registry" \in run'.unrefreshed
      BY <1>1, <2>2 DEF write_cache, not_refreshed, Runs
    <3>. QED
      BY <1>1, <1>2, <2>2, <3>1, <3>2
      DEF write_cache, refreshed, ModulesCached, RegistryCached, files
  <2>. QED  BY <2>1, <2>2
<1>. QED  BY <1>3, <1>4, <1>5, <1>7, <1>8, <1>9 DEF InstallerInvariant

-----------------------------------------------------------------------------
(* All steps, and the theorems.                                            *)

LEMMA InvariantStep ==
  InstallerInvariant /\ [Next]_vars => InstallerInvariant'
<1>. SUFFICES ASSUME InstallerInvariant, [Next]_vars  PROVE InstallerInvariant'
  OBVIOUS
<1>1. CASE \E line \in CommandLines, root \in BOOLEAN, version \in Versions :
             mktemp(line, root, version)
  BY <1>1, MktempKeeps
<1>2. CASE extract \/ trap \/ cleanup \/ interrupt \/ kill \/ host_changes
  BY <1>2, ExtractKeeps, TrapKeeps, CleanupKeeps, InterruptKeeps, KillKeeps, HostChangesKeeps
<1>3. CASE set_option \/ print_or_help \/ refuse_option \/ require \/ detect
  BY <1>3, SetOptionKeeps, OptionsKeep, DetectKeeps
<1>4. CASE install_engine \/ install_component \/ make_dir \/ install_module
  BY <1>4, InstallEngineKeeps, MakeDirKeeps, InstallModuleKeeps
<1>5. CASE rm_engine \/ rm_component \/ rm_module
  BY <1>5, RmEngineKeeps, RmModuleKeeps
<1>6. CASE query_modules \/ write_cache
  BY <1>6, CachesKeep
<1>7. CASE UNCHANGED vars
  <2>. USE <1>7 DEF vars, shell, files, caches
  <2>1. TypeOK'
    BY DEF InstallerInvariant, TypeOK
  <2>2. Parsed' /\ Admitted' /\ Course' /\ Directed' /\ PayloadRemoved' /\ Origins'
    BY DEF InstallerInvariant, Parsed, Admitted, Course, Directed, PayloadRemoved, Origins,
           detected, at
  <2>3. Progress' /\ Undone' /\ Cached'
    BY DEF InstallerInvariant, Progress, Undone, Cached, ModulesCached, RegistryCached,
           Finished, Wanted, at
  <2>. QED  BY <2>1, <2>2, <2>3 DEF InstallerInvariant
<1>. QED  BY <1>1, <1>2, <1>3, <1>4, <1>5, <1>6, <1>7 DEF Next, install_sh

THEOREM InvariantHolds == Spec => []InstallerInvariant
BY InvariantInit, InvariantStep, PTL DEF Spec

\* Type correctness of every run, and a directory for every command on files.
THEOREM TypeCorrect == Spec => []TypeOK
<1>1. InstallerInvariant => TypeOK
  BY DEF InstallerInvariant
<1>. QED  BY <1>1, InvariantHolds, PTL

\* install.sh:108-124 and 140-146: success means all of the work was done.
THEOREM SuccessComplete == Spec => []SuccessIsComplete
BY InvariantImplies, InvariantHolds, PTL

\* install.sh:56-89, 120 and 143: an uninstall undoes what the same options did,
\* unless an installation with --immodules-dir has made the directory that a plain
\* one goes to now.
THEOREM UninstallComplete == Spec => []UninstallUndoes
BY InvariantImplies, InvariantHolds, PTL

\* install.sh:126-138: a cache follows the files unless its own command was missing
\* or failed.
THEOREM CachesCorrect == Spec => []CachesFollow
BY InvariantImplies, InvariantHolds, PTL

\* self-extract-header.sh:4-6: the payload is removed.
THEOREM PayloadGone == Spec => []PayloadRemoved
<1>1. InstallerInvariant => PayloadRemoved
  BY DEF InstallerInvariant
<1>. QED  BY <1>1, InvariantHolds, PTL

\* install.sh:148-178: only an admitted run writes.
THEOREM RefusalsAreHarmless == Spec => RefusalsTouchNothing
<1>. DEFINE Allowed == /\ run.root /\ ~ostree
                       /\ \A i \in DOMAIN run.given : run.given[i].opt \in Settings
<1>1. InstallerInvariant /\ pc \in Working => Allowed
  BY AtWork DEF InstallerInvariant, Parsed, Runs
<1>2. ASSUME InstallerInvariant, [Next]_vars,
             disk' # disk \/ listed' # listed \/ registry' # registry
      PROVE  pc \in Working
  <2>1. ~ \E line \in CommandLines, root \in BOOLEAN, version \in Versions :
            mktemp(line, root, version)
    BY <1>2 DEF mktemp, files, caches
  <2>2. ~(extract \/ trap \/ cleanup \/ interrupt \/ kill \/ host_changes)
    BY <1>2 DEF extract, trap, cleanup, interrupt, kill, host_changes, files, caches
  <2>3. ~(set_option \/ print_or_help \/ refuse_option \/ require \/ detect)
    BY <1>2 DEF set_option, print_or_help, refuse_option, require, detect, files, caches
  <2>4. CASE install_engine \/ install_component \/ make_dir \/ install_module
    BY <2>4 DEF install_engine, install_component, make_dir, install_module, install, at,
                Working, Installing
  <2>5. CASE rm_engine \/ rm_component \/ rm_module
    BY <2>5 DEF rm_engine, rm_component, rm_module, rm, at, Working, Removing
  <2>6. CASE query_modules \/ write_cache
    BY <2>6 DEF query_modules, write_cache, at, Working
  <2>7. CASE UNCHANGED vars
    BY <2>7, <1>2 DEF vars, files, caches
  <2>. QED  BY <1>2, <2>1, <2>2, <2>3, <2>4, <2>5, <2>6, <2>7 DEF Next, install_sh
<1>3. InstallerInvariant /\ [Next]_vars =>
        [disk' # disk \/ listed' # listed \/ registry' # registry => Allowed]_vars
  BY <1>1, <1>2
<1>. QED  BY <1>3, InvariantHolds, PTL DEF Spec, RefusalsTouchNothing

\* install.sh:112-118: the engine is complete before the component names it.
THEOREM EngineComesFirst == Spec => EngineBeforeComponent
<1>. DEFINE Put == disk'["component"] \notin {disk["component"], "none"}
<1>1. ASSUME InstallerInvariant, [Next]_vars, Put  PROVE disk["engine"] = run.version
  <2>1. ~(\/ \E line \in CommandLines, root \in BOOLEAN, version \in Versions :
               mktemp(line, root, version)
          \/ extract \/ trap \/ cleanup \/ interrupt \/ kill \/ host_changes)
    BY <1>1 DEF mktemp, extract, trap, cleanup, interrupt, kill, host_changes, files, caches
  <2>2. ~(set_option \/ print_or_help \/ refuse_option \/ require \/ detect)
    BY <1>1 DEF set_option, print_or_help, refuse_option, require, detect, files, caches
  <2>3. "component" \in Files /\ "engine" \in Files /\ Dirs \subseteq Files
        /\ "component" \notin Dirs
    BY InstallerAssumption DEF Files
  <2>4. ~(install_engine \/ make_dir \/ install_module)
    <3>1. CASE install_engine
      BY <1>1, <2>3, <3>1, InstallCases DEF install_engine
    <3>2. CASE make_dir
      BY <1>1, <3>2 DEF make_dir
    <3>3. CASE install_module
      <4>1. run.dir \in Dirs
        BY <1>1, <3>3, AtWork DEF install_module, install, at, Working, Installing
      <4>. QED  BY <1>1, <2>3, <3>3, <4>1, InstallCases DEF install_module
    <3>. QED  BY <3>1, <3>2, <3>3
  <2>5. ~(rm_engine \/ rm_component \/ rm_module)
    <3>1. disk \in [Files -> Contents]
      BY <1>1 DEF InstallerInvariant, TypeOK
    <3>2. ~rm_engine
      BY <1>1, <2>3, <3>1 DEF rm_engine, rm
    <3>3. ~rm_component
      BY <1>1, <2>3, <3>1 DEF rm_component, rm
    <3>4. ~rm_module
      BY <1>1, <2>3, <3>1 DEF rm_module, rm
    <3>. QED  BY <3>2, <3>3, <3>4
  <2>6. CASE install_component
    <3>1. at("component")
      BY <2>6 DEF install_component, install
    <3>2. disk["engine"] = Wanted /\ ~run.uninstall
      BY <1>1, <3>1 DEF InstallerInvariant, Progress, Course, Installing, at
    <3>. QED  BY <3>2 DEF Wanted
  <2>7. ~(query_modules \/ write_cache \/ UNCHANGED vars)
    BY <1>1 DEF query_modules, write_cache, vars, files
  <2>. QED  BY <1>1, <2>1, <2>2, <2>4, <2>5, <2>6, <2>7 DEF Next, install_sh
<1>2. InstallerInvariant /\ [Next]_vars => [Put => disk["engine"] = run.version]_vars
  BY <1>1
<1>. QED  BY <1>2, InvariantHolds, PTL DEF Spec, EngineBeforeComponent
=============================================================================
