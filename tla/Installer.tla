------------------------------ MODULE Installer ------------------------------
(***************************************************************************)
(* The generic installer: the self-extracting archive that unpacks a       *)
(* payload and runs src/packaging/run/install.sh on it, any number of      *)
(* times, with any command line, to install, upgrade and uninstall.  Every *)
(* command may fail, and a signal may come between any two of them.  The   *)
(* host decides where GTK looks for modules, and may change between runs.  *)
(***************************************************************************)
EXTENDS Naturals, Sequences

CONSTANTS
  Dirs,         \* directories that may hold the GTK module
  NoDir,        \* no directory; also an empty --immodules-dir
  Candidates,   \* the directories detection looks for, in its order
  Hosts,        \* what pkg-config and ldconfig may say on this host
  Versions,     \* releases of the payload
  CommandLines, \* what may be typed: sequences of options
  MaxRuns,      \* bound on the runs
  MaxFaults     \* bound on the commands that fail and the signals that arrive

Settings == {"immodules_dir", "no_refresh", "uninstall"}
Refusals == {"immodules_dir_alone", "unknown"}
Options  == [opt : Settings \cup Refusals \cup {"print", "help"}, dir : Dirs \cup {NoDir}]

ASSUME InstallerAssumption ==
  /\ NoDir \notin Dirs
  /\ Candidates \in Seq(Dirs)
  /\ Hosts # {} /\ Hosts \subseteq [pkgconfig : Dirs \cup {NoDir}, ldconfig : Dirs \cup {NoDir}]
  /\ Versions # {} /\ "none" \notin Versions /\ "broken" \notin Versions
  /\ CommandLines # {} /\ CommandLines \subseteq Seq(Options)
  /\ MaxRuns \in Nat /\ MaxFaults \in Nat
  /\ \A word \in {"engine", "component", "elsewhere"} : word \notin Dirs \cup {NoDir}

VARIABLES
  pc,       \* the command that runs next
  tmp,      \* the directory with the unpacked payload exists
  run,      \* the shell variables of the run, and how it was started
  status,   \* how the last run ended
  disk,     \* the content of each installed file; the module's by directory
  dirs,     \* the module directories that exist
  host,     \* what pkg-config and ldconfig say
  ostree,   \* /run/ostree-booted exists
  listed,   \* the directories whose GTK module cache lists the module
  registry, \* the IBus registry lists the component
  runs,     \* the runs so far
  faults,   \* the failures and signals so far
  origin,   \* which --immodules-dir the module of each directory came with, while
            \* the host leaves it at that (see moved)
  made      \* the directories made because an --immodules-dir named them

shell  == <<pc, tmp, run, status, runs, faults>>
files  == <<disk, dirs, origin, made>>
caches == <<listed, registry>>
vars   == <<shell, files, caches, host, ostree>>

Files    == {"engine", "component"} \cup Dirs
Contents == Versions \cup {"none", "broken"}
Steps    == {"ended", "extract", "options", "detect", "engine", "component", "make_dir",
             "module", "rm_engine", "rm_component", "rm_module", "query_modules",
             "write_cache", "cleanup"}

at(step)   == pc = step
goto(step) == pc' = step

\* die, and what set -e does with a command that fails.
die == goto("cleanup") /\ status' = "failed"

fault == faults < MaxFaults /\ faults' = faults + 1

\* The loop over the candidates stops at the first that exists.
first_existing(i, existing) ==
  /\ Candidates[i] \in existing
  /\ \A j \in DOMAIN Candidates : j < i => Candidates[j] \notin existing

detect_immodules_dir(option, h, existing) ==
  IF option # NoDir THEN option
  ELSE IF h.pkgconfig # NoDir THEN h.pkgconfig
  ELSE IF \E i \in DOMAIN Candidates : first_existing(i, existing)
       THEN Candidates[CHOOSE i \in DOMAIN Candidates : first_existing(i, existing)]
  ELSE h.ldconfig

detected(existing) == detect_immodules_dir(NoDir, host, existing)

\* What was put in a detected directory stays there when the host's packages make
\* detection lead elsewhere.
moved(h, existing) ==
  [d \in Dirs |->
     IF origin[d] = NoDir /\ detect_immodules_dir(NoDir, h, existing) \notin {d, detected(dirs)}
     THEN "elsewhere" ELSE origin[d]]

\* The variables at the top of install.sh, and the run's circumstances.
started(line, root, version) ==
  [given |-> line, shifted |-> 0, option |-> NoDir, refresh |-> TRUE, uninstall |-> FALSE,
   root |-> root, version |-> version, dir |-> NoDir, unrefreshed |-> {}]

Init ==
  /\ pc = "ended" /\ tmp = FALSE /\ status = "none"
  /\ run = started(<<>>, FALSE, CHOOSE v \in Versions : TRUE)
  /\ disk = [f \in Files |-> "none"]
  /\ origin = [d \in Dirs |-> "elsewhere"] /\ made = {}
  /\ runs = 0 /\ faults = 0
  /\ dirs = {} /\ listed = {} /\ registry = FALSE
  /\ host \in Hosts /\ ostree \in BOOLEAN

-----------------------------------------------------------------------------
\* The self-extracting archive.
mktemp(line, root, version) ==
  /\ at("ended") /\ goto("extract")
  /\ runs < MaxRuns /\ runs' = runs + 1
  /\ tmp' = TRUE
  /\ status' = "none"
  /\ run' = started(line, root, version)
  /\ UNCHANGED <<faults, files, caches, host, ostree>>

\* Nothing was unpacked, or the trap has removed it: there is no install.sh to run.
extract ==
  /\ at("extract")
  /\ \/ tmp /\ goto("options") /\ UNCHANGED <<status, faults>>
     \/ ~tmp /\ die /\ UNCHANGED faults
     \/ die /\ fault
  /\ UNCHANGED <<tmp, run, runs, files, caches, host, ostree>>

\* The trap for INT and TERM removes the payload and returns to the script.
trap ==
  /\ at("extract") /\ fault
  /\ tmp' = FALSE
  /\ UNCHANGED <<pc, run, status, runs, files, caches, host, ostree>>

\* With a defect: no trap for EXIT.
leave_payload ==
  /\ at("cleanup") /\ goto("ended")
  /\ status' = IF status = "none" THEN "done" ELSE status
  /\ UNCHANGED <<tmp, run, runs, faults, files, caches, host, ostree>>

\* The script exits with the status of install.sh, which is good if nothing failed.
cleanup ==
  /\ at("cleanup") /\ goto("ended")
  /\ tmp' = FALSE
  /\ status' = IF status = "none" THEN "done" ELSE status
  /\ UNCHANGED <<run, runs, faults, files, caches, host, ostree>>

-----------------------------------------------------------------------------
\* install.sh: the options, one after the other.
option_is(opts) == run.shifted < Len(run.given) /\ run.given[run.shifted + 1].opt \in opts

\* With a defect: an unknown argument is passed over.
set_option_leniently ==
  LET o == run.given[run.shifted + 1]
  IN  /\ at("options") /\ option_is(Settings \cup Refusals)
      /\ run' = [run EXCEPT
           !.shifted   = @ + 1,
           !.option    = IF o.opt = "immodules_dir" THEN o.dir ELSE @,
           !.refresh   = @ /\ o.opt # "no_refresh",
           !.uninstall = @ \/ o.opt = "uninstall"]
      /\ UNCHANGED <<pc, tmp, status, runs, faults, files, caches, host, ostree>>

set_option ==
  LET o == run.given[run.shifted + 1]
  IN  /\ at("options") /\ option_is(Settings)
      /\ run' = [run EXCEPT
           !.shifted   = @ + 1,
           !.option    = IF o.opt = "immodules_dir" THEN o.dir ELSE @,
           !.refresh   = @ /\ o.opt # "no_refresh",
           !.uninstall = @ \/ o.opt = "uninstall"]
      /\ UNCHANGED <<pc, tmp, status, runs, faults, files, caches, host, ostree>>

\* --print-immodules-dir answers with the options read so far, and ends the run.
print_or_help ==
  /\ at("options") /\ option_is({"print", "help"})
  /\ IF option_is({"print"}) /\ detect_immodules_dir(run.option, host, dirs) = NoDir
     THEN die
     ELSE goto("cleanup") /\ UNCHANGED status
  /\ UNCHANGED <<tmp, run, runs, faults, files, caches, host, ostree>>

refuse_option ==
  /\ at("options") /\ option_is(Refusals)
  /\ die
  /\ UNCHANGED <<tmp, run, runs, faults, files, caches, host, ostree>>

\* require_root and require_mutable_usr, when the options are read.
require ==
  /\ at("options") /\ run.shifted = Len(run.given)
  /\ IF run.root /\ ~ostree THEN goto("detect") /\ UNCHANGED status ELSE die
  /\ UNCHANGED <<tmp, run, runs, faults, files, caches, host, ostree>>

\* With a defect: nothing found is not an error.
detect_unchecked ==
  /\ at("detect")
  /\ run' = [run EXCEPT !.dir = detect_immodules_dir(run.option, host, dirs)]
  /\ goto(IF run.uninstall THEN "rm_engine" ELSE "engine")
  /\ UNCHANGED <<tmp, status, runs, faults, files, caches, host, ostree>>

detect ==
  LET dir == detect_immodules_dir(run.option, host, dirs)
  IN  /\ at("detect")
      /\ run' = [run EXCEPT !.dir = dir]
      /\ IF dir = NoDir THEN die
         ELSE goto(IF run.uninstall THEN "rm_engine" ELSE "engine") /\ UNCHANGED status
      /\ UNCHANGED <<tmp, runs, faults, files, caches, host, ostree>>
-----------------------------------------------------------------------------
\* The commands of install_tree and uninstall_app.  A copy that fails may leave
\* the old file, none, or a part of the new one.
fail == die /\ fault /\ UNCHANGED <<tmp, run, runs, dirs, caches, host, ostree>>
pass(next) == goto(next) /\ UNCHANGED <<tmp, run, status, runs, faults, caches, host, ostree>>

Left(file) == {disk[file], "none", "broken"}

\* With a defect: the command's failure is not noticed.
install_unchecked(step, file, next) ==
  /\ at(step)
  /\ \E content \in Left(file) \cup {run.version} :
       disk' = [disk EXCEPT ![file] = content]
  /\ pass(next)
  /\ UNCHANGED dirs

install(step, file, next) ==
  /\ at(step)
  /\ \/ disk' = [disk EXCEPT ![file] = run.version] /\ pass(next) /\ UNCHANGED dirs
     \/ (\E content \in Left(file) : disk' = [disk EXCEPT ![file] = content]) /\ fail

rm(step, file, next) ==
  /\ at(step)
  /\ \/ disk' = [disk EXCEPT ![file] = "none"] /\ pass(next) /\ UNCHANGED dirs
     \/ fail /\ UNCHANGED disk

\* With a defect: an uninstall forgets the caches.
finish_installation_only ==
  IF run.refresh /\ ~run.uninstall THEN "query_modules" ELSE "cleanup"

finish == IF run.refresh THEN "query_modules" ELSE "cleanup"

\* With a defect: an engine that is there is taken for the right one.
install_engine_if_missing ==
  IF disk["engine"] = "none"
  THEN install("engine", "engine", "component") /\ UNCHANGED <<origin, made>>
  ELSE at("engine") /\ pass("component") /\ UNCHANGED files

install_engine ==
  install("engine", "engine", "component") /\ UNCHANGED <<origin, made>>
install_component ==
  install("component", "component", "make_dir") /\ UNCHANGED <<origin, made>>

make_dir ==
  /\ at("make_dir")
  /\ \/ /\ dirs' = dirs \cup {run.dir}
        /\ made' = IF run.option = NoDir THEN made ELSE made \cup ({run.dir} \ dirs)
        /\ pass("module")
     \/ fail /\ UNCHANGED made
  /\ UNCHANGED <<disk, origin>>

install_module ==
  /\ install("module", run.dir, finish)
  /\ origin' = [origin EXCEPT ![run.dir] = run.option]
  /\ UNCHANGED made

\* With a defect: only the copy in the first candidate is looked for.
rm_first_candidate ==
  /\ rm("rm_module", IF Candidates # <<>> THEN Head(Candidates) ELSE run.dir, finish)
  /\ UNCHANGED <<origin, made>>

rm_engine    == rm("rm_engine", "engine", "rm_component") /\ UNCHANGED <<origin, made>>
rm_component == rm("rm_component", "component", "rm_module") /\ UNCHANGED <<origin, made>>
rm_module    == rm("rm_module", run.dir, finish) /\ UNCHANGED <<origin, made>>

-----------------------------------------------------------------------------
\* refresh_cache: each tool may be missing or fail, and leave its cache as it was.
\* The run goes on as if nothing had happened: a missing gio-querymodules is worth a
\* line of output, the other three cases not even that.
not_refreshed(cache) == run' = [run EXCEPT !.unrefreshed = @ \cup {cache}]

refreshed(f) == f \in Versions

query_modules ==
  /\ at("query_modules") /\ goto("write_cache")
  /\ \/ /\ listed' = IF refreshed(disk[run.dir]) THEN listed \cup {run.dir}
                                                 ELSE listed \ {run.dir}
        /\ UNCHANGED run
     \/ UNCHANGED listed /\ not_refreshed("modules")
  /\ UNCHANGED <<tmp, status, runs, faults, registry, files, host, ostree>>

write_cache ==
  /\ at("write_cache") /\ goto("cleanup")
  /\ \/ registry' = refreshed(disk["component"]) /\ UNCHANGED run
     \/ UNCHANGED registry /\ not_refreshed("registry")
  /\ UNCHANGED <<tmp, status, runs, faults, listed, files, host, ostree>>

-----------------------------------------------------------------------------
\* install.sh as one script, and what may come between its commands.
Script == Steps \ {"ended", "extract", "cleanup"}

\* A signal to the terminal's processes ends install.sh between two commands.
interrupt ==
  /\ pc \in Script
  /\ die /\ fault
  /\ UNCHANGED <<tmp, run, runs, files, caches, host, ostree>>

\* Nothing runs after it, the trap neither.
kill ==
  /\ ~at("ended") /\ goto("ended")
  /\ status' = "killed" /\ fault
  /\ UNCHANGED <<tmp, run, runs, files, caches, host, ostree>>

\* Packages come and go between two runs, and with them tools and directories.
host_changes ==
  /\ at("ended")
  /\ host' \in Hosts
  /\ dirs' \in SUBSET Dirs
  /\ \A d \in Dirs : disk[d] # "none" => d \in dirs'
  /\ origin' = moved(host', dirs')
  /\ UNCHANGED <<shell, disk, made, caches, ostree>>

install_sh ==
  \/ set_option \/ print_or_help \/ refuse_option \/ require \/ detect
  \/ install_engine \/ install_component \/ make_dir \/ install_module
  \/ rm_engine \/ rm_component \/ rm_module
  \/ query_modules \/ write_cache

Next ==
  \/ \E line \in CommandLines, root \in BOOLEAN, version \in Versions :
       mktemp(line, root, version)
  \/ extract \/ trap \/ install_sh \/ cleanup
  \/ interrupt \/ kill \/ host_changes

Spec == Init /\ [][Next]_vars

-----------------------------------------------------------------------------
Runs == [given : Seq(Options), shifted : Nat, option : Dirs \cup {NoDir}, refresh : BOOLEAN,
         uninstall : BOOLEAN, root : BOOLEAN, version : Versions, dir : Dirs \cup {NoDir},
         unrefreshed : SUBSET {"modules", "registry"}]

\* Every variable has its type, and the commands on files know their directory.
TypeOK ==
  /\ pc \in Steps /\ tmp \in BOOLEAN /\ run \in Runs
  /\ status \in {"none", "done", "failed", "killed"}
  /\ disk \in [Files -> Contents]
  /\ origin \in [Dirs -> Dirs \cup {NoDir, "elsewhere"}]
  /\ dirs \subseteq Dirs /\ made \subseteq Dirs /\ listed \subseteq Dirs
  /\ runs \in 0..MaxRuns /\ faults \in 0..MaxFaults
  /\ registry \in BOOLEAN /\ host \in Hosts /\ ostree \in BOOLEAN
  /\ pc \in Script \ {"options", "detect"} => run.dir \in Dirs

\* The last run got past its options and ended well.
Succeeded == at("ended") /\ status = "done" /\ run.dir # NoDir

\* A run that reports success did all of its work, whatever failed runs before it
\* left behind: the three files are those of its release, or all three are gone.
SuccessIsComplete ==
  Succeeded =>
    \A f \in {"engine", "component", run.dir} :
      disk[f] = IF run.uninstall THEN "none" ELSE run.version

\* A successful --uninstall leaves no module that a run with the same
\* --immodules-dir, or without one if it had none, has installed, in whatever
\* directory that was, unless the host's packages have since moved the place where
\* modules go.  The installer itself moves it in one way only, and then a plain
\* --uninstall does leave a module and reports success: where detection now stops
\* at a directory that exists because some --immodules-dir installation made it.
UninstallUndoes ==
  Succeeded /\ run.uninstall =>
    \A d \in Dirs : disk[d] # "none" /\ origin[d] = run.option =>
      run.option = NoDir /\ run.dir \in made

\* Installed files and caches are touched only by root, on a mutable /usr, and
\* only by a command line without a mistake and without --help or a question.
RefusalsTouchNothing ==
  [][disk' # disk \/ listed' # listed \/ registry' # registry =>
       /\ run.root /\ ~ostree
       /\ \A i \in DOMAIN run.given : run.given[i].opt \in Settings]_vars

\* IBus reads the component and starts the engine it names, at any time: no
\* installation, complete or cut short, puts a component in place before the
\* engine of the same release is complete.
EngineBeforeComponent ==
  [][disk'["component"] \notin {disk["component"], "none"} =>
       disk["engine"] = run.version]_vars

\* After a successful run without --no-refresh-cache each cache agrees with the
\* files, after an uninstall as well as after an installation and whatever earlier
\* runs left in it, unless the very command for that cache was missing or failed in
\* this run.  In that case success says nothing of the cache, and nor may the output.
CachesFollow ==
  Succeeded /\ run.refresh =>
    /\ "modules" \in run.unrefreshed \/ (run.dir \in listed <=> disk[run.dir] \in Versions)
    /\ "registry" \in run.unrefreshed \/ (registry <=> disk["component"] \in Versions)

\* The unpacked payload goes away with the archive's script, however that ends,
\* unless it is killed outright, or by a signal the trap does not name, HUP say
\* (self-extract-header.sh:6), which ends it in the same way.
PayloadRemoved == at("ended") /\ tmp => status = "killed"

\* What install.sh:21 says of --uninstall, "Remove installed files", where it is
\* used as README.md:178 does, without --immodules-dir.
UninstallRemovesInstalledFiles ==
  Succeeded /\ run.uninstall /\ run.option = NoDir => \A f \in Files : disk[f] = "none"
=============================================================================
