---------------------------- MODULE MCInstaller ----------------------------
(* Installer for TLC: two directories, both of them candidates.            *)
EXTENDS Installer

CONSTANTS lib64, lib

MCCandidates == <<lib64, lib>>

\* No tool knows, ldconfig knows the second directory, pkg-config knows it.
MCHosts ==
  {[pkgconfig |-> NoDir, ldconfig |-> NoDir], [pkgconfig |-> NoDir, ldconfig |-> lib],
   [pkgconfig |-> lib, ldconfig |-> lib]}

opt(name) == [opt |-> name, dir |-> NoDir]
into(d)   == [opt |-> "immodules_dir", dir |-> d]

\* A development host, where detection always gives the same directory.
MCSteadyHost == {[pkgconfig |-> lib, ldconfig |-> lib]}

MCCommandLines ==
  {<<>>, <<into(lib64)>>, <<opt("uninstall")>>,
   <<into(lib64), opt("no_refresh"), opt("uninstall")>>,
   <<opt("uninstall"), opt("unknown")>>, <<opt("uninstall"), opt("print")>>,
   <<opt("immodules_dir_alone")>>}
=============================================================================
