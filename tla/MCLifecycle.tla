---------------------------- MODULE MCLifecycle ----------------------------
(* Instances of Lifecycle for TLC. *)
EXTENDS Lifecycle

\* Repositories with a node of their own, --global ones, and users who run
\* whatever they like.
LocalCommands  == {"init", "clone", "use"}
GlobalCommands == {"init --global", "clone --global", "use"}
LocalOrGlobal  == {LocalCommands, GlobalCommands}
AlwaysGlobal   == {GlobalCommands}
Mixed          == {Command}

\* Killed anywhere, also between truncating a file and writing it.
CrashAnywhere == Step \ {"idle"}

\* Never killed.
CrashNowhere == {}
=============================================================================
