----------------------------- MODULE MCRpDeploy -----------------------------
(***************************************************************************)
(* Small instances of the deployment tool: a source file, a directory with *)
(* a file in it, and an object file.  A behaviour is one of the tool, or    *)
(* one of a remote command that it runs.                                    *)
(***************************************************************************)
EXTENDS RpDeploy

CONSTANTS Window, MaxOut, MaxErr  \* of RemoteCommand

VARIABLES
  part,  \* the tool, or a remote command
  left, ended, channel, got, at  \* of RemoteCommand

Remote == INSTANCE RemoteCommand

ASSUME Remote!PipesAssumption

remoteVars == <<left, ended, channel, got, at>>

MCInit ==
  /\ part \in {"tool", "command"}
  /\ Init /\ Remote!Init
  /\ part = "tool" => left = Remote!Empty
  /\ part = "command" => local.bit = "none" /\ local.bin = "none"

MCNext ==
  /\ \/ part = "tool" /\ Next /\ UNCHANGED remoteVars
     \/ part = "command" /\ Remote!Next /\ UNCHANGED vars
  /\ UNCHANGED part

MCSpec ==
  /\ MCInit /\ [][MCNext]_<<vars, part, remoteVars>>
  /\ WF_remoteVars(part = "command" /\ Remote!Command)
  /\ WF_remoteVars(part = "command" /\ Remote!Tool)

-----------------------------------------------------------------------------
MCPaths == {"main", "lib", "lib/f", "main.o"}

MCParent == [p \in MCPaths |-> IF p = "lib/f" THEN "lib" ELSE "."]

Tree(main, lib, f, o) ==
  [p \in MCPaths |-> CASE p = "main" -> main [] p = "lib" -> lib
                       [] p = "lib/f" -> f [] OTHER -> o]

MCTrees == {Tree("v1", "dir", "v1", "none"), Tree("v2", "none", "none", "v2")}

(* lib was a directory and becomes a file of that name. *)
RenamedTrees == {Tree("v1", "dir", "v1", "none"), Tree("v1", "v1", "none", "none")}

MCCommands == {{"cpp"}, {"all"}, {"deploy"}, {"flash"}, {"bitfile"},
               {"bitfile", "flash"}, {"status", "install_oled"}}

-----------------------------------------------------------------------------
(* "Pipes are drained before waiting for the exit status so a command that  *)
(* produces more output than the SSH channel window cannot deadlock":       *)
(* run_remote returns, with all that the command wrote, where its error     *)
(* output fits the window.                                                  *)
RemoteReturnsAll == part = "command" ~> Remote!Returned
=============================================================================
