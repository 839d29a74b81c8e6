------------------------------ MODULE RpDeploy ------------------------------
(***************************************************************************)
(* The deployment tool: runs of rp_deploy.py, one after the other, against  *)
(* one board, with the user editing files and power-cycling the board in    *)
(* between.  Every remote command and every copy may fail, and the SSH      *)
(* connection may be lost before any of them.                               *)
(*                                                                          *)
(* What a file holds is the version of the source it comes from, "partial"  *)
(* for a copy that was cut off, "none" for no file, "dir" for a directory.  *)
(* scp, find, mkdir, fpgautil, bootgen and systemctl are external.          *)
(***************************************************************************)
EXTENDS Naturals

CONSTANTS
  Paths,      \* paths below the project directory, on either side
  Parent,     \* the directory a path is in: a path, or Root
  Root,       \* the project directory itself
  Artifacts,  \* those of Paths that _is_build_artifact() holds for
  Trees,      \* what the local project may look like
  Images,     \* versions of the FPGA design
  Commands,   \* what the user may ask of a run: sets of options
  Faults,     \* what may go wrong
  MaxRuns     \* bound on the runs of the tool

Options == {"cpp", "bitfile", "flash", "all", "deploy", "status", "install_oled"}

Versions == {"v1", "v2"}
Contents == Versions \cup {"none", "dir", "partial"}

AnyFault == {"find", "rm", "mkdir", "scp", "bootgen", "fpgautil", "systemctl", "link"}

IsTree(t) ==
  \A p \in Paths : t[p] # "none" /\ Parent[p] # Root => t[Parent[p]] = "dir"

DeployAssumption ==
  /\ Root \notin Paths /\ Parent \in [Paths -> Paths \cup {Root}]
  /\ Artifacts \subseteq Paths
  /\ Trees \subseteq {t \in [Paths -> Versions \cup {"none", "dir"}] : IsTree(t)}
  /\ Images \cap {"none", "partial"} = {}
  /\ Commands \subseteq SUBSET Options \ {{}}
  /\ Faults \subseteq AnyFault /\ MaxRuns \in Nat

ASSUME DeployAssumption

VARIABLES
  local,   \* the repository: the C++ tree, the .bit and the .bit.bin beside it
  board,   \* the board: its C++ tree, .bit.bin, the FPGA's image, the OLED service
  run,     \* the run of the tool
  todo,    \* paths the loop of the run has still to visit
  linked,  \* is the SSH connection up?
  runs     \* runs started

vars == <<local, board, run, todo, linked, runs>>

Idle == [pc |-> "idle", cmd |-> {}, kind |-> "none", failures |-> FALSE,
         synced |-> FALSE, bitfileReady |-> FALSE, oled |-> FALSE, exitCode |-> 0]

Init ==
  /\ local \in [tree : Trees, bit : Images \cup {"none"}, bin : Images \cup {"none"}]
  /\ board = [tree |-> [p \in Paths |-> "none"], bin |-> "none", fpga |-> "none",
              service |-> "none"]
  /\ run = Idle /\ todo = {} /\ linked = FALSE /\ runs = 0

-----------------------------------------------------------------------------
(* What the options ask for, and what the run has to go by. *)

CopyRequested(cmd) == cmd \cap {"bitfile", "all", "deploy"} # {}

(* main() takes these steps in this order, each when it is wanted. *)
Wanted(step) ==
  CASE step = "scan"    -> run.cmd \cap {"cpp", "all"} # {}
    [] step = "convert" -> CopyRequested(run.cmd)
    [] step = "oled"    -> "install_oled" \in run.cmd
    [] step = "flash"   -> run.cmd \cap {"flash", "deploy", "all"} # {}
    [] step = "status"  -> run.cmd \cap {"status", "deploy", "all"} # {}
                           /\ run.exitCode = 0

Following == [scan |-> "convert", convert |-> "oled", oled |-> "flash",
              flash |-> "status", status |-> "end"]

IsFile(content) == content \notin {"none", "dir"}

(* os.walk() without the build artifacts, and what find prints. *)
LocalFiles == {p \in Paths \ Artifacts : IsFile(local.tree[p])}
LocalDirs == {p \in Paths \ Artifacts : local.tree[p] = "dir"}
RemoteFiles == {p \in Paths : IsFile(board.tree[p])}

(* May something come out as ok says?  Over a lost connection a remote     *)
(* command raises (see Raise) and only a copy goes on, to fail.            *)
May(fault, ok) == ok \/ fault \in Faults

(* The entry of the tree and the directories above it. *)
Upwards(p) == {p} \cup ({Parent[p]} \ {Root})

-----------------------------------------------------------------------------
(* main(): the connection, and a step that is not wanted. *)

(* resolve_bitfile(): a .bit given by the user is converted; a .bit.bin, by *)
(* default the newest there is, is copied as it is.                        *)
Kinds(cmd) == {"bin"} \cup (IF "bitfile" \in cmd THEN {"raw"} ELSE {"none"})

Start(cmd, kind, up) ==
  /\ run.pc = "idle" /\ runs < MaxRuns /\ kind \in Kinds(cmd) /\ May("link", up)
  /\ run' = [Idle EXCEPT !.pc = "scan", !.cmd = cmd, !.kind = kind,
                         !.bitfileReady = ~CopyRequested(cmd)]
  /\ linked' = up /\ runs' = runs + 1
  /\ UNCHANGED <<local, board, todo>>

Skip ==
  /\ run.pc \in DOMAIN Following /\ ~Wanted(run.pc)
  /\ run' = [run EXCEPT !.pc = Following[@]]
  /\ UNCHANGED <<local, board, todo, linked, runs>>

(* The steps that run a remote command outside of any try but main()'s. *)
RunsRemotely ==
  \/ run.pc \in {"delete", "mkdir", "upload"}
  \/ run.pc \in {"scan", "status"} /\ Wanted(run.pc)
  \/ run.pc = "flash" /\ Wanted("flash") /\ run.bitfileReady

Raise ==
  /\ ~linked /\ RunsRemotely
  /\ run' = [run EXCEPT !.pc = "idle", !.exitCode = 1]
  /\ todo' = {}
  /\ UNCHANGED <<local, board, linked, runs>>

Exit ==
  /\ run.pc = "end"
  /\ run' = [run EXCEPT !.pc = "idle"] /\ linked' = FALSE
  /\ UNCHANGED <<local, board, todo, runs>>

-----------------------------------------------------------------------------
(* sync_cpp_files() *)

(* The exit status of find is not looked at: one that fails printed nothing. *)
Scan(ok) ==
  /\ run.pc = "scan" /\ Wanted("scan") /\ linked /\ May("find", ok)
  /\ todo' = IF ok THEN RemoteFiles \ (LocalFiles \cup Artifacts) ELSE {}
  /\ run' = [run EXCEPT !.pc = "delete"]
  /\ UNCHANGED <<local, board, linked, runs>>

(* Mutant: the exit status of rm is not looked at. *)
DeleteQuietly(p, ok) ==
  /\ run.pc = "delete" /\ p \in todo /\ linked /\ May("rm", ok)
  /\ todo' = todo \ {p}
  /\ board' = IF ok THEN [board EXCEPT !.tree[p] = "none"] ELSE board
  /\ UNCHANGED <<local, run, linked, runs>>

Delete(p, ok) ==
  /\ run.pc = "delete" /\ p \in todo /\ linked /\ May("rm", ok)
  /\ todo' = todo \ {p}
  /\ board' = IF ok THEN [board EXCEPT !.tree[p] = "none"] ELSE board
  /\ run' = [run EXCEPT !.failures = @ \/ ~ok]
  /\ UNCHANGED <<local, linked, runs>>

MakeRoot(ok) ==
  /\ run.pc = "delete" /\ todo = {} /\ linked /\ May("mkdir", ok)
  /\ todo' = LocalDirs
  /\ run' = [run EXCEPT !.pc = "mkdir", !.failures = @ \/ ~ok]
  /\ UNCHANGED <<local, board, linked, runs>>

MakeDir(p, ok) ==
  /\ run.pc = "mkdir" /\ p \in todo /\ linked /\ May("mkdir", ok)
  /\ LET made == ok /\ \A d \in Upwards(p) : ~IsFile(board.tree[d])
     IN  /\ board' = IF made
                     THEN [board EXCEPT !.tree = [d \in Paths |-> IF d \in Upwards(p) THEN "dir"
                                                                  ELSE @[d]]]
                     ELSE board
         /\ run' = [run EXCEPT !.failures = @ \/ ~made]
  /\ todo' = todo \ {p}
  /\ UNCHANGED <<local, linked, runs>>

DirsMade ==
  /\ run.pc = "mkdir" /\ todo = {}
  /\ todo' = LocalFiles
  /\ run' = [run EXCEPT !.pc = "copy"]
  /\ UNCHANGED <<local, board, linked, runs>>

(* What scp leaves at a path: the whole file, or where it fails, nothing   *)
(* new or a part of it.                                                    *)
Left(new, old, ok) == IF ok THEN {new} ELSE {old, "partial"}

(* scp.put(): it needs the directory, and puts the file into a directory   *)
(* that has the name meant for the file.                                   *)
Copy(p, ok) ==
  /\ run.pc = "copy" /\ p \in todo /\ IF linked THEN May("scp", ok) ELSE ~ok
  /\ LET reached == linked /\ (Parent[p] = Root \/ board.tree[Parent[p]] = "dir")
     IN  /\ \E content \in Left(local.tree[p], board.tree[p], ok) :
              board' = IF reached /\ board.tree[p] # "dir"
                       THEN [board EXCEPT !.tree[p] = content] ELSE board
         /\ run' = [run EXCEPT !.failures = @ \/ ~ok \/ ~reached]
  /\ todo' = todo \ {p}
  /\ UNCHANGED <<local, linked, runs>>

(* Mutant: the result of the sync does not reach the exit code. *)
SyncedQuietly ==
  /\ run.pc = "copy" /\ todo = {}
  /\ run' = [run EXCEPT !.pc = "convert", !.synced = ~run.failures]
  /\ UNCHANGED <<local, board, todo, linked, runs>>

Synced ==
  /\ run.pc = "copy" /\ todo = {}
  /\ run' = [run EXCEPT !.pc = "convert", !.synced = ~run.failures,
                        !.exitCode = IF run.failures THEN 1 ELSE @]
  /\ UNCHANGED <<local, board, todo, linked, runs>>

-----------------------------------------------------------------------------
(* copy_bitfile(), install_oled_service(), flash_bitfile(), the status *)

(* generate_bitfile_bin(): bootgen overwrites the .bit.bin beside the .bit; *)
(* it may be missing, fail or be stopped after its 60 s.                   *)
Convert(ok) ==
  /\ run.pc = "convert" /\ Wanted("convert") /\ May("bootgen", ok)
  /\ LET made == run.kind = "raw" /\ ok /\ local.bit # "none"
     IN  /\ \/ made /\ local' = [local EXCEPT !.bin = local.bit]
            \/ run.kind = "raw" /\ ~ok /\ local.bit # "none"
               /\ local' = [local EXCEPT !.bin = "partial"]
            \/ ~made /\ UNCHANGED local
         /\ run' = IF run.kind = "none" \/ (run.kind = "raw" /\ ~made)
                   THEN [run EXCEPT !.pc = "oled", !.exitCode = 1]
                   ELSE [run EXCEPT !.pc = "upload"]
  /\ UNCHANGED <<board, todo, linked, runs>>

Upload(ok) ==
  /\ run.pc = "upload" /\ May("scp", ok) /\ linked
  /\ LET copied == ok /\ local.bin # "none"
     IN  /\ \E content \in Left(local.bin, board.bin, ok) :
              board' = IF local.bin = "none" THEN board
                       ELSE [board EXCEPT !.bin = content]
         /\ run' = IF copied THEN [run EXCEPT !.pc = "oled", !.bitfileReady = TRUE]
                   ELSE [run EXCEPT !.pc = "oled", !.exitCode = 1]
  /\ UNCHANGED <<local, todo, linked, runs>>

Units == {"none", "copied", "loaded", "enabled", "started"}

(* The unit is copied, then systemd reads it, enables it and starts it;    *)
(* the first of these that fails ends the step.                            *)
InstallOled(service) ==
  /\ run.pc = "oled" /\ Wanted("oled")
  /\ service = "started" \/ "systemctl" \in Faults \/ (~linked /\ service = board.service)
  /\ linked \/ service = board.service
  /\ service \in Units
  /\ board' = [board EXCEPT !.service = service]
  /\ run' = [run EXCEPT !.pc = "flash",
                        !.exitCode = IF linked /\ service = "started" THEN @ ELSE 1,
                        !.oled = linked /\ service = "started"]
  /\ UNCHANGED <<local, todo, linked, runs>>

(* Mutant: the FPGA is flashed whatever became of the copy. *)
FlashAnyway(ok) ==
  /\ run.pc = "flash" /\ Wanted("flash") /\ linked
  /\ (board.bin # "none" => May("fpgautil", ok)) /\ (ok => board.bin # "none")
  /\ board' = [board EXCEPT !.fpga = IF ok THEN board.bin ELSE @]
  /\ run' = [run EXCEPT !.pc = "status", !.exitCode = IF ok THEN @ ELSE 1]
  /\ UNCHANGED <<local, todo, linked, runs>>

Flash(ok) ==
  /\ run.pc = "flash" /\ Wanted("flash") /\ run.bitfileReady /\ linked
  /\ (board.bin # "none" => May("fpgautil", ok)) /\ (ok => board.bin # "none")
  /\ \E image \in IF ok THEN {board.bin}
                 ELSE {board.fpga} \cup (IF board.bin = "none" THEN {} ELSE {"none"}) :
       board' = [board EXCEPT !.fpga = image]
  /\ run' = [run EXCEPT !.pc = "status", !.exitCode = IF ok THEN @ ELSE 1]
  /\ UNCHANGED <<local, todo, linked, runs>>

SkipFlash ==
  /\ run.pc = "flash" /\ Wanted("flash") /\ ~run.bitfileReady
  /\ run' = [run EXCEPT !.pc = "status"]
  /\ UNCHANGED <<local, board, todo, linked, runs>>

(* It only prints: the state of the FPGA does not reach the exit code. *)
CheckStatus ==
  /\ run.pc = "status" /\ Wanted("status") /\ linked
  /\ run' = [run EXCEPT !.pc = "end"]
  /\ UNCHANGED <<local, board, todo, linked, runs>>

-----------------------------------------------------------------------------
(* The world around the tool (external). *)

LoseLink ==
  /\ linked /\ "link" \in Faults
  /\ linked' = FALSE
  /\ UNCHANGED <<local, board, run, todo, runs>>

(* Between two runs the user edits the sources or makes a new bitstream,   *)
(* builds on the board, or switches it off, which empties the FPGA.        *)
Edit(tree, bit) ==
  /\ run.pc = "idle" /\ runs < MaxRuns
  /\ local' = [local EXCEPT !.tree = tree, !.bit = bit]
  /\ UNCHANGED <<board, run, todo, linked, runs>>

Build ==
  /\ run.pc = "idle" /\ runs < MaxRuns
  /\ board' = [board EXCEPT !.tree = [p \in Paths |-> IF p \in Artifacts THEN "v1" ELSE @[p]]]
  /\ UNCHANGED <<local, run, todo, linked, runs>>

PowerCycle ==
  /\ run.pc = "idle" /\ runs < MaxRuns
  /\ board' = [board EXCEPT !.fpga = "none"]
  /\ UNCHANGED <<local, run, todo, linked, runs>>

-----------------------------------------------------------------------------

Sync ==
  \E ok \in BOOLEAN :
    \/ Scan(ok) \/ MakeRoot(ok) \/ DirsMade \/ Synced
    \/ \E p \in Paths : Delete(p, ok) \/ MakeDir(p, ok) \/ Copy(p, ok)

Deploy ==
  \/ \E ok \in BOOLEAN : Convert(ok) \/ Upload(ok) \/ Flash(ok)
  \/ \E service \in Units : InstallOled(service)
  \/ SkipFlash \/ CheckStatus

Tool ==
  \/ \E cmd \in Commands, kind \in {"raw", "bin", "none"}, up \in BOOLEAN :
       Start(cmd, kind, up)
  \/ Skip \/ Raise \/ Exit \/ Sync \/ Deploy

World ==
  \/ LoseLink \/ Build \/ PowerCycle
  \/ \E tree \in Trees, bit \in Images \cup {"none"} : Edit(tree, bit)

Next == Tool \/ World

Spec == Init /\ [][Next]_vars

-----------------------------------------------------------------------------
(* Properties *)

\* The type invariant.
TypeOK ==
  /\ local \in [tree : Trees, bit : Images \cup {"none"},
                bin : Images \cup {"none", "partial"}]
  /\ board \in [tree : [Paths -> Contents], bin : Images \cup {"none", "partial"},
                fpga : Images \cup {"none", "partial"}, service : Units]
  /\ run \in [pc : DOMAIN Following \cup {"idle", "delete", "mkdir", "copy", "upload", "end"},
              cmd : Commands \cup {{}}, kind : {"raw", "bin", "none"},
              failures : BOOLEAN, synced : BOOLEAN, bitfileReady : BOOLEAN,
              oled : BOOLEAN, exitCode : {0, 1}]
  /\ todo \subseteq Paths /\ linked \in BOOLEAN /\ runs \in 0 .. MaxRuns

(* sync_cpp_files() of the run that is under way has returned True. *)
ReportsSync == run.pc # "idle" /\ run.synced

Mirrored ==
  /\ \A p \in LocalFiles : board.tree[p] = local.tree[p]
  /\ RemoteFiles \subseteq LocalFiles \cup Artifacts

(* "Returns True when every file was copied and every obsolete file was     *)
(* removed": whatever fails in this run or failed in those before it, when  *)
(* the sync reports success the board has the sources of this run only.     *)
SyncMirrors == ReportsSync => Mirrored

(* The two halves of it. *)
SyncCopiesAll == ReportsSync => \A p \in LocalFiles : board.tree[p] = local.tree[p]
SyncRemovesObsolete == ReportsSync => RemoteFiles \subseteq LocalFiles \cup Artifacts

(* The build on the board outlives every sync, also where the local tree    *)
(* has files of the same names.                                             *)
ArtifactsKept ==
  [][run.pc # "idle" => \A p \in Artifacts : board'.tree[p] = board.tree[p]]_vars

IntendedImage == IF run.kind = "raw" THEN local.bit ELSE local.bin

(* A run that was asked to copy a bitstream programs the FPGA with that one *)
(* and no other: not with the one an earlier run left on the board, nor     *)
(* with an older conversion of the .bit.                                    *)
FlashesWhatItCopied ==
  [][board'.fpga \notin {board.fpga, "none"} /\ CopyRequested(run.cmd)
       => board'.fpga = IntendedImage]_vars

(* A run changes the board only as it was asked to.                         *)
OnlyAsAsked == ArtifactsKept /\ FlashesWhatItCopied

(* Exit code 0 means that all that was asked for was done: no failure on    *)
(* the way, in a step whose result is passed on, is lost.                   *)
ExitZeroMeansDone ==
  run.pc = "end" /\ run.exitCode = 0 =>
    /\ run.cmd \cap {"cpp", "all"} # {} => Mirrored
    /\ CopyRequested(run.cmd) => board.bin = IntendedImage
    /\ run.cmd \cap {"flash", "deploy", "all"} # {} =>
         board.fpga = board.bin /\ board.fpga # "none"
    /\ "install_oled" \in run.cmd => board.service = "started"
=============================================================================
