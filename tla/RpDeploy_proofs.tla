-------------------------- MODULE RpDeploy_proofs --------------------------
(***************************************************************************)
(* Proofs about the deployment tool, for any tree, any options, any number *)
(* of runs and every failure of a remote command, a copy or the connection; *)
(* and, from HilCheck on, about the check of the hardware it deploys to.    *)
(***************************************************************************)
EXTENDS RpDeploy, HilCheck, TLAPS

Steps == {"scan", "delete", "mkdir", "copy", "convert", "upload", "oled", "flash", "status",
          "end"}
SyncSteps == {"scan", "delete", "mkdir", "copy"}
ImageSteps == SyncSteps \cup {"convert", "upload"}

-----------------------------------------------------------------------------
(* The inductive invariant, in parts. *)

\* The loops of the sync visit no artifact, and what they are for only.
LoopsOver ==
  /\ run.pc \in {"delete", "mkdir", "copy"} => todo \cap Artifacts = {}
  /\ run.pc = "mkdir" => todo \subseteq LocalDirs
  /\ run.pc = "copy" => todo \subseteq LocalFiles

\* A bitstream is ready when the one that was asked for is on the board.
ImageIsReady ==
  /\ run.pc # "idle" /\ ~CopyRequested(run.cmd) => run.bitfileReady
  /\ run.pc \in ImageSteps /\ CopyRequested(run.cmd) => ~run.bitfileReady
  /\ run.pc = "upload" => run.kind # "none" /\ (run.kind = "raw" => local.bin = local.bit)
  /\ run.pc \in Steps \ ImageSteps /\ CopyRequested(run.cmd) /\ run.bitfileReady
       => board.bin = IntendedImage

\* While nothing has failed, each step that was asked for and is over is done.
NothingLost ==
  /\ run.pc \in Steps \ SyncSteps /\ run.exitCode = 0 /\ run.cmd \cap {"cpp", "all"} # {}
       => run.synced
  /\ run.pc \in Steps \ ImageSteps /\ run.exitCode = 0 => run.bitfileReady
  /\ run.pc \in {"flash", "status", "end"} /\ run.exitCode = 0 /\ "install_oled" \in run.cmd
       => board.service = "started"
  /\ run.pc \in {"status", "end"} /\ run.exitCode = 0
       /\ run.cmd \cap {"flash", "deploy", "all"} # {}
       => board.fpga = board.bin /\ board.fpga # "none"

Inv == TypeOK /\ LoopsOver /\ ImageIsReady /\ NothingLost

\* The domain of the record, spelled out.
LEMMA FollowingSteps ==
  /\ DOMAIN Following = {"scan", "convert", "oled", "flash", "status"}
  /\ Following["scan"] = "convert" /\ Following["convert"] = "oled"
  /\ Following["oled"] = "flash" /\ Following["flash"] = "status"
  /\ Following["status"] = "end"
BY DEF Following

\* What a run may be at, as TypeOK has it.
Typed(r) ==
  r \in [pc : Steps \cup {"idle"}, cmd : Commands \cup {{}}, kind : {"raw", "bin", "none"},
         failures : BOOLEAN, synced : BOOLEAN, bitfileReady : BOOLEAN,
         oled : BOOLEAN, exitCode : {0, 1}]

LEMMA StepNames ==
  DOMAIN Following \cup {"idle", "delete", "mkdir", "copy", "upload", "end"} = Steps \cup {"idle"}
BY FollowingSteps DEF Steps

LEMMA TypeOKParts ==
  ASSUME TypeOK
  PROVE  /\ local \in [tree : Trees, bit : Images \cup {"none"},
                       bin : Images \cup {"none", "partial"}]
         /\ board \in [tree : [Paths -> Contents], bin : Images \cup {"none", "partial"},
                       fpga : Images \cup {"none", "partial"}, service : Units]
         /\ Typed(run) /\ todo \subseteq Paths /\ linked \in BOOLEAN /\ runs \in 0 .. MaxRuns
BY StepNames DEF TypeOK, Typed

LEMMA TreeContents == \A t \in Trees : t \in [Paths -> Versions \cup {"none", "dir"}] /\ IsTree(t)
BY DeployAssumption DEF DeployAssumption

LEMMA InitInv == Init => Inv
<1>. SUFFICES ASSUME Init PROVE Inv
  OBVIOUS
<1>1. TypeOK
  <2>1. Typed(run)
    BY DEF Init, Idle, Typed
  <2>2. todo \subseteq Paths /\ linked \in BOOLEAN
    BY DEF Init
  <2>5. runs \in 0 .. MaxRuns
    BY DeployAssumption DEF Init, DeployAssumption
  <2>3. board \in [tree : [Paths -> Contents], bin : Images \cup {"none", "partial"},
                   fpga : Images \cup {"none", "partial"}, service : Units]
    BY DEF Init, Contents, Units
  <2>4. local \in [tree : Trees, bit : Images \cup {"none"},
                   bin : Images \cup {"none", "partial"}]
    BY DEF Init
  <2>. QED  BY <2>1, <2>2, <2>3, <2>4, <2>5, StepNames DEF TypeOK, Typed
<1>. QED  BY <1>1 DEF Init, Idle, Inv, LoopsOver, ImageIsReady, NothingLost, Steps

-----------------------------------------------------------------------------
(* main(): the connection, and a step that is not wanted. *)

LEMMA StartInv ==
  ASSUME NEW cmd \in Commands, NEW kind \in {"raw", "bin", "none"}, NEW up \in BOOLEAN, Inv, Start(cmd, kind, up)
  PROVE  Inv'
<1>0. TypeOK
  BY DEF Inv
<1>1. TypeOK'
  <2>1. Typed(run')
    BY <1>0, TypeOKParts, FollowingSteps DEF Start, Idle, Typed, Steps
  <2>. QED  BY <1>0, <2>1, StepNames, DeployAssumption
    DEF Start, Idle, TypeOK, Typed, DeployAssumption
<1>2. LoopsOver'
  BY <1>0, TypeOKParts, FollowingSteps DEF Start, LoopsOver
<1>3. ImageIsReady'
  BY <1>0, TypeOKParts, FollowingSteps DEF Start, Idle, ImageIsReady
<1>4. NothingLost'
  BY <1>0, TypeOKParts, FollowingSteps DEF Start, NothingLost, SyncSteps, ImageSteps
<1>. QED  BY <1>1, <1>2, <1>3, <1>4 DEF Inv

LEMMA SkipInv ==
  ASSUME Inv, Skip
  PROVE  Inv'
<1>0. TypeOK
  BY DEF Inv
<1>1. TypeOK'
  <2>1. Typed(run')
    BY <1>0, TypeOKParts, FollowingSteps DEF Skip, Typed, Steps
  <2>. QED  BY <1>0, <2>1, StepNames, DeployAssumption DEF Skip, TypeOK, Typed, DeployAssumption
<1>2. LoopsOver'
  BY <1>0, TypeOKParts, FollowingSteps DEF Skip, LoopsOver
<1>3. ImageIsReady'
  BY <1>0, TypeOKParts, FollowingSteps
  DEF Skip, Inv, ImageIsReady, Steps, SyncSteps, ImageSteps, IntendedImage
<1>4. NothingLost'
  BY <1>0, TypeOKParts, FollowingSteps
  DEF Skip, Inv, Typed, NothingLost, ImageIsReady, Steps, SyncSteps, ImageSteps, Wanted,
      CopyRequested
<1>. QED  BY <1>1, <1>2, <1>3, <1>4 DEF Inv

LEMMA RaiseInv ==
  ASSUME Inv, Raise
  PROVE  Inv'
<1>0. TypeOK
  BY DEF Inv
<1>1. TypeOK'
  <2>1. Typed(run')
    BY <1>0, TypeOKParts, FollowingSteps DEF Raise, Typed, Steps
  <2>. QED  BY <1>0, <2>1, StepNames, DeployAssumption DEF Raise, TypeOK, Typed, DeployAssumption
<1>2. LoopsOver'
  BY <1>0, TypeOKParts, FollowingSteps DEF Raise, LoopsOver
<1>3. ImageIsReady'
  BY <1>0, TypeOKParts, FollowingSteps DEF Raise, ImageIsReady, Steps, SyncSteps, ImageSteps
<1>4. NothingLost'
  BY <1>0, TypeOKParts, FollowingSteps DEF Raise, NothingLost
<1>. QED  BY <1>1, <1>2, <1>3, <1>4 DEF Inv

LEMMA ExitInv ==
  ASSUME Inv, Exit
  PROVE  Inv'
<1>0. TypeOK
  BY DEF Inv
<1>1. TypeOK'
  <2>1. Typed(run')
    BY <1>0, TypeOKParts, FollowingSteps DEF Exit, Typed, Steps
  <2>. QED  BY <1>0, <2>1, StepNames, DeployAssumption DEF Exit, TypeOK, Typed, DeployAssumption
<1>2. LoopsOver'
  BY <1>0, TypeOKParts, FollowingSteps DEF Exit, LoopsOver
<1>3. ImageIsReady'
  BY <1>0, TypeOKParts, FollowingSteps DEF Exit, ImageIsReady, Steps, SyncSteps, ImageSteps
<1>4. NothingLost'
  BY <1>0, TypeOKParts, FollowingSteps DEF Exit, Inv, Typed, NothingLost, SyncSteps, ImageSteps
<1>. QED  BY <1>1, <1>2, <1>3, <1>4 DEF Inv

-----------------------------------------------------------------------------
(* sync_cpp_files() *)

LEMMA ScanInv ==
  ASSUME NEW ok \in BOOLEAN, Inv, Scan(ok)
  PROVE  Inv'
<1>0. TypeOK
  BY DEF Inv
<1>1. TypeOK'
  <2>1. Typed(run')
    BY <1>0, TypeOKParts, FollowingSteps DEF Scan, Typed, Steps
  <2>. QED  BY <1>0, <2>1, StepNames, DeployAssumption DEF Scan, TypeOK, RemoteFiles
<1>2. LoopsOver'
  BY <1>0, TypeOKParts, FollowingSteps DEF Scan, LoopsOver
<1>3. ImageIsReady'
  BY <1>0, TypeOKParts, FollowingSteps DEF Scan, Inv, ImageIsReady, SyncSteps, ImageSteps
<1>4. NothingLost'
  BY <1>0, TypeOKParts, FollowingSteps DEF Scan, NothingLost, SyncSteps, ImageSteps
<1>. QED  BY <1>1, <1>2, <1>3, <1>4 DEF Inv

LEMMA DeleteInv ==
  ASSUME NEW p \in Paths, NEW ok \in BOOLEAN, Inv, Delete(p, ok)
  PROVE  Inv'
<1>0. TypeOK
  BY DEF Inv
<1>1. TypeOK'
  <2>1. Typed(run')
    BY <1>0, TypeOKParts, FollowingSteps DEF Delete, Typed, Steps
  <2>2. board' \in [tree : [Paths -> Contents], bin : Images \cup {"none", "partial"},
                    fpga : Images \cup {"none", "partial"}, service : Units]
    BY <1>0, TypeOKParts, TreeContents DEF Delete, Contents, Versions, LoopsOver, Inv
  <2>. QED  BY <1>0, <2>1, <2>2, StepNames, DeployAssumption
    DEF Delete, TypeOK, Typed, DeployAssumption
<1>2. LoopsOver'
  BY <1>0, TypeOKParts, FollowingSteps DEF Delete, Inv, LoopsOver
<1>3. ImageIsReady'
  BY <1>0, TypeOKParts, FollowingSteps DEF Delete, Inv, ImageIsReady, IntendedImage
<1>4. NothingLost'
  BY <1>0, TypeOKParts, FollowingSteps DEF Delete, Inv, NothingLost
<1>. QED  BY <1>1, <1>2, <1>3, <1>4 DEF Inv

LEMMA MakeRootInv ==
  ASSUME NEW ok \in BOOLEAN, Inv, MakeRoot(ok)
  PROVE  Inv'
<1>0. TypeOK
  BY DEF Inv
<1>1. TypeOK'
  <2>1. Typed(run')
    BY <1>0, TypeOKParts, FollowingSteps DEF MakeRoot, Typed, Steps
  <2>. QED  BY <1>0, <2>1, StepNames, DeployAssumption
    DEF MakeRoot, TypeOK, Typed, LocalDirs, DeployAssumption
<1>2. LoopsOver'
  BY <1>0, TypeOKParts, FollowingSteps DEF MakeRoot, LoopsOver, LocalDirs
<1>3. ImageIsReady'
  BY <1>0, TypeOKParts, FollowingSteps DEF MakeRoot, Inv, ImageIsReady, SyncSteps, ImageSteps
<1>4. NothingLost'
  BY <1>0, TypeOKParts, FollowingSteps DEF MakeRoot, NothingLost, SyncSteps, ImageSteps
<1>. QED  BY <1>1, <1>2, <1>3, <1>4 DEF Inv

LEMMA MakeDirInv ==
  ASSUME NEW p \in Paths, NEW ok \in BOOLEAN, Inv, MakeDir(p, ok)
  PROVE  Inv'
<1>0. TypeOK
  BY DEF Inv
<1>1. TypeOK'
  <2>1. Typed(run')
    BY <1>0, TypeOKParts, FollowingSteps DEF MakeDir, Typed, Steps
  <2>2. board' \in [tree : [Paths -> Contents], bin : Images \cup {"none", "partial"},
                    fpga : Images \cup {"none", "partial"}, service : Units]
    BY <1>0, TypeOKParts, TreeContents DEF MakeDir, Contents, Versions, LoopsOver, Inv
  <2>. QED  BY <1>0, <2>1, <2>2, StepNames, DeployAssumption
    DEF MakeDir, TypeOK, Typed, DeployAssumption
<1>2. LoopsOver'
  BY <1>0, TypeOKParts, FollowingSteps DEF MakeDir, Inv, LoopsOver, LocalDirs
<1>3. ImageIsReady'
  BY <1>0, TypeOKParts, FollowingSteps DEF MakeDir, Inv, ImageIsReady, IntendedImage
<1>4. NothingLost'
  BY <1>0, TypeOKParts, FollowingSteps DEF MakeDir, Inv, NothingLost
<1>. QED  BY <1>1, <1>2, <1>3, <1>4 DEF Inv

LEMMA DirsMadeInv ==
  ASSUME Inv, DirsMade
  PROVE  Inv'
<1>0. TypeOK
  BY DEF Inv
<1>1. TypeOK'
  <2>1. Typed(run')
    BY <1>0, TypeOKParts, FollowingSteps DEF DirsMade, Typed, Steps
  <2>. QED  BY <1>0, <2>1, StepNames, DeployAssumption
    DEF DirsMade, TypeOK, Typed, LocalFiles, DeployAssumption
<1>2. LoopsOver'
  BY <1>0, TypeOKParts, FollowingSteps DEF DirsMade, LoopsOver, LocalFiles
<1>3. ImageIsReady'
  BY <1>0, TypeOKParts, FollowingSteps DEF DirsMade, Inv, ImageIsReady, SyncSteps, ImageSteps
<1>4. NothingLost'
  BY <1>0, TypeOKParts, FollowingSteps DEF DirsMade, NothingLost, SyncSteps, ImageSteps
<1>. QED  BY <1>1, <1>2, <1>3, <1>4 DEF Inv

LEMMA CopyInv ==
  ASSUME NEW p \in Paths, NEW ok \in BOOLEAN, Inv, Copy(p, ok)
  PROVE  Inv'
<1>0. TypeOK
  BY DEF Inv
<1>1. TypeOK'
  <2>1. Typed(run')
    BY <1>0, TypeOKParts, FollowingSteps DEF Copy, Left, Typed, Steps
  <2>2. board' \in [tree : [Paths -> Contents], bin : Images \cup {"none", "partial"},
                    fpga : Images \cup {"none", "partial"}, service : Units]
    BY <1>0, TypeOKParts, TreeContents DEF Copy, Left, Contents
  <2>. QED  BY <1>0, <2>1, <2>2, StepNames, DeployAssumption
    DEF Copy, Left, TypeOK, Typed, DeployAssumption
<1>2. LoopsOver'
  BY <1>0, TypeOKParts, FollowingSteps DEF Copy, Inv, LoopsOver, LocalFiles
<1>3. ImageIsReady'
  BY <1>0, TypeOKParts, FollowingSteps DEF Copy, Inv, ImageIsReady, IntendedImage
<1>4. NothingLost'
  BY <1>0, TypeOKParts, FollowingSteps DEF Copy, Inv, NothingLost
<1>. QED  BY <1>1, <1>2, <1>3, <1>4 DEF Inv

LEMMA SyncedInv ==
  ASSUME Inv, Synced
  PROVE  Inv'
<1>0. TypeOK
  BY DEF Inv
<1>1. TypeOK'
  <2>1. Typed(run')
    BY <1>0, TypeOKParts, FollowingSteps DEF Synced, Typed, Steps
  <2>. QED  BY <1>0, <2>1, StepNames, DeployAssumption DEF Synced, TypeOK, Typed, DeployAssumption
<1>2. LoopsOver'
  BY <1>0, TypeOKParts, FollowingSteps DEF Synced, LoopsOver
<1>3. ImageIsReady'
  BY <1>0, TypeOKParts, FollowingSteps DEF Synced, Inv, ImageIsReady, SyncSteps, ImageSteps
<1>4. NothingLost'
  <2>1. /\ run' = [run EXCEPT !.pc = "convert", !.synced = ~run.failures,
                            !.exitCode = IF run.failures THEN 1 ELSE run.exitCode]
        /\ UNCHANGED <<local, board>>
    BY DEF Synced
  <2>2. run'.pc = "convert" /\ (run'.exitCode = 0 => ~run.failures)
    BY <1>0, <2>1, TypeOKParts DEF Typed
  <2>3. run'.synced = ~run.failures
    BY <1>0, <2>1, TypeOKParts DEF Typed
  <2>. QED  BY <2>2, <2>3 DEF NothingLost, Steps, SyncSteps, ImageSteps

<1>. QED  BY <1>1, <1>2, <1>3, <1>4 DEF Inv

-----------------------------------------------------------------------------
(* The bitstream, the display service, the FPGA and the status. *)

LEMMA ConvertInv ==
  ASSUME NEW ok \in BOOLEAN, Inv, Convert(ok)
  PROVE  Inv'
<1>0. TypeOK
  BY DEF Inv
<1>1. TypeOK'
  <2>1. Typed(run')
    BY <1>0, TypeOKParts, FollowingSteps DEF Convert, Typed, Steps
  <2>2. local' \in [tree : Trees, bit : Images \cup {"none"},
                    bin : Images \cup {"none", "partial"}]
    BY <1>0, TypeOKParts DEF Convert
  <2>. QED  BY <1>0, <2>1, <2>2, StepNames, DeployAssumption
    DEF Convert, TypeOK, Typed, DeployAssumption
<1>2. LoopsOver'
  BY <1>0, TypeOKParts, FollowingSteps DEF Convert, LoopsOver
<1>3. ImageIsReady'
  BY <1>0, TypeOKParts, FollowingSteps DEF Convert, Inv, ImageIsReady, ImageSteps
<1>4. NothingLost'
  BY <1>0, TypeOKParts, FollowingSteps DEF Convert, Inv, Typed, NothingLost, SyncSteps, ImageSteps
<1>. QED  BY <1>1, <1>2, <1>3, <1>4 DEF Inv

LEMMA UploadInv ==
  ASSUME NEW ok \in BOOLEAN, Inv, Upload(ok)
  PROVE  Inv'
<1>0. TypeOK
  BY DEF Inv
<1>1. TypeOK'
  <2>1. Typed(run')
    BY <1>0, TypeOKParts, FollowingSteps DEF Upload, Left, Typed, Steps
  <2>2. board' \in [tree : [Paths -> Contents], bin : Images \cup {"none", "partial"},
                    fpga : Images \cup {"none", "partial"}, service : Units]
    BY <1>0, TypeOKParts, TreeContents DEF Upload, Left
  <2>. QED  BY <1>0, <2>1, <2>2, StepNames, DeployAssumption
    DEF Upload, Left, TypeOK, Typed, DeployAssumption
<1>2. LoopsOver'
  BY <1>0, TypeOKParts, FollowingSteps DEF Upload, LoopsOver
<1>3. ImageIsReady'
  BY <1>0, TypeOKParts, FollowingSteps
  DEF Upload, Left, Inv, ImageIsReady, SyncSteps, ImageSteps, IntendedImage
<1>4. NothingLost'
  BY <1>0, TypeOKParts, FollowingSteps DEF Upload, Inv, NothingLost, Steps, SyncSteps
<1>. QED  BY <1>1, <1>2, <1>3, <1>4 DEF Inv

LEMMA InstallOledInv ==
  ASSUME NEW service \in Units, Inv, InstallOled(service)
  PROVE  Inv'
<1>0. TypeOK
  BY DEF Inv
<1>1. TypeOK'
  <2>1. Typed(run')
    BY <1>0, TypeOKParts, FollowingSteps DEF InstallOled, Typed, Steps
  <2>2. board' \in [tree : [Paths -> Contents], bin : Images \cup {"none", "partial"},
                    fpga : Images \cup {"none", "partial"}, service : Units]
    BY <1>0, TypeOKParts, TreeContents DEF InstallOled, Contents, Versions, LoopsOver, Inv
  <2>. QED  BY <1>0, <2>1, <2>2, StepNames, DeployAssumption
    DEF InstallOled, TypeOK, Typed, DeployAssumption
<1>2. LoopsOver'
  BY <1>0, TypeOKParts, FollowingSteps DEF InstallOled, LoopsOver
<1>3. ImageIsReady'
  BY <1>0, TypeOKParts, FollowingSteps
  DEF InstallOled, Inv, ImageIsReady, Steps, SyncSteps, ImageSteps, IntendedImage
<1>4. NothingLost'
  BY <1>0, TypeOKParts, FollowingSteps
  DEF InstallOled, Inv, Typed, NothingLost, SyncSteps, ImageSteps
<1>. QED  BY <1>1, <1>2, <1>3, <1>4 DEF Inv

LEMMA FlashInv ==
  ASSUME NEW ok \in BOOLEAN, Inv, Flash(ok)
  PROVE  Inv'
<1>0. TypeOK
  BY DEF Inv
<1>1. TypeOK'
  <2>1. Typed(run')
    BY <1>0, TypeOKParts, FollowingSteps DEF Flash, Typed, Steps
  <2>2. board' \in [tree : [Paths -> Contents], bin : Images \cup {"none", "partial"},
                    fpga : Images \cup {"none", "partial"}, service : Units]
    BY <1>0, TypeOKParts, TreeContents DEF Flash, Contents, Versions, LoopsOver, Inv
  <2>. QED  BY <1>0, <2>1, <2>2, StepNames, DeployAssumption
    DEF Flash, TypeOK, Typed, DeployAssumption
<1>2. LoopsOver'
  BY <1>0, TypeOKParts, FollowingSteps DEF Flash, LoopsOver
<1>3. ImageIsReady'
  BY <1>0, TypeOKParts, FollowingSteps
  DEF Flash, Inv, ImageIsReady, Steps, SyncSteps, ImageSteps, IntendedImage
<1>4. NothingLost'
  BY <1>0, TypeOKParts, FollowingSteps DEF Flash, Inv, Typed, NothingLost, SyncSteps
<1>. QED  BY <1>1, <1>2, <1>3, <1>4 DEF Inv

LEMMA SkipFlashInv ==
  ASSUME Inv, SkipFlash
  PROVE  Inv'
<1>0. TypeOK
  BY DEF Inv
<1>1. TypeOK'
  <2>1. Typed(run')
    BY <1>0, TypeOKParts, FollowingSteps DEF SkipFlash, Typed, Steps
  <2>. QED  BY <1>0, <2>1, StepNames, DeployAssumption
    DEF SkipFlash, TypeOK, Typed, DeployAssumption
<1>2. LoopsOver'
  BY <1>0, TypeOKParts, FollowingSteps DEF SkipFlash, LoopsOver
<1>3. ImageIsReady'
  BY <1>0, TypeOKParts, FollowingSteps DEF SkipFlash, Inv, ImageIsReady
<1>4. NothingLost'
  BY <1>0, TypeOKParts, FollowingSteps DEF SkipFlash, Inv, Typed, NothingLost, SyncSteps, ImageSteps
<1>. QED  BY <1>1, <1>2, <1>3, <1>4 DEF Inv

LEMMA CheckStatusInv ==
  ASSUME Inv, CheckStatus
  PROVE  Inv'
<1>0. TypeOK
  BY DEF Inv
<1>1. TypeOK'
  <2>1. Typed(run')
    BY <1>0, TypeOKParts, FollowingSteps DEF CheckStatus, Typed, Steps
  <2>. QED  BY <1>0, <2>1, StepNames, DeployAssumption
    DEF CheckStatus, TypeOK, Typed, DeployAssumption
<1>2. LoopsOver'
  BY <1>0, TypeOKParts, FollowingSteps DEF CheckStatus, LoopsOver
<1>3. ImageIsReady'
  BY <1>0, TypeOKParts, FollowingSteps
  DEF CheckStatus, Inv, ImageIsReady, Steps, SyncSteps, ImageSteps, IntendedImage
<1>4. NothingLost'
  BY <1>0, TypeOKParts, FollowingSteps
  DEF CheckStatus, Inv, Typed, NothingLost, SyncSteps, ImageSteps
<1>. QED  BY <1>1, <1>2, <1>3, <1>4 DEF Inv

-----------------------------------------------------------------------------
(* The world around the tool. *)

LEMMA LoseLinkInv ==
  ASSUME Inv, LoseLink
  PROVE  Inv'
<1>0. TypeOK
  BY DEF Inv
<1>1. TypeOK'
  <2>1. linked' \in BOOLEAN /\ UNCHANGED <<local, board, run, todo, runs>>
    BY DEF LoseLink
  <2>. QED  BY <1>0, <2>1 DEF TypeOK
<1>2. LoopsOver'
  BY <1>0, TypeOKParts, FollowingSteps DEF LoseLink, Inv, LoopsOver, LocalFiles, LocalDirs
<1>3. ImageIsReady'
  BY <1>0, TypeOKParts, FollowingSteps DEF LoseLink, Inv, ImageIsReady, IntendedImage
<1>4. NothingLost'
  BY <1>0, TypeOKParts, FollowingSteps DEF LoseLink, Inv, NothingLost
<1>. QED  BY <1>1, <1>2, <1>3, <1>4 DEF Inv

LEMMA EditInv ==
  ASSUME NEW tree \in Trees, NEW bit \in Images \cup {"none"}, Inv, Edit(tree, bit)
  PROVE  Inv'
<1>0. TypeOK
  BY DEF Inv
<1>1. TypeOK'
  <2>1. local' \in [tree : Trees, bit : Images \cup {"none"},
                    bin : Images \cup {"none", "partial"}]
    BY <1>0, TypeOKParts DEF Edit
  <2>. QED  BY <1>0, <2>1, StepNames, DeployAssumption DEF Edit, TypeOK, DeployAssumption
<1>2. LoopsOver'
  BY <1>0, TypeOKParts, FollowingSteps DEF Edit, LoopsOver
<1>3. ImageIsReady'
  BY <1>0, TypeOKParts, FollowingSteps DEF Edit, Inv, ImageIsReady, Steps
<1>4. NothingLost'
  BY <1>0, TypeOKParts, FollowingSteps DEF Edit, Inv, NothingLost
<1>. QED  BY <1>1, <1>2, <1>3, <1>4 DEF Inv

LEMMA BuildInv ==
  ASSUME Inv, Build
  PROVE  Inv'
<1>0. TypeOK
  BY DEF Inv
<1>1. TypeOK'
  <2>1. board' \in [tree : [Paths -> Contents], bin : Images \cup {"none", "partial"},
                    fpga : Images \cup {"none", "partial"}, service : Units]
    BY <1>0, TypeOKParts, TreeContents DEF Build, Contents, Versions, LoopsOver, Inv
  <2>. QED  BY <1>0, <2>1, StepNames, DeployAssumption DEF Build, TypeOK, DeployAssumption
<1>2. LoopsOver'
  BY <1>0, TypeOKParts, FollowingSteps DEF Build, LoopsOver
<1>3. ImageIsReady'
  BY <1>0, TypeOKParts, FollowingSteps DEF Build, Inv, ImageIsReady, IntendedImage
<1>4. NothingLost'
  BY <1>0, TypeOKParts, FollowingSteps DEF Build, Inv, NothingLost
<1>. QED  BY <1>1, <1>2, <1>3, <1>4 DEF Inv

LEMMA PowerCycleInv ==
  ASSUME Inv, PowerCycle
  PROVE  Inv'
<1>0. TypeOK
  BY DEF Inv
<1>1. TypeOK'
  <2>1. board' \in [tree : [Paths -> Contents], bin : Images \cup {"none", "partial"},
                    fpga : Images \cup {"none", "partial"}, service : Units]
    BY <1>0, TypeOKParts, TreeContents DEF PowerCycle, Contents, Versions, LoopsOver, Inv
  <2>. QED  BY <1>0, <2>1, StepNames, DeployAssumption DEF PowerCycle, TypeOK, DeployAssumption
<1>2. LoopsOver'
  BY <1>0, TypeOKParts, FollowingSteps DEF PowerCycle, LoopsOver
<1>3. ImageIsReady'
  BY <1>0, TypeOKParts, FollowingSteps DEF PowerCycle, Inv, ImageIsReady, IntendedImage
<1>4. NothingLost'
  BY <1>0, TypeOKParts, FollowingSteps DEF PowerCycle, Inv, NothingLost
<1>. QED  BY <1>1, <1>2, <1>3, <1>4 DEF Inv

-----------------------------------------------------------------------------
(* The sync, when find tells what there is and no directory becomes a file. *)

\* No directory of a local tree is ever replaced by a file of its name.
NeverRenamed == \A t, u \in Trees, p \in Paths : t[p] = "dir" => ~IsFile(u[p])

SyncAssumption == "find" \notin Faults /\ NeverRenamed

\* What the sync has done, as long as nothing of it has failed.
SyncSoFar ==
  /\ \A p \in Paths : board.tree[p] = "dir" => \E t \in Trees : t[p] = "dir"
  /\ run.pc \in SyncSteps => ~run.synced
  /\ run.pc = "delete" /\ ~run.failures => RemoteFiles \subseteq LocalFiles \cup Artifacts \cup todo
  /\ run.pc \in {"mkdir", "copy"} /\ ~run.failures => RemoteFiles \subseteq LocalFiles \cup Artifacts
  /\ run.pc = "copy" /\ ~run.failures =>
       \A p \in LocalFiles \ todo : board.tree[p] = local.tree[p]
  /\ SyncMirrors

LEMMA InitSync == Init => SyncSoFar
BY DEF Init, Idle, SyncSoFar, SyncMirrors, ReportsSync

\* A step that leaves the trees alone keeps what was synced.
LEMMA KeepsSync ==
  ASSUME SyncSoFar, board'.tree = board.tree, local'.tree = local.tree,
         run'.pc \notin SyncSteps, run'.synced => run.pc # "idle" /\ run.synced
  PROVE  SyncSoFar'
BY DEF SyncSoFar, SyncMirrors, ReportsSync, Mirrored, LocalFiles, RemoteFiles, SyncSteps

LEMMA SyncStep ==
  ASSUME SyncAssumption, Inv, SyncSoFar, Sync
  PROVE  SyncSoFar'
<1>. USE TypeOKParts
<1>0. TypeOK /\ LoopsOver
  BY DEF Inv
<1>1. CASE \E ok \in BOOLEAN : Scan(ok)
  BY <1>0, <1>1
  DEF Scan, May, SyncAssumption, SyncSoFar, SyncMirrors, ReportsSync, SyncSteps, LocalFiles,
      RemoteFiles
<1>2. CASE \E ok \in BOOLEAN : MakeRoot(ok)
  BY <1>0, <1>2
  DEF MakeRoot, Typed, SyncSoFar, SyncMirrors, ReportsSync, SyncSteps, LocalFiles, RemoteFiles
<1>3. CASE DirsMade
  BY <1>0, <1>3
  DEF DirsMade, SyncSoFar, SyncMirrors, ReportsSync, SyncSteps, LocalFiles, RemoteFiles
<1>4. CASE Synced
  BY <1>0, <1>4
  DEF Synced, Typed, SyncSoFar, SyncMirrors, ReportsSync, Mirrored, SyncSteps, LocalFiles,
      RemoteFiles
<1>5. ASSUME NEW p \in Paths, NEW ok \in BOOLEAN, Delete(p, ok) PROVE SyncSoFar'
  <2>1. /\ run.pc = "delete" /\ run' = [run EXCEPT !.failures = run.failures \/ ~ok]
        /\ local' = local /\ todo' = todo \ {p}
        /\ board' = IF ok THEN [board EXCEPT !.tree[p] = "none"] ELSE board
    BY <1>5 DEF Delete
  <2>2. /\ \A q \in Paths : board'.tree[q] = IF ok /\ q = p THEN "none" ELSE board.tree[q]
        /\ run'.pc = "delete" /\ run'.synced = run.synced
        /\ ~run'.failures => ok /\ ~run.failures
    BY <1>0, <2>1 DEF Typed
  <2>3. RemoteFiles' = IF ok THEN RemoteFiles \ {p} ELSE RemoteFiles
    BY <2>2 DEF RemoteFiles, IsFile
  <2>. QED  BY <2>1, <2>2, <2>3 DEF SyncSoFar, SyncMirrors, ReportsSync, SyncSteps, LocalFiles
<1>6. ASSUME NEW p \in Paths, NEW ok \in BOOLEAN, MakeDir(p, ok) PROVE SyncSoFar'
  <2>1. /\ run.pc = "mkdir" /\ local' = local /\ p \in LocalDirs
        /\ run'.pc = "mkdir" /\ run'.synced = run.synced /\ (~run'.failures => ~run.failures)
    BY <1>0, <1>6 DEF MakeDir, Typed, LoopsOver
  <2>2. \A q \in Paths : board'.tree[q] = board.tree[q]
                          \/ (board'.tree[q] = "dir" /\ q \in Upwards(p))
    BY <1>0, <1>6 DEF MakeDir
  <2>3. \A q \in Paths : q \in Upwards(p) => local.tree[q] = "dir"
    BY <1>0, <2>1, TreeContents DEF Upwards, LocalDirs, IsTree
  <2>4. RemoteFiles' \subseteq RemoteFiles
    BY <2>2 DEF RemoteFiles, IsFile
  <2>. QED  BY <1>0, <2>1, <2>2, <2>3, <2>4
    DEF SyncSoFar, SyncMirrors, ReportsSync, SyncSteps, LocalFiles
<1>7. ASSUME NEW p \in Paths, NEW ok \in BOOLEAN, Copy(p, ok) PROVE SyncSoFar'
  <2>1. /\ run.pc = "copy" /\ local' = local /\ p \in LocalFiles /\ todo' = todo \ {p}
        /\ run'.pc = "copy" /\ run'.synced = run.synced
    BY <1>0, <1>7 DEF Copy, Typed, LoopsOver
  <2>2. \A q \in Paths : q # p => board'.tree[q] = board.tree[q]
    BY <1>0, <1>7 DEF Copy
  <2>3. board.tree[p] # "dir"
    BY <1>0, <2>1 DEF SyncSoFar, SyncAssumption, NeverRenamed, LocalFiles
  <2>4. ~run'.failures => ~run.failures /\ board'.tree[p] = local.tree[p]
    <3>1. PICK content \in Left(local.tree[p], board.tree[p], ok) :
            ~run'.failures => ok /\ ~run.failures /\ board' = [board EXCEPT !.tree[p] = content]
      BY <1>0, <1>7, <2>3 DEF Copy, Typed
    <3>. QED  BY <1>0, <3>1 DEF Left
  <2>5. board'.tree[p] # "dir"
    BY <1>0, <1>7, <2>1, <2>3 DEF Copy, Left, LocalFiles, IsFile
  <2>6. RemoteFiles' \subseteq RemoteFiles \cup {p}
    BY <2>2 DEF RemoteFiles
  <2>. QED  BY <2>1, <2>2, <2>4, <2>5, <2>6
    DEF SyncSoFar, SyncMirrors, ReportsSync, SyncSteps, LocalFiles
<1>. QED  BY <1>1, <1>2, <1>3, <1>4, <1>5, <1>6, <1>7 DEF Sync

LEMMA OtherSteps ==
  ASSUME Inv, SyncSoFar, Tool \/ World, ~Sync
  PROVE  SyncSoFar'
<1>. USE TypeOKParts
<1>0. TypeOK
  BY DEF Inv
<1>1. ASSUME NEW cmd \in Commands, NEW kind \in {"raw", "bin", "none"}, NEW up \in BOOLEAN,
             Start(cmd, kind, up)
      PROVE  SyncSoFar'
  BY <1>1 DEF Start, Idle, SyncSoFar, SyncMirrors, ReportsSync
<1>2. CASE Skip \/ Raise \/ Exit
  <2>1. /\ board' = board /\ local' = local /\ run'.synced = run.synced
        /\ run'.pc = "idle" \/ (run.pc # "idle" /\ run'.pc \notin SyncSteps)
    <3>1. CASE Skip
      BY <1>0, <3>1, FollowingSteps DEF Skip, Typed, SyncSteps
    <3>2. CASE Raise \/ Exit
      BY <1>0, <3>2 DEF Raise, Exit, Typed
    <3>. QED  BY <1>2, <3>1, <3>2
  <2>. QED  BY <2>1
    DEF SyncSoFar, SyncMirrors, ReportsSync, Mirrored, LocalFiles, RemoteFiles, SyncSteps
<1>3. CASE Deploy
  <2>1. /\ board'.tree = board.tree /\ local'.tree = local.tree /\ run'.synced = run.synced
        /\ run.pc # "idle" /\ run'.pc \notin SyncSteps
    <3>1. CASE \E ok \in BOOLEAN : Convert(ok)
      BY <1>0, <3>1 DEF Convert, Typed, SyncSteps
    <3>2. CASE \E ok \in BOOLEAN : Upload(ok) \/ Flash(ok)
      BY <1>0, <3>2 DEF Upload, Flash, Typed, SyncSteps
    <3>3. CASE SkipFlash \/ CheckStatus \/ \E service \in Units : InstallOled(service)
      BY <1>0, <3>3 DEF InstallOled, SkipFlash, CheckStatus, Typed, SyncSteps
    <3>. QED  BY <1>3, <3>1, <3>2, <3>3 DEF Deploy
  <2>. QED  BY <2>1, KeepsSync
<1>4. CASE World
  <2>1. CASE LoseLink
    BY <2>1 DEF LoseLink, SyncSoFar, SyncMirrors, ReportsSync, Mirrored, LocalFiles, RemoteFiles
  <2>2. CASE World /\ ~LoseLink
    <3>1. run' = run /\ run.pc = "idle"
      BY <2>2 DEF World, Build, PowerCycle, Edit
    <3>2. \A p \in Paths : board'.tree[p] = "dir" => board.tree[p] = "dir"
      <4>1. CASE Build
        BY <1>0, <4>1 DEF Build
      <4>2. CASE PowerCycle
        BY <1>0, <4>2 DEF PowerCycle
      <4>3. CASE \E tree \in Trees, bit \in Images \cup {"none"} : Edit(tree, bit)
        BY <4>3 DEF Edit
      <4>. QED  BY <2>2, <4>1, <4>2, <4>3 DEF World
    <3>. QED  BY <3>1, <3>2 DEF SyncSoFar, SyncMirrors, ReportsSync, SyncSteps
  <2>. QED  BY <1>4, <2>1, <2>2
<1>. QED  BY <1>1, <1>2, <1>3, <1>4 DEF Tool

-----------------------------------------------------------------------------
(* The theorems. *)

LEMMA StepInv == Inv /\ [Next]_vars => Inv'
<1>. SUFFICES ASSUME Inv, [Next]_vars PROVE Inv'
  OBVIOUS
<1>1. CASE UNCHANGED vars
  BY <1>1
  DEF vars, Inv, TypeOK, LoopsOver, ImageIsReady, NothingLost, LocalFiles, LocalDirs, IntendedImage
<1>2. CASE Sync
  BY <1>2, ScanInv, DeleteInv, MakeRootInv, MakeDirInv, DirsMadeInv, CopyInv, SyncedInv DEF Sync
<1>3. CASE Deploy
  BY <1>3, ConvertInv, UploadInv, InstallOledInv, FlashInv, SkipFlashInv, CheckStatusInv DEF Deploy
<1>4. CASE World
  BY <1>4, LoseLinkInv, EditInv, BuildInv, PowerCycleInv DEF World
<1>. QED  BY <1>1, <1>2, <1>3, <1>4, StartInv, SkipInv, RaiseInv, ExitInv DEF Next, Tool

\* The type invariant.
THEOREM TypeCorrect == Spec => []TypeOK
<1>1. Inv => TypeOK
  BY DEF Inv
<1>. QED  BY <1>1, InitInv, StepInv, PTL DEF Spec

\* What is in a directory of build artifacts is one: out/ and all below it.
ArtifactsNest == \A p \in Paths : Parent[p] \in Artifacts => p \in Artifacts

\* A run keeps the build on the board, and programs the FPGA with the
\* bitstream it was asked to copy and no other.
THEOREM AlwaysOnlyAsAsked == ArtifactsNest => (Spec => OnlyAsAsked)
<1>. SUFFICES ASSUME ArtifactsNest PROVE Spec => OnlyAsAsked
  OBVIOUS
<1>1. Inv /\ [Next]_vars =>
        [run.pc # "idle" => \A p \in Artifacts : board'.tree[p] = board.tree[p]]_vars
  <2>. SUFFICES ASSUME Inv, Next, run.pc # "idle", NEW p \in Artifacts
                PROVE  board'.tree[p] = board.tree[p]
    OBVIOUS
  <2>0. TypeOK /\ p \in Paths
    BY DeployAssumption DEF Inv, DeployAssumption
  <2>1. CASE \E q \in Paths, ok \in BOOLEAN : Delete(q, ok) \/ Copy(q, ok)
    BY <2>0, <2>1, TypeOKParts DEF Delete, Copy, Inv, LoopsOver
  <2>2. CASE \E q \in Paths, ok \in BOOLEAN : MakeDir(q, ok)
    <3>1. PICK q \in Paths : q \notin Artifacts /\ (board' = board \/
             board' = [board EXCEPT !.tree = [d \in Paths |->
                         IF d \in Upwards(q) THEN "dir" ELSE board.tree[d]]])
      BY <2>2 DEF MakeDir, Inv, LoopsOver
    <3>2. p \notin Upwards(q)
      BY <3>1, <2>0 DEF ArtifactsNest, Upwards
    <3>. QED  BY <2>0, <3>1, <3>2, TypeOKParts
  <2>3. CASE \/ \E ok \in BOOLEAN : Scan(ok) \/ MakeRoot(ok) \/ DirsMade \/ Synced
             \/ Deploy \/ Skip \/ Raise \/ Exit \/ LoseLink
    BY <2>0, <2>3, TypeOKParts
    DEF Scan, MakeRoot, DirsMade, Synced, Deploy, Convert, Upload, InstallOled, Flash, SkipFlash,
        CheckStatus, Skip, Raise, Exit, LoseLink
  <2>. QED  BY <2>1, <2>2, <2>3 DEF Next, Tool, World, Sync, Start, Build, PowerCycle, Edit
<1>2. Inv /\ [Next]_vars =>
        [board'.fpga \notin {board.fpga, "none"} /\ CopyRequested(run.cmd)
           => board'.fpga = IntendedImage]_vars
  <2>. SUFFICES ASSUME Inv, Next, board'.fpga \notin {board.fpga, "none"}, CopyRequested(run.cmd)
                PROVE  board'.fpga = IntendedImage
    OBVIOUS
  <2>0. TypeOK
    BY DEF Inv
  <2>1. CASE \E ok \in BOOLEAN : Flash(ok)
    BY <2>0, <2>1, TypeOKParts DEF Flash, Inv, ImageIsReady, Steps
  <2>2. CASE \/ Sync \/ SkipFlash \/ CheckStatus \/ Skip \/ Raise \/ Exit \/ World
             \/ \E ok \in BOOLEAN : Convert(ok) \/ Upload(ok)
             \/ \E service \in Units : InstallOled(service)
             \/ \E cmd \in Commands, kind \in {"raw", "bin", "none"}, up \in BOOLEAN :
                  Start(cmd, kind, up)
    BY <2>0, <2>2, TypeOKParts
    DEF Sync, Scan, Delete, MakeRoot, MakeDir, DirsMade, Copy, Synced, SkipFlash, CheckStatus,
        Skip, Raise, Exit, World, LoseLink, Build, PowerCycle, Edit, Convert, Upload, InstallOled,
        Start
  <2>. QED  BY <2>1, <2>2 DEF Next, Tool, Deploy
<1>. QED  BY <1>1, <1>2, InitInv, StepInv, PTL
  DEF Spec, OnlyAsAsked, ArtifactsKept, FlashesWhatItCopied

LEMMA StepSync == SyncAssumption /\ Inv /\ SyncSoFar /\ [Next]_vars => SyncSoFar'
<1>1. CASE UNCHANGED vars
  BY <1>1 DEF vars, SyncSoFar, SyncMirrors, ReportsSync, Mirrored, LocalFiles, RemoteFiles
<1>. QED  BY <1>1, SyncStep, OtherSteps DEF Next

\* Where find tells what there is and no directory becomes a file, a sync that
\* reports success leaves the sources of its run on the board, and only those.
THEOREM SyncAlwaysMirrors == SyncAssumption => (Spec => []SyncMirrors)
<1>. SUFFICES ASSUME SyncAssumption PROVE Spec => []SyncMirrors
  OBVIOUS
<1>1. SyncSoFar => SyncMirrors
  BY DEF SyncSoFar
<1>2. Inv /\ SyncSoFar /\ [Next]_vars => (Inv /\ SyncSoFar)'
  BY StepInv, StepSync
<1>. QED  BY <1>1, <1>2, InitInv, InitSync, PTL DEF Spec

\* Under the same assumptions, exit code 0 means that all that was asked for
\* was done.
THEOREM ExitZeroAlwaysMeansDone == SyncAssumption => (Spec => []ExitZeroMeansDone)
<1>. SUFFICES ASSUME SyncAssumption PROVE Spec => []ExitZeroMeansDone
  OBVIOUS
<1>1. Inv /\ SyncSoFar => ExitZeroMeansDone
  BY DEF Inv, ImageIsReady, NothingLost, SyncSoFar, SyncMirrors, ReportsSync, ExitZeroMeansDone,
      Steps, ImageSteps, SyncSteps
<1>2. Inv /\ SyncSoFar /\ [Next]_vars => (Inv /\ SyncSoFar)'
  BY StepInv, StepSync
<1>. QED  BY <1>1, <1>2, InitInv, InitSync, PTL DEF Spec
-----------------------------------------------------------------------------
(***************************************************************************)
(* The hardware check (HilCheck): any gain within the limits, any number   *)
(* of repetitions, and whatever may happen to the loop.                    *)
(***************************************************************************)
Rigs ==
  [flaw : AllFlaws, plugged : BOOLEAN, board : {"absent", "other", "routed"},
   initialized : BOOLEAN, first : [{8192, 65536} -> Nat]]

Shown == [level : Nat, flat : BOOLEAN, linear : BOOLEAN, saturated : BOOLEAN]

TodoOf(c) == IF c \in 2 .. 7 THEN Plan(Checks[c]) ELSE <<>>

Todo == TodoOf(check)

\* Nothing is connected before the first check, and the last verdict is on all.
CodeOK ==
  /\ link = "new" => check = 1 /\ code \in {Pending, 2}
  /\ code = 2 => link = "new"
  /\ code \in {0, 1} => check = 8
  /\ code = 0 => \A c \in 1 .. 7 : results[c] = "pass"

HilTypes ==
  /\ bench \in Benches /\ rig \in Rigs /\ link \in {"new", "up", "lost"}
  /\ check \in 1 .. 8 /\ gain \in {None} \cup 20 .. 300
  /\ code \in {Pending, 0, 1, 2} /\ missed \in BOOLEAN
  /\ results \in [1 .. 7 -> {"none", "pass", "fail"}]
  /\ \A c \in 1 .. 7 : results[c] = "none" <=> c >= check
  /\ readings \in Seq(Shown) /\ Len(readings) <= Len(Todo)
  /\ CodeOK

\* The first sinc of a size is that of the level check or of the depth check.
FirstSinc ==
  /\ check <= 3 \/ (check = 4 /\ readings = <<>>) => rig.first[8192] = None
  /\ check <= 4 \/ (check = 5 /\ readings = <<>>) => rig.first[65536] = None

\* What was missed has failed a check, or will fail the level check at work.
MissedShows ==
  missed => \/ \E c \in 1 .. 7 : results[c] = "fail"
            \/ check \in 2 .. 5 /\ \E i \in 1 .. Len(readings) : readings[i].level = 0

\* A loop with stale data repeats the level of its first sinc: what passes the
\* level check is not nothing, and fails the check of its linearity.
StaleShows ==
  rig.flaw = "stale" =>
    /\ check = 4 /\ readings # <<>> => readings[1].level = rig.first[8192]
    /\ check > 4 /\ results[4] = "pass" => rig.first[8192] # None
    /\ check = 6 /\ results[4] = "pass" =>
         \A i \in 1 .. Len(readings) : readings[i].level = rig.first[8192]
    /\ check > 6 => "fail" \in {results[4], results[6]}

HilInv == HilTypes /\ FirstSinc /\ MissedShows /\ StaleShows

\* A loop that is left alone: what it answers, and which checks fail.
LevelOf(m) ==
  CASE rig.flaw = "route" -> 0
    [] rig.flaw = "weak" -> m.amplitude
    [] rig.flaw = "loud" -> 400 * m.amplitude
    [] rig.flaw = "stale" -> 2 * Gain
    [] rig.flaw = "decimation" /\ m.decimation = 1024 -> (4 * Gain * m.amplitude) \div 5
    [] OTHER -> Gain * m.amplitude

FailsAt ==
  CASE rig.flaw = "none" -> {}
    [] rig.flaw = "stale" -> {6}
    [] rig.flaw = "phase" -> {2}
    [] rig.flaw = "decimation" -> {3}
    [] rig.flaw = "uneven" -> {2, 4, 5}
    [] rig.flaw = "saturated" -> 2 .. 7
    [] rig.flaw = "loud" -> {2, 4, 5}
    [] rig.flaw = "weak" -> {2, 3, 4, 5}
    [] rig.flaw = "route" -> {1, 2, 3, 4, 5}

LeftAlone ==
  /\ link # "lost" /\ rig.plugged
  /\ rig.flaw = "route" => rig.board = "other"
  /\ check > 1 /\ rig.board = "other" => rig.flaw = "route"

SteadyReadings ==
  \A i \in 1 .. Len(readings) :
    readings[i] = [level |-> LevelOf(Todo[i]),
                   flat |-> rig.flaw # "uneven",
                   linear |-> rig.flaw # "phase",
                   saturated |-> rig.flaw = "saturated"]

SteadyFirst ==
  rig.flaw = "stale" =>
    /\ \A s \in {8192, 65536} : rig.first[s] \in {None, 2 * Gain}
    /\ check > 4 \/ (check = 4 /\ readings # <<>>) => rig.first[8192] = 2 * Gain

SteadyGain ==
  /\ check <= 2 => gain = None
  /\ check > 2 => gain = IF rig.flaw \in {"weak", "loud", "route", "saturated"}
                         THEN None ELSE Gain

SteadyResults ==
  \A c \in 1 .. 7 : c < check => results[c] = IF c \in FailsAt THEN "fail" ELSE "pass"

Steady ==
  Disturbances = {} =>
    LeftAlone /\ SteadyReadings /\ SteadyFirst /\ SteadyGain /\ SteadyResults

\* The measurements of each check.
LEMMA TodoIs ==
  ASSUME NEW c \in 1 .. 8
  PROVE  /\ c \in {1, 8} => Len(TodoOf(c)) = 0
         /\ c = 2 => Len(TodoOf(c)) = 1 /\ TodoOf(c)[1] = Sweep(64)
         /\ c = 3 => Len(TodoOf(c)) = 4 /\ \A i \in 1 .. 4 : TodoOf(c)[i] = Sweep(Decimations[i])
         /\ c = 4 => Len(TodoOf(c)) = 1 /\ TodoOf(c)[1] = Sinc(8192, 2)
         /\ c = 5 => Len(TodoOf(c)) = 1 /\ TodoOf(c)[1] = Sinc(65536, 2)
         /\ c = 6 => Len(TodoOf(c)) = 2 /\ TodoOf(c)[1] = Sinc(8192, 2) /\ TodoOf(c)[2] = Sinc(8192, 1)
         /\ c = 7 => /\ Len(TodoOf(c)) = Repeat
                         /\ \A i \in 1 .. Repeat : TodoOf(c)[i] = Sinc(Sizes[2 - (i % 2)], 2)
<1>1. CASE c \in {1, 8}
  BY <1>1 DEF TodoOf
<1>2. CASE c = 2
  <2>1. TodoOf(c) = <<Sweep(64)>>
    BY <1>2 DEF TodoOf, Checks, Plan
  <2>. QED  BY <1>2, <2>1
<1>3. CASE c = 3
  <2>1. TodoOf(c) = [i \in 1 .. 4 |-> Sweep(Decimations[i])]
    BY <1>3 DEF TodoOf, Checks, Plan
  <2>. QED  BY <1>3, <2>1
<1>4. CASE c = 4
  <2>1. TodoOf(c) = <<Sinc(8192, 2)>>
    BY <1>4 DEF TodoOf, Checks, Plan, Full
  <2>. QED  BY <1>4, <2>1
<1>5. CASE c = 5
  <2>1. TodoOf(c) = <<Sinc(65536, 2)>>
    BY <1>5 DEF TodoOf, Checks, Plan, Full
  <2>. QED  BY <1>5, <2>1
<1>6. CASE c = 6
  <2>1. TodoOf(c) = <<Sinc(8192, 2), Sinc(8192, 1)>>
    BY <1>6 DEF TodoOf, Checks, Plan, Full
  <2>. QED  BY <1>6, <2>1
<1>7. CASE c = 7
  <2>1. TodoOf(c) = [i \in 1 .. Repeat |-> Sinc(Sizes[2 - (i % 2)], 2)]
    BY <1>7 DEF TodoOf, Checks, Plan, Full
  <2>. QED  BY <1>7, <2>1, HilAssumption DEF HilAssumption
<1>. QED  BY <1>1, <1>2, <1>3, <1>4, <1>5, <1>6, <1>7

Measurement ==
  [sort : {"sweep", "sinc"}, decimation : {16, 64, 256, 1024},
   samples : {8192, 65536}, amplitude : {1, 2}]

LEMMA TodoType ==
  ASSUME HilTypes, NEW i \in 1 .. Len(Todo)
  PROVE  /\ Todo[i] \in Measurement
         /\ Todo[i].sort = "sinc" <=> check >= 4
         /\ check <= 5 => Todo[i].amplitude = 2
<1>0. check \in 1 .. 8
  BY DEF HilTypes
<1>1. check \in 2 .. 7
  BY <1>0, TodoIs DEF Todo
<1>2. ASSUME NEW s \in {8192, 65536}, NEW a \in {1, 2}
      PROVE  Sinc(s, a) \in Measurement /\ Sinc(s, a).sort = "sinc" /\ Sinc(s, a).amplitude = a
  BY DEF Sinc, Measurement
<1>3. ASSUME NEW d \in {16, 64, 256, 1024}
      PROVE  Sweep(d) \in Measurement /\ Sweep(d).sort # "sinc" /\ Sweep(d).amplitude = 2
  BY DEF Sweep, Measurement, Full
<1>4. CASE check = 3
  <2>0. Len(Todo) = 4 /\ \A k \in 1 .. 4 : Todo[k] = Sweep(Decimations[k])
    BY <1>4, <1>0, TodoIs DEF Todo
  <2>1. i \in 1 .. 4 /\ Todo[i] = Sweep(Decimations[i])
    BY <2>0
  <2>2. /\ Decimations[1] = 16 /\ Decimations[2] = 64
        /\ Decimations[3] = 256 /\ Decimations[4] = 1024
    BY DEF Decimations
  <2>3. Decimations[i] \in {16, 64, 256, 1024}
    BY <2>1, <2>2
  <2>. QED  BY <1>3, <1>4, <2>1, <2>3
<1>5. CASE check = 7
  <2>1. i \in 1 .. Repeat /\ Repeat \in Nat
    BY <1>5, <1>0, TodoIs, HilAssumption DEF HilAssumption, Todo
  <2>2. i % 2 \in {0, 1}
    BY <2>1
  <2>3. Sizes[2 - (i % 2)] \in {8192, 65536}
    BY <2>2 DEF Sizes
  <2>. QED  BY <1>2, <1>5, <2>1, <2>3, <1>0, TodoIs DEF Todo
<1>6. CASE check \in {2, 4, 5, 6}
  BY <1>2, <1>3, <1>6, <1>0, TodoIs DEF Todo
<1>. QED  BY <1>1, <1>4, <1>5, <1>6

\* What the loop answers is a level.
LEMMA SignalType ==
  ASSUME HilTypes, NEW m \in Measurement
  PROVE  Signal(m) \in Nat /\ Reading(m) \in Shown
<1>1. m.amplitude \in {1, 2} /\ m.samples \in {8192, 65536} /\ Gain \in 20 .. 300
  BY HilAssumption DEF Measurement, HilAssumption
<1>2. /\ Gain * m.amplitude \in Nat /\ 400 * m.amplitude \in Nat
      /\ (4 * Gain * m.amplitude) \div 5 \in Nat
  <2>1. CASE m.amplitude = 1
    BY <1>1, <2>1
  <2>2. CASE m.amplitude = 2
    BY <1>1, <2>2
  <2>. QED  BY <1>1, <2>1, <2>2
<1>3. Signal(m) \in Nat
  BY <1>1, <1>2 DEF Signal
<1>4. rig.first[m.samples] \in Nat
  BY <1>1 DEF HilTypes, Rigs
<1>. QED  BY <1>3, <1>4 DEF Reading, Shown

\* A check that ends.
LEMMA ConcludedTypes ==
  ASSUME HilTypes, check \in 1 .. 7, link # "new", NEW passed \in BOOLEAN,
         Conclude(passed), UNCHANGED <<bench, link, code>>,
         rig' \in Rigs, gain' \in {None} \cup 20 .. 300, missed' \in BOOLEAN
  PROVE  /\ HilTypes' /\ check' = check + 1 /\ readings' = <<>>
         /\ \A c \in 1 .. 7 : c # check => results'[c] = results[c]
         /\ results'[check] = IF passed THEN "pass" ELSE "fail"
<1>1. code = Pending
  BY DEF HilTypes, CodeOK, Pending
<1>2. /\ results' = [results EXCEPT ![check] = IF passed THEN "pass" ELSE "fail"]
      /\ check' = check + 1 /\ readings' = <<>>
  BY DEF Conclude
<1>3. /\ results' \in [1 .. 7 -> {"none", "pass", "fail"}]
      /\ \A c \in 1 .. 7 : c # check => results'[c] = results[c]
      /\ results'[check] = IF passed THEN "pass" ELSE "fail"
  BY <1>2 DEF HilTypes
<1>4. \A c \in 1 .. 7 : results'[c] = "none" <=> c >= check'
  BY <1>2, <1>3 DEF HilTypes
<1>5. Len(Todo') \in Nat
  <2>1. check' \in 2 .. 8
    BY <1>2 DEF HilTypes
  <2>. QED  BY <2>1, TodoIs, HilAssumption DEF Todo, HilAssumption
<1>6. readings' \in Seq(Shown) /\ Len(readings') <= Len(Todo')
  BY <1>2, <1>5
<1>7. CodeOK'
  BY <1>1, <1>2 DEF CodeOK, Pending
<1>. QED  BY <1>2, <1>3, <1>4, <1>6, <1>7 DEF HilTypes

\* What was returned is a level, and says whether the band was flat and so on.
LEMMA ReadingType ==
  ASSUME HilTypes, NEW i \in 1 .. Len(readings)
  PROVE  /\ readings[i] \in Shown /\ readings[i].level \in Nat
         /\ {readings[i].flat, readings[i].linear, readings[i].saturated} \subseteq BOOLEAN
<1>1. readings \in Seq(Shown)
  BY DEF HilTypes
<1>2. readings[i] \in Shown
  BY <1>1
<1>. QED  BY <1>2 DEF Shown

\* A measurement appends what the loop answers to the next one of the plan.
LEMMA MeasureStep ==
  ASSUME HilTypes, Measure, UNCHANGED bench
  PROVE  LET n == Len(readings) + 1
             m == Todo[n]
         IN  /\ check \in 2 .. 7 /\ link = "up" /\ code = Pending
             /\ UNCHANGED <<bench, link, check, gain, results, code>>
             /\ n \in 1 .. Len(Todo) /\ m \in Measurement
             /\ Len(readings') = n
             /\ \A i \in 1 .. n - 1 : readings'[i] = readings[i]
             /\ readings'[n] = Reading(m)
             /\ rig' = IF m.sort = "sinc" /\ rig.first[m.samples] = None
                       THEN [rig EXCEPT !.first[m.samples] = Signal(m)] ELSE rig
             /\ missed' = (missed \/ (check <= 5 /\ Signal(m) = 0))
             /\ HilTypes'
<1>. DEFINE n == Len(readings) + 1
            m == Todo[n]
<1>1. /\ check \in 2 .. 7 /\ link = "up" /\ code = Pending
      /\ UNCHANGED <<bench, link, check, gain, results, code>>
      /\ Len(readings) < Len(Todo) /\ readings' = Append(readings, Reading(m))
      /\ rig' = IF m.sort = "sinc" /\ rig.first[m.samples] = None
                THEN [rig EXCEPT !.first[m.samples] = Signal(m)] ELSE rig
      /\ missed' = (missed \/ (check <= 5 /\ Signal(m) = 0))
  BY DEF Measure, Todo, TodoOf
<1>2. Len(Todo) \in Nat
  BY <1>1, TodoIs, HilAssumption DEF Todo, HilAssumption
<1>3. n \in 1 .. Len(Todo) /\ readings \in Seq(Shown)
  BY <1>1, <1>2 DEF HilTypes
<1>4. m \in Measurement /\ Signal(m) \in Nat /\ Reading(m) \in Shown
  BY <1>3, TodoType, SignalType
<1>5. /\ Len(readings') = n /\ readings' \in Seq(Shown) /\ readings'[n] = Reading(m)
      /\ \A i \in 1 .. n - 1 : readings'[i] = readings[i]
  BY <1>1, <1>3, <1>4
<1>6. rig' \in Rigs
  <2>1. rig \in Rigs /\ m.samples \in {8192, 65536}
    BY <1>4 DEF HilTypes, Measurement
  <2>2. [rig EXCEPT !.first[m.samples] = Signal(m)] \in Rigs
    BY <1>4, <2>1 DEF Rigs
  <2>. QED  BY <1>1, <2>1, <2>2
<1>7. missed' \in BOOLEAN
  BY <1>1 DEF HilTypes
<1>8. Len(readings') <= Len(Todo') /\ Todo' = Todo
  BY <1>1, <1>2, <1>3, <1>5 DEF Todo
<1>9. CodeOK'
  BY <1>1 DEF HilTypes, CodeOK
<1>10. HilTypes'
  BY <1>1, <1>5, <1>6, <1>7, <1>8, <1>9 DEF HilTypes
<1>. QED  BY <1>1, <1>3, <1>4, <1>5, <1>10

\* A verdict is given once all measurements of the check are there, on them.
LEMMA CheckAt ==
  ASSUME HilTypes
  PROVE  /\ At("setup") => check = 1 /\ code = Pending
         /\ Measured("sweep") => check = 2 /\ Len(readings) = Len(Todo)
         /\ Measured("decimation") => check = 3 /\ Len(readings) = Len(Todo)
         /\ Measured("sinc level") => check = 4 /\ Len(readings) = Len(Todo)
         /\ Measured("max depth") => check = 5 /\ Len(readings) = Len(Todo)
         /\ Measured("amplitude linearity") => check = 6 /\ Len(readings) = Len(Todo)
         /\ Measured("repeatability") => check = 7 /\ Len(readings) = Len(Todo)
<1>1. /\ Checks[1] = "setup" /\ Checks[2] = "sweep" /\ Checks[3] = "decimation"
      /\ Checks[4] = "sinc level" /\ Checks[5] = "max depth"
      /\ Checks[6] = "amplitude linearity" /\ Checks[7] = "repeatability"
  BY DEF Checks
<1>2. ASSUME NEW name, At(name)
      PROVE  check \in {1, 2, 3, 4, 5, 6, 7} /\ Checks[check] = name /\ code = Pending
  BY <1>2 DEF At, HilTypes
<1>3. ASSUME NEW name, Measured(name), check # 1
      PROVE  Len(readings) = Len(Todo)
  BY <1>2, <1>3 DEF Measured, Todo, TodoOf
<1>4. At("setup") => check = 1 /\ code = Pending
  BY <1>1, <1>2
<1>5. Measured("sweep") => check = 2 /\ Len(readings) = Len(Todo)
  BY <1>1, <1>2, <1>3 DEF Measured
<1>6. Measured("decimation") => check = 3 /\ Len(readings) = Len(Todo)
  BY <1>1, <1>2, <1>3 DEF Measured
<1>7. Measured("sinc level") => check = 4 /\ Len(readings) = Len(Todo)
  BY <1>1, <1>2, <1>3 DEF Measured
<1>8. Measured("max depth") => check = 5 /\ Len(readings) = Len(Todo)
  BY <1>1, <1>2, <1>3 DEF Measured
<1>9. Measured("amplitude linearity") => check = 6 /\ Len(readings) = Len(Todo)
  BY <1>1, <1>2, <1>3 DEF Measured
<1>10. Measured("repeatability") => check = 7 /\ Len(readings) = Len(Todo)
  BY <1>1, <1>2, <1>3 DEF Measured
<1>. QED  BY <1>4, <1>5, <1>6, <1>7, <1>8, <1>9, <1>10

Verdict ==
  /\ \A i \in 1 .. Len(readings) : ~readings[i].saturated
  /\ check = 2 => /\ readings[1].level >= 40 /\ readings[1].level <= 600
                  /\ readings[1].flat /\ readings[1].linear
  /\ check = 3 => /\ readings[2].level >= 40
                  /\ \A i \in 1 .. 4 : ~Off(readings[i].level, readings[2].level, 5)
  /\ check \in {4, 5} => /\ readings[1].flat /\ gain # None
                         /\ ~Off(readings[1].level, gain * 2, 20)
  /\ check = 6 => ~Off(2 * readings[2].level, readings[1].level, 3)
  /\ check = 7 => \A i \in 3 .. Repeat :
                    ~Off(readings[i].level, readings[2 - (i % 2)].level, 3)

Judge ==
  \/ JudgeSweep \/ JudgeDecimation \/ JudgeLinearity \/ JudgeRepeatability
  \/ JudgeSinc("sinc level") \/ JudgeSinc("max depth")

LEMMA JudgeStep ==
  ASSUME HilTypes, UNCHANGED bench, Judge
  PROVE  /\ UNCHANGED <<bench, rig, link, code, missed>> /\ check \in 2 .. 7
         /\ Len(readings) = Len(Todo) /\ link # "new"
         /\ HilTypes' /\ check' = check + 1 /\ readings' = <<>>
         /\ \A c \in 1 .. 7 : c # check => results'[c] = results[c]
         /\ results'[check] = IF Verdict THEN "pass" ELSE "fail"
         /\ gain' = IF /\ check = 2 /\ readings[1].level >= 40 /\ readings[1].level <= 600
                       /\ \A i \in 1 .. Len(readings) : ~readings[i].saturated
                    THEN readings[1].level \div 2 ELSE gain
<1>1. /\ readings \in Seq(Shown) /\ check \in 1 .. 8 /\ gain \in {None} \cup 20 .. 300
      /\ rig \in Rigs /\ missed \in BOOLEAN
  BY DEF HilTypes
<1>2. Clipped <=> ~\A i \in 1 .. Len(readings) : ~readings[i].saturated
  BY <1>1 DEF Clipped
<1>3. Verdict \in BOOLEAN
  BY DEF Verdict
<1>4. ASSUME check = 2, Len(readings) = 1
      PROVE  readings[1].level \in Nat
  BY <1>4, ReadingType
<1>5. ASSUME UNCHANGED <<rig, link, code, missed>>, check \in 2 .. 7,
             Len(readings) = Len(Todo), Conclude(Verdict),
             gain' = IF /\ check = 2 /\ readings[1].level >= 40 /\ readings[1].level <= 600
                        /\ \A i \in 1 .. Len(readings) : ~readings[i].saturated
                     THEN readings[1].level \div 2 ELSE gain
      PROVE  /\ link # "new"
             /\ HilTypes' /\ check' = check + 1 /\ readings' = <<>>
             /\ \A c \in 1 .. 7 : c # check => results'[c] = results[c]
             /\ results'[check] = IF Verdict THEN "pass" ELSE "fail"
  <2>1. gain' \in {None} \cup 20 .. 300
    <3>1. check = 2 => Len(readings) = 1
      BY <1>1, <1>5, TodoIs DEF Todo
    <3>2. ASSUME NEW l \in Nat, l >= 40, l <= 600
          PROVE  l \div 2 \in 20 .. 300
      BY <3>2
    <3>3. CASE gain' = gain
      BY <1>1, <3>3
    <3>4. CASE gain' # gain
      BY <1>4, <1>5, <3>1, <3>2, <3>4
    <3>. QED  BY <3>3, <3>4
  <2>2. link # "new"
    BY <1>5 DEF HilTypes, CodeOK
  <2>. QED  BY <1>1, <1>3, <1>5, <2>1, <2>2, ConcludedTypes
<1>6. CASE JudgeSweep
  <2>1. check = 2 /\ Len(readings) = Len(Todo)
    BY <1>6, CheckAt DEF JudgeSweep
  <2>2. Verdict <=> /\ ~Clipped /\ readings[1].level >= 20 * Full /\ readings[1].level <= 300 * Full
                  /\ readings[1].flat /\ readings[1].linear
    BY <1>2, <2>1 DEF Verdict, Full
  <2>3. Conclude(Verdict)
    BY <1>6, <2>2 DEF JudgeSweep, Conclude
  <2>. QED  BY <1>2, <1>5, <1>6, <2>1, <2>3 DEF JudgeSweep, Full
<1>7. CASE JudgeDecimation
  <2>1. check = 3 /\ Len(readings) = Len(Todo)
    BY <1>7, CheckAt DEF JudgeDecimation
  <2>2. Verdict <=> /\ ~Clipped /\ readings[2].level >= 20 * Full
                  /\ \A i \in 1 .. 4 : ~Off(readings[i].level, readings[2].level, 5)
    BY <1>2, <2>1 DEF Verdict, Full
  <2>3. Conclude(Verdict)
    BY <1>7, <2>2 DEF JudgeDecimation, Conclude
  <2>4. UNCHANGED <<rig, link, gain, code, missed>>
    BY <1>7 DEF JudgeDecimation
  <2>5. check # 2 /\ check \in 2 .. 7
    BY <2>1
  <2>. QED  BY <1>5, <2>1, <2>3, <2>4, <2>5
<1>8. CASE JudgeSinc("sinc level") \/ JudgeSinc("max depth")
  <2>1. check \in {4, 5} /\ Len(readings) = Len(Todo)
    BY <1>8, CheckAt DEF JudgeSinc
  <2>2. Verdict <=> /\ ~Clipped /\ readings[1].flat /\ gain # None
                  /\ ~Off(readings[1].level, gain * Full, 20)
    BY <1>2, <2>1 DEF Verdict, Full
  <2>3. Conclude(Verdict)
    BY <1>8, <2>2 DEF JudgeSinc, Conclude
  <2>4. UNCHANGED <<rig, link, gain, code, missed>>
    BY <1>8 DEF JudgeSinc
  <2>5. check # 2 /\ check \in 2 .. 7
    BY <2>1
  <2>. QED  BY <1>5, <2>1, <2>3, <2>4, <2>5
<1>9. CASE JudgeLinearity
  <2>1. check = 6 /\ Len(readings) = Len(Todo)
    BY <1>9, CheckAt DEF JudgeLinearity
  <2>2. Verdict <=> ~Clipped /\ ~Off(2 * readings[2].level, readings[1].level, 3)
    BY <1>2, <2>1 DEF Verdict, Full
  <2>3. Conclude(Verdict)
    BY <1>9, <2>2 DEF JudgeLinearity, Conclude
  <2>4. UNCHANGED <<rig, link, gain, code, missed>>
    BY <1>9 DEF JudgeLinearity
  <2>5. check # 2 /\ check \in 2 .. 7
    BY <2>1
  <2>. QED  BY <1>5, <2>1, <2>3, <2>4, <2>5
<1>10. CASE JudgeRepeatability
  <2>1. check = 7 /\ Len(readings) = Len(Todo)
    BY <1>10, CheckAt DEF JudgeRepeatability
  <2>2. Verdict <=> /\ ~Clipped
                  /\ \A i \in 3 .. Repeat :
                       ~Off(readings[i].level, readings[2 - (i % 2)].level, 3)
    BY <1>2, <2>1 DEF Verdict, Full
  <2>3. Conclude(Verdict)
    BY <1>10, <2>2 DEF JudgeRepeatability, Conclude
  <2>4. UNCHANGED <<rig, link, gain, code, missed>>
    BY <1>10 DEF JudgeRepeatability
  <2>5. check # 2 /\ check \in 2 .. 7
    BY <2>1
  <2>. QED  BY <1>5, <2>1, <2>3, <2>4, <2>5
<1>. QED  BY <1>6, <1>7, <1>8, <1>9, <1>10 DEF Judge

\* Flags of the loop that change leave it a loop.
LEMMA RigChanges ==
  ASSUME rig \in Rigs, NEW p \in BOOLEAN, NEW b \in {"absent", "other", "routed"}
  PROVE  /\ [rig EXCEPT !.plugged = p] \in Rigs
         /\ [rig EXCEPT !.initialized = p, !.board = b] \in Rigs
<1>1. \A r \in Rigs : [r EXCEPT !.plugged = p] \in Rigs
  BY DEF Rigs
<1>2. \A r \in Rigs : [r EXCEPT !.initialized = p] \in Rigs
  BY DEF Rigs
<1>3. \A r \in Rigs : [r EXCEPT !.board = b] \in Rigs
  BY DEF Rigs
<1>4. [rig EXCEPT !.initialized = p, !.board = b]
        = [[rig EXCEPT !.initialized = p] EXCEPT !.board = b]
  OBVIOUS
<1>. QED  BY <1>1, <1>2, <1>3, <1>4

\* The other steps of the program and its surroundings.
LEMMA BenchSteps ==
  ASSUME HilTypes, UNCHANGED bench
  PROVE  /\ Raises => /\ HilTypes' /\ check \in 1 .. 7 /\ check' = check + 1
                      /\ UNCHANGED <<rig, link, gain>> /\ missed' /\ readings' = <<>>
                      /\ \A c \in 1 .. 7 : c # check => results'[c] = results[c]
                      /\ results'[check] = "fail"
                      /\ link = "up" => "error" \in Disturbances
         /\ Setup => /\ HilTypes' /\ check = 1 /\ check' = 2 /\ readings' = <<>>
                     /\ UNCHANGED <<link, gain, missed>>
                     /\ rig' = [rig EXCEPT !.initialized = TRUE, !.board =
                           IF rig.board = "other" /\ rig.flaw # "route" THEN "routed" ELSE rig.board]
                     /\ \A c \in 1 .. 7 : c # check => results'[c] = results[c]
                     /\ results'[1] = IF rig'.board # "other" THEN "pass" ELSE "fail"
         /\ Connect \/ Finish \/ Disturb =>
              /\ HilTypes' /\ UNCHANGED <<check, readings, gain, results, missed>>
              /\ \/ rig' = rig
                 \/ \E p \in BOOLEAN : rig' = [rig EXCEPT !.plugged = p]
<1>1. ASSUME Raises
      PROVE  /\ HilTypes' /\ check \in 1 .. 7 /\ check' = check + 1
             /\ UNCHANGED <<rig, link, gain>> /\ missed' /\ readings' = <<>>
             /\ \A c \in 1 .. 7 : c # check => results'[c] = results[c]
             /\ results'[check] = "fail"
             /\ link = "up" => "error" \in Disturbances
  <2>1. /\ UNCHANGED <<rig, link, gain, code>> /\ missed' = TRUE /\ Conclude(FALSE)
        /\ check \in 1 .. 7 /\ link # "new" /\ (link = "up" => "error" \in Disturbances)
    BY <1>1 DEF Raises
  <2>2. rig' \in Rigs /\ gain' \in {None} \cup 20 .. 300
    BY <2>1 DEF HilTypes
  <2>. QED  BY <2>1, <2>2, ConcludedTypes
<1>2. ASSUME Setup
      PROVE  /\ HilTypes' /\ check = 1 /\ check' = 2 /\ readings' = <<>>
             /\ UNCHANGED <<link, gain, missed>>
             /\ rig' = [rig EXCEPT !.initialized = TRUE, !.board =
                   IF rig.board = "other" /\ rig.flaw # "route" THEN "routed" ELSE rig.board]
             /\ \A c \in 1 .. 7 : c # check => results'[c] = results[c]
             /\ results'[1] = IF rig'.board # "other" THEN "pass" ELSE "fail"
  <2>1. /\ check = 1 /\ link = "up" /\ UNCHANGED <<link, gain, code, missed>>
        /\ Conclude(rig'.board # "other")
    BY <1>2, CheckAt DEF Setup
  <2>2. rig' = [rig EXCEPT !.initialized = TRUE, !.board =
                  IF rig.board = "other" /\ rig.flaw # "route" THEN "routed" ELSE rig.board]
    BY <1>2 DEF Setup, HilTypes, Rigs
  <2>3. rig' \in Rigs /\ gain' \in {None} \cup 20 .. 300 /\ missed' \in BOOLEAN
    <3>1. rig \in Rigs /\ gain \in {None} \cup 20 .. 300 /\ missed \in BOOLEAN
      BY DEF HilTypes
    <3>2. rig' \in Rigs
      <4>. DEFINE b == IF rig.board = "other" /\ rig.flaw # "route" THEN "routed" ELSE rig.board
      <4>1. b \in {"absent", "other", "routed"}
        BY <3>1 DEF Rigs
      <4>2. rig' = [rig EXCEPT !.initialized = TRUE, !.board = b]
        BY <2>2
      <4>. HIDE DEF b
      <4>. QED  BY <3>1, <4>1, <4>2, RigChanges
    <3>. QED  BY <2>1, <3>1, <3>2
  <2>4. check \in 1 .. 7 /\ link # "new" /\ (rig'.board # "other") \in BOOLEAN
    BY <2>1
  <2>. DEFINE passed == rig'.board # "other"
  <2>5. passed \in BOOLEAN /\ Conclude(passed)
    BY <2>1
  <2>. HIDE DEF passed
  <2>6. /\ HilTypes' /\ check' = check + 1 /\ readings' = <<>>
        /\ \A c \in 1 .. 7 : c # check => results'[c] = results[c]
        /\ results'[check] = IF passed THEN "pass" ELSE "fail"
    BY <2>1, <2>3, <2>4, <2>5, ConcludedTypes
  <2>. QED  BY <2>1, <2>2, <2>6 DEF passed
<1>3. ASSUME Connect \/ Finish \/ Disturb
      PROVE  /\ HilTypes' /\ UNCHANGED <<check, readings, gain, results, missed>>
             /\ \/ rig' = rig
                \/ \E p \in BOOLEAN : rig' = [rig EXCEPT !.plugged = p]
  <2>1. UNCHANGED <<check, readings, gain, results, missed>>
    BY <1>3 DEF Connect, Finish, Disturb
  <2>2. /\ link' \in {"new", "up", "lost"} /\ code' \in {Pending, 0, 1, 2}
        /\ CodeOK' 
    <3>1. CASE Connect
      BY <2>1, <3>1 DEF Connect, HilTypes, CodeOK, Pending
    <3>2. CASE Finish
      BY <2>1, <3>2 DEF Finish, HilTypes, CodeOK, Pending
    <3>3. CASE Disturb
      BY <2>1, <3>3 DEF Disturb, HilTypes, CodeOK, Pending
    <3>. QED  BY <1>3, <3>1, <3>2, <3>3
  <2>3. \/ rig' = rig
        \/ \E p \in BOOLEAN : rig' = [rig EXCEPT !.plugged = p]
    BY <1>3 DEF Connect, Finish, Disturb
  <2>4. rig' \in Rigs
    BY <2>3 DEF HilTypes, Rigs
  <2>. QED  BY <2>1, <2>2, <2>3, <2>4 DEF HilTypes, Todo
<1>. QED  BY <1>1, <1>2, <1>3

\* A level check without a signal in one of its measurements fails.
LEMMA NothingFails ==
  ASSUME HilTypes, check \in 2 .. 5, Len(readings) = Len(Todo),
         NEW i \in 1 .. Len(readings), readings[i].level = 0
  PROVE  ~Verdict
<1>. SUFFICES ASSUME Verdict PROVE FALSE
  OBVIOUS
<1>1. \A k \in 1 .. Len(readings) : readings[k].level \in Nat
  BY ReadingType
<1>2. check \in {2, 4, 5} => i = 1
  BY TodoIs DEF Todo
<1>3. CASE check = 2
  BY <1>2, <1>3 DEF Verdict
<1>4. CASE check = 3
  <2>0. Len(Todo) = 4
    BY <1>4, TodoIs DEF Todo
  <2>1. Len(readings) = 4 /\ i \in 1 .. 4
    BY <2>0
  <2>2. readings[2].level >= 40 /\ readings[2].level \in Nat
    BY <1>1, <1>4, <2>1 DEF Verdict
  <2>3. ~Off(readings[i].level, readings[2].level, 5)
    BY <1>4, <2>1 DEF Verdict
  <2>. QED  BY <2>2, <2>3 DEF Off, Abs
<1>5. CASE check \in {4, 5}
  <2>1. gain # None /\ gain \in 20 .. 300
    BY <1>5 DEF Verdict, HilTypes
  <2>2. ~Off(0, gain * 2, 20)
    BY <1>2, <1>5 DEF Verdict
  <2>. QED  BY <2>1, <2>2 DEF Off, Abs
<1>. QED  BY <1>3, <1>4, <1>5

LEMMA HilInitInv == HilInit => HilInv
<1>. SUFFICES ASSUME HilInit PROVE HilInv
  OBVIOUS
<1>1. rig \in Rigs /\ rig.first[8192] = None /\ rig.first[65536] = None
  BY HilAssumption DEF HilInit, HilAssumption, Rigs, None
<1>2. Len(readings) = 0 /\ Len(Todo) = 0 /\ readings \in Seq(Shown)
  BY TodoIs DEF HilInit, Todo
<1>3. HilTypes
  <2>1. /\ bench \in Benches /\ link = "new" /\ check = 1 /\ gain = None
        /\ code = Pending /\ missed = FALSE /\ results = [c \in 1 .. 7 |-> "none"]
    BY DEF HilInit
  <2>2. CodeOK
    BY <2>1 DEF CodeOK, Pending
  <2>3. /\ results \in [1 .. 7 -> {"none", "pass", "fail"}]
        /\ \A c \in 1 .. 7 : results[c] = "none" <=> c >= check
    BY <2>1
  <2>4. Len(readings) <= Len(Todo) /\ check \in 1 .. 8
    BY <1>2, <2>1
  <2>5. /\ gain \in {None} \cup 20 .. 300 /\ code \in {Pending, 0, 1, 2}
        /\ link \in {"new", "up", "lost"} /\ missed \in BOOLEAN
    BY <2>1
  <2>. QED  BY <1>1, <1>2, <2>1, <2>2, <2>3, <2>4, <2>5 DEF HilTypes
<1>. QED  BY <1>1, <1>3 DEF HilInit, HilInv, FirstSinc, MissedShows, StaleShows

\* The levels of a measurement, where the loop has stale data and where not.
LEMMA MeasureKeeps ==
  ASSUME HilInv, Measure, UNCHANGED bench
  PROVE  HilInv'
<1>. DEFINE n == Len(readings) + 1
            m == Todo[n]
<1>1. /\ check \in 2 .. 7 /\ link = "up" /\ code = Pending
      /\ UNCHANGED <<bench, link, check, gain, results, code>>
      /\ n \in 1 .. Len(Todo) /\ m \in Measurement
      /\ Len(readings') = n
      /\ \A i \in 1 .. n - 1 : readings'[i] = readings[i]
      /\ readings'[n] = Reading(m)
      /\ rig' = IF m.sort = "sinc" /\ rig.first[m.samples] = None
                THEN [rig EXCEPT !.first[m.samples] = Signal(m)] ELSE rig
      /\ missed' = (missed \/ (check <= 5 /\ Signal(m) = 0))
      /\ HilTypes'
  BY MeasureStep DEF HilInv
<1>2. /\ m.sort = "sinc" <=> check >= 4
      /\ m.samples \in {8192, 65536}
      /\ check \in {4, 6} => m.samples = 8192
      /\ check = 5 => m.samples = 65536
      /\ check \in {4, 5} => n = 1 /\ readings = <<>>
  <2>1. m.sort = "sinc" <=> check >= 4
    BY <1>1, TodoType DEF HilInv
  <2>2. CASE check \in {4, 5}
    <3>1. n = 1 /\ (check = 4 => m = Sinc(8192, 2)) /\ (check = 5 => m = Sinc(65536, 2))
      BY <1>1, <2>2, TodoIs DEF Todo
    <3>2. readings = <<>>
      BY <3>1 DEF HilInv, HilTypes
    <3>. QED  BY <2>1, <2>2, <3>1, <3>2 DEF Sinc
  <2>3. CASE check = 6
    <3>0. Len(Todo) = 2 /\ Todo[1] = Sinc(8192, 2) /\ Todo[2] = Sinc(8192, 1)
      BY <2>3, TodoIs DEF Todo
    <3>1. m = Sinc(8192, 2) \/ m = Sinc(8192, 1)
      <4>1. n \in {1, 2}
        BY <1>1, <3>0
      <4>. QED  BY <3>0, <4>1
    <3>. QED  BY <2>1, <2>3, <3>1 DEF Sinc
  <2>. QED  BY <1>1, <2>1, <2>2, <2>3 DEF Measurement
<1>3. rig \in Rigs /\ Signal(m) \in Nat
  BY <1>1, SignalType DEF HilInv, HilTypes
<1>4. /\ rig'.flaw = rig.flaw
      /\ \A s \in {8192, 65536} : rig.first[s] # None => rig'.first[s] = rig.first[s]
      /\ \A s \in {8192, 65536} : s # m.samples \/ m.sort # "sinc" => rig'.first[s] = rig.first[s]
      /\ m.sort = "sinc" /\ rig.first[m.samples] = None => rig'.first[m.samples] = Signal(m)
  <2>1. CASE ~(m.sort = "sinc" /\ rig.first[m.samples] = None)
    BY <1>1, <2>1
  <2>2. CASE m.sort = "sinc" /\ rig.first[m.samples] = None
    <3>1. rig' = [rig EXCEPT !.first[m.samples] = Signal(m)]
      BY <1>1, <2>2
    <3>. QED  BY <1>2, <1>3, <2>2, <3>1 DEF Rigs
  <2>. QED  BY <1>1, <2>1, <2>2
<1>5. readings'[n].level = IF Stale(m) THEN rig.first[m.samples] ELSE Signal(m)
  BY <1>1 DEF Reading
<1>6. check <= 5 => ~Stale(m)
  BY <1>1, <1>2 DEF HilInv, FirstSinc, Stale
<1>7. readings' # <<>>
  BY <1>1
<1>8. FirstSinc'
  BY <1>1, <1>2, <1>4, <1>7 DEF HilInv, FirstSinc
<1>9. MissedShows'
  <2>1. CASE missed
    <3>1. CASE \E c \in 1 .. 7 : results[c] = "fail"
      BY <1>1, <3>1 DEF MissedShows
    <3>2. ASSUME NEW i \in 1 .. Len(readings), readings[i].level = 0, check \in 2 .. 5
          PROVE  MissedShows'
      <4>1. i \in 1 .. Len(readings') /\ i \in 1 .. n - 1
        BY <1>1
      <4>. QED  BY <1>1, <3>2, <4>1 DEF MissedShows
    <3>. QED  BY <2>1, <3>1, <3>2 DEF HilInv, MissedShows
  <2>2. CASE check <= 5 /\ Signal(m) = 0
    <3>1. n \in 1 .. Len(readings') /\ readings'[n].level = 0 /\ check' \in 2 .. 5
      BY <1>1, <1>5, <1>6, <2>2
    <3>. QED  BY <3>1 DEF MissedShows
  <2>3. CASE ~missed'
    BY <2>3 DEF MissedShows
  <2>. QED  BY <1>1, <2>1, <2>2, <2>3
<1>10. StaleShows'
  <2>. SUFFICES ASSUME rig.flaw = "stale" PROVE StaleShows'
    BY <1>4 DEF StaleShows
  <2>1. check = 4 => readings'[1].level = rig'.first[8192]
    BY <1>1, <1>2, <1>4, <1>5, <1>6 DEF HilInv, FirstSinc
  <2>2. check > 4 /\ results[4] = "pass" => rig'.first[8192] # None
    BY <1>4 DEF HilInv, StaleShows
  <2>3. ASSUME check = 6, results[4] = "pass", NEW i \in 1 .. Len(readings')
        PROVE  readings'[i].level = rig'.first[8192]
    <3>1. rig.first[8192] # None /\ rig'.first[8192] = rig.first[8192]
      BY <1>4, <2>3 DEF HilInv, StaleShows
    <3>2. CASE i = n
      BY <1>2, <1>5, <2>3, <3>1, <3>2 DEF Stale
    <3>3. CASE i \in 1 .. n - 1
      BY <1>1, <2>3, <3>1, <3>3 DEF HilInv, StaleShows
    <3>. QED  BY <1>1, <3>2, <3>3
  <2>4. check > 6 => "fail" \in {results[4], results[6]}
    BY DEF HilInv, StaleShows
  <2>. QED  BY <1>1, <2>1, <2>2, <2>3, <2>4 DEF StaleShows
<1>. QED  BY <1>1, <1>8, <1>9, <1>10 DEF HilInv

LEMMA JudgeKeeps ==
  ASSUME HilInv, Judge, UNCHANGED bench
  PROVE  HilInv'
<1>1. /\ UNCHANGED <<bench, rig, link, code, missed>> /\ check \in 2 .. 7
      /\ Len(readings) = Len(Todo)
      /\ HilTypes' /\ check' = check + 1 /\ readings' = <<>>
      /\ \A c \in 1 .. 7 : c # check => results'[c] = results[c]
      /\ results'[check] = IF Verdict THEN "pass" ELSE "fail"
  BY JudgeStep DEF HilInv
<1>2. results[check] = "none"
  BY <1>1 DEF HilInv, HilTypes
<1>3. FirstSinc'
  BY <1>1 DEF HilInv, FirstSinc
<1>4. MissedShows'
  <2>. SUFFICES ASSUME missed PROVE \E c \in 1 .. 7 : results'[c] = "fail"
    BY <1>1 DEF MissedShows
  <2>1. CASE \E c \in 1 .. 7 : results[c] = "fail"
    BY <1>1, <1>2, <2>1
  <2>2. ASSUME NEW i \in 1 .. Len(readings), readings[i].level = 0, check \in 2 .. 5
        PROVE  results'[check] = "fail"
    BY <1>1, <2>2, NothingFails DEF HilInv
  <2>. QED  BY <1>1, <2>1, <2>2 DEF HilInv, MissedShows
<1>5. StaleShows'
  <2>. SUFFICES ASSUME rig.flaw = "stale" PROVE StaleShows'
    BY <1>1 DEF StaleShows
  <2>1. ASSUME check = 4, Verdict
        PROVE  rig.first[8192] # None
    <3>1. Len(readings) = 1 /\ readings # <<>>
      BY <1>1, <2>1, TodoIs DEF Todo
    <3>2. readings[1].level # 0
      BY <1>1, <2>1, <3>1, NothingFails DEF HilInv
    <3>. QED  BY <2>1, <3>1, <3>2 DEF HilInv, StaleShows, None
  <2>2. check' > 4 /\ results'[4] = "pass" => rig'.first[8192] # None
    BY <1>1, <2>1 DEF HilInv, StaleShows
  <2>3. ASSUME check = 6, results[4] = "pass"
        PROVE  ~Verdict
    <3>1. Len(readings) = 2
      BY <1>1, <2>3, TodoIs DEF Todo
    <3>2. /\ readings[1].level = rig.first[8192] /\ readings[2].level = rig.first[8192]
          /\ rig.first[8192] # 0
      BY <2>3, <3>1 DEF HilInv, StaleShows, None
    <3>3. rig.first[8192] \in Nat
      BY DEF HilInv, HilTypes, Rigs
    <3>4. Off(2 * rig.first[8192], rig.first[8192], 3)
      BY <3>2, <3>3 DEF Off, Abs
    <3>. QED  BY <2>3, <3>2, <3>4 DEF Verdict
  <2>4. check = 6 => results[4] \in {"pass", "fail"}
    BY DEF HilInv, HilTypes
  <2>5. check' > 6 => "fail" \in {results'[4], results'[6]}
    <3>1. CASE check = 6
      BY <1>1, <2>3, <2>4, <3>1
    <3>2. CASE check > 6
      BY <1>1, <3>2 DEF HilInv, StaleShows
    <3>. QED  BY <1>1, <3>1, <3>2
  <2>. QED  BY <1>1, <2>2, <2>5 DEF StaleShows
<1>. QED  BY <1>1, <1>3, <1>4, <1>5 DEF HilInv

LEMMA OthersKeep ==
  ASSUME HilInv, Raises \/ Setup \/ Connect \/ Finish \/ Disturb, UNCHANGED bench
  PROVE  HilInv'
<1>1. HilTypes /\ FirstSinc /\ MissedShows /\ StaleShows /\ rig \in Rigs
  BY DEF HilInv, HilTypes
<1>2. \A c \in 1 .. 7 : results[c] = "none" <=> c >= check
  BY DEF HilInv, HilTypes
<1>3. CASE Raises
  <2>1. /\ HilTypes' /\ check \in 1 .. 7 /\ check' = check + 1
        /\ UNCHANGED <<rig, link, gain>> /\ readings' = <<>>
        /\ \A c \in 1 .. 7 : c # check => results'[c] = results[c]
        /\ results'[check] = "fail"
    BY <1>1, <1>3, BenchSteps
  <2>2. FirstSinc'
    BY <1>1, <2>1 DEF FirstSinc
  <2>3. MissedShows'
    BY <2>1 DEF MissedShows
  <2>4. StaleShows'
    BY <1>1, <2>1 DEF StaleShows
  <2>. QED  BY <2>1, <2>2, <2>3, <2>4 DEF HilInv
<1>4. CASE Setup
  <2>1. /\ HilTypes' /\ check = 1 /\ check' = 2 /\ readings' = <<>>
        /\ UNCHANGED missed
        /\ rig' = [rig EXCEPT !.initialized = TRUE, !.board =
              IF rig.board = "other" /\ rig.flaw # "route" THEN "routed" ELSE rig.board]
    BY <1>1, <1>4, BenchSteps
  <2>2. rig'.flaw = rig.flaw /\ rig'.first = rig.first
    BY <1>1, <2>1 DEF Rigs
  <2>3. FirstSinc'
    BY <1>1, <2>1, <2>2 DEF FirstSinc
  <2>4. ~missed'
    BY <1>1, <1>2, <2>1 DEF MissedShows
  <2>5. StaleShows' /\ MissedShows'
    BY <2>1, <2>4 DEF StaleShows, MissedShows
  <2>. QED  BY <2>1, <2>3, <2>5 DEF HilInv
<1>5. CASE Connect \/ Finish \/ Disturb
  <2>1. /\ HilTypes' /\ UNCHANGED <<check, readings, gain, results, missed>>
        /\ \/ rig' = rig
           \/ \E p \in BOOLEAN : rig' = [rig EXCEPT !.plugged = p]
    BY <1>1, <1>5, BenchSteps
  <2>2. rig'.flaw = rig.flaw /\ rig'.first = rig.first
    BY <1>1, <2>1 DEF Rigs
  <2>3. FirstSinc' /\ MissedShows' /\ StaleShows'
    BY <1>1, <2>1, <2>2 DEF FirstSinc, MissedShows, StaleShows
  <2>. QED  BY <2>1, <2>3 DEF HilInv
<1>. QED  BY <1>3, <1>4, <1>5

LEMMA HilStep == HilInv /\ [HilNext]_<<bench, hilVars>> => HilInv'
<1>. SUFFICES ASSUME HilInv, [HilNext]_<<bench, hilVars>> PROVE HilInv'
  OBVIOUS
<1>1. CASE UNCHANGED <<bench, hilVars>>
  BY <1>1 DEF hilVars, HilInv, HilTypes, CodeOK, Todo, FirstSinc, MissedShows, StaleShows
<1>2. CASE HilNext
  BY <1>2, MeasureKeeps, JudgeKeeps, OthersKeep DEF HilNext, Run, Judge
<1>. QED  BY <1>1, <1>2

\* Whatever happens to the loop and the link while it is checked: exit code 0
\* means that no call failed and no level check was without a signal, and never
\* comes of a loop with stale data; exit code 2 means that there was no
\* connection (main, run of afm_hil_check.py).
THEOREM FaultsAlwaysSeen == HilSpec => []FaultsAreSeen
<1>1. HilInv => FaultsAreSeen
  <2>. SUFFICES ASSUME HilInv PROVE FaultsAreSeen
    OBVIOUS
  <2>1. HilTypeOK
    <3>1. Len(readings) <= Repeat
      <4>1. Len(Todo) <= Repeat /\ Len(readings) <= Len(Todo)
        <5>1. check \in 1 .. 8 /\ Len(readings) <= Len(Todo)
          BY DEF HilInv, HilTypes
        <5>2. Len(Todo) \in {0, 1, 2, 4, Repeat}
          <6>1. CASE check \in {1, 2, 8}
            BY <6>1, TodoIs DEF Todo
          <6>2. CASE check \in {3, 4}
            BY <6>2, TodoIs DEF Todo
          <6>3. CASE check \in {5, 6, 7}
            BY <6>3, TodoIs DEF Todo
          <6>. QED  BY <5>1, <6>1, <6>2, <6>3
        <5>3. Repeat \in Nat /\ Repeat >= 4
          BY HilAssumption DEF HilAssumption
        <5>4. \A k \in {0, 1, 2, 4, Repeat} : k <= Repeat
          BY <5>3
        <5>. QED  BY <5>1, <5>2, <5>4
      <4>2. readings \in Seq(Shown) /\ Len(Todo) \in Nat
        BY TodoIs, HilAssumption DEF HilInv, HilTypes, Todo, HilAssumption
      <4>. QED  BY <4>1, <4>2, HilAssumption DEF HilAssumption
    <3>. QED  BY <3>1 DEF HilInv, HilTypes, HilTypeOK, Rigs
  <2>2. code = 0 => ~missed
    BY DEF HilInv, HilTypes, CodeOK, MissedShows, Pending
  <2>3. code = 2 <=> code # Pending /\ link = "new"
    BY DEF HilInv, HilTypes, CodeOK, Pending
  <2>4. code = 0 => rig.flaw # "stale"
    BY DEF HilInv, HilTypes, CodeOK, StaleShows
  <2>. QED  BY <2>1, <2>2, <2>3, <2>4 DEF FaultsAreSeen, DisturbancesAreSeen, StaleIsCaught
<1>. QED  BY <1>1, HilInitInv, HilStep, PTL DEF HilSpec

\* What a loop left alone answers.
FullLevel ==
  CASE rig.flaw = "route" -> 0
    [] rig.flaw = "weak" -> 2
    [] rig.flaw = "loud" -> 800
    [] OTHER -> 2 * Gain

HalfLevel ==
  CASE rig.flaw = "route" -> 0
    [] rig.flaw = "weak" -> 1
    [] rig.flaw = "loud" -> 400
    [] rig.flaw = "stale" -> 2 * Gain
    [] OTHER -> Gain

LEMMA LevelsAre ==
  /\ \A d \in {16, 64, 256} : LevelOf(Sweep(d)) = FullLevel
  /\ LevelOf(Sweep(1024)) = IF rig.flaw = "decimation" THEN (8 * Gain) \div 5 ELSE FullLevel
  /\ \A s \in {8192, 65536} : LevelOf(Sinc(s, 2)) = FullLevel /\ LevelOf(Sinc(s, 1)) = HalfLevel
  /\ FullLevel \in Nat
<1>0. Gain \in 20 .. 300
  BY HilAssumption DEF HilAssumption
<1>1. ASSUME NEW d \in {16, 64, 256, 1024}
      PROVE  Sweep(d).amplitude = 2 /\ Sweep(d).decimation = d
  BY DEF Sweep, Full
<1>2. ASSUME NEW s \in {8192, 65536}, NEW a \in {1, 2}
      PROVE  Sinc(s, a).amplitude = a /\ Sinc(s, a).decimation = 64
  BY DEF Sinc
<1>3. ASSUME NEW m, m.amplitude = 2, m.decimation # 1024 \/ rig.flaw # "decimation"
      PROVE  LevelOf(m) = FullLevel
  BY <1>0, <1>3 DEF LevelOf, FullLevel
<1>4. ASSUME NEW m, m.amplitude = 1, m.decimation # 1024
      PROVE  LevelOf(m) = HalfLevel
  BY <1>0, <1>4 DEF LevelOf, HalfLevel
<1>5. ASSUME NEW m, m.amplitude = 2, m.decimation = 1024, rig.flaw = "decimation"
      PROVE  LevelOf(m) = (8 * Gain) \div 5
  <2>1. LevelOf(m) = (4 * Gain * 2) \div 5
    BY <1>5 DEF LevelOf
  <2>2. 4 * Gain * 2 = 8 * Gain
    BY <1>0
  <2>. QED  BY <2>1, <2>2
<1>6. FullLevel \in Nat
  BY <1>0 DEF FullLevel
<1>7. \A d \in {16, 64, 256} : LevelOf(Sweep(d)) = FullLevel
  BY <1>1, <1>3
<1>8. LevelOf(Sweep(1024)) = IF rig.flaw = "decimation" THEN (8 * Gain) \div 5 ELSE FullLevel
  BY <1>1, <1>3, <1>5
<1>9. \A s \in {8192, 65536} : LevelOf(Sinc(s, 2)) = FullLevel /\ LevelOf(Sinc(s, 1)) = HalfLevel
  BY <1>2, <1>3, <1>4
<1>. QED  BY <1>6, <1>7, <1>8, <1>9

\* It shows its flaw in each measurement, and no other.
LEMMA SteadyReading ==
  ASSUME HilInv, Steady, Disturbances = {}, check \in 2 .. 7,
         NEW n \in 1 .. Len(Todo)
  PROVE  LET m == Todo[n]
         IN  /\ Reading(m) = [level |-> LevelOf(m),
                              flat |-> rig.flaw # "uneven",
                              linear |-> rig.flaw # "phase",
                              saturated |-> rig.flaw = "saturated"]
             /\ rig.flaw = "stale" /\ m.sort = "sinc" /\ rig.first[m.samples] = None
                  => Signal(m) = 2 * Gain
<1>. DEFINE m == Todo[n]
<1>0. Gain \in 20 .. 300 /\ rig \in Rigs
  BY HilAssumption DEF HilAssumption, HilInv, HilTypes
<1>1. m \in Measurement /\ (m.sort = "sinc" <=> check >= 4) /\ (check <= 5 => m.amplitude = 2)
  BY TodoType DEF HilInv
<1>2. m.amplitude \in {1, 2} /\ m.samples \in {8192, 65536}
  BY <1>1 DEF Measurement
<1>3. check = 7 => m.amplitude = 2
  <2>. SUFFICES ASSUME check = 7 PROVE m.amplitude = 2
    OBVIOUS
  <2>1. n \in 1 .. Repeat
    BY TodoIs DEF Todo
  <2>2. m = Sinc(Sizes[2 - (n % 2)], 2)
    BY <2>1, TodoIs DEF Todo
  <2>. QED  BY <2>2 DEF Sinc
<1>4. check = 6 => m.samples = 8192
  <2>. SUFFICES ASSUME check = 6 PROVE m.samples = 8192
    OBVIOUS
  <2>0. Len(Todo) = 2 /\ Todo[1] = Sinc(8192, 2) /\ Todo[2] = Sinc(8192, 1)
    BY TodoIs DEF Todo
  <2>1. n \in {1, 2} /\ (m = Sinc(8192, 2) \/ m = Sinc(8192, 1))
    BY <2>0
  <2>. QED  BY <2>1 DEF Sinc
<1>5. /\ rig.plugged /\ rig.flaw = "route" => rig.board = "other"
      /\ rig.plugged /\ rig.board = "other" => rig.flaw = "route"
      /\ rig.plugged
  BY DEF Steady, LeftAlone
<1>6. rig.flaw = "stale" =>
        /\ \A s \in {8192, 65536} : rig.first[s] \in {None, 2 * Gain}
        /\ check > 4 => rig.first[8192] = 2 * Gain
  BY DEF Steady, SteadyFirst
<1>7. Signal(m) = IF rig.flaw = "stale" THEN Gain * m.amplitude ELSE LevelOf(m)
  BY <1>5 DEF Signal, LevelOf
<1>8. rig.flaw = "stale" /\ ~Stale(m) => Signal(m) = 2 * Gain
  <2>. SUFFICES ASSUME rig.flaw = "stale", ~Stale(m) PROVE m.amplitude = 2
    BY <1>0, <1>7
  <2>1. CASE check = 6
    BY <1>0, <1>1, <1>4, <1>6, <2>1 DEF Stale, None
  <2>. QED  BY <1>1, <1>3, <2>1
<1>9. Reading(m).level = LevelOf(m)
  <2>1. CASE rig.flaw = "stale"
    BY <1>2, <1>6, <1>8, <2>1 DEF Reading, LevelOf, Stale
  <2>2. CASE rig.flaw # "stale"
    BY <1>7, <2>2 DEF Reading, Stale
  <2>. QED  BY <2>1, <2>2
<1>10. rig.flaw \in {"uneven", "phase"} => Signal(m) # 0
  <2>. SUFFICES ASSUME rig.flaw \in {"uneven", "phase"} PROVE Signal(m) # 0
    OBVIOUS
  <2>1. Signal(m) = Gain * m.amplitude
    BY <1>5 DEF Signal
  <2>. QED  BY <1>0, <1>2, <2>1
<1>11. Reading(m) = [level |-> LevelOf(m), flat |-> rig.flaw # "uneven",
                     linear |-> rig.flaw # "phase", saturated |-> rig.flaw = "saturated"]
  BY <1>9, <1>10 DEF Reading
<1>. QED  BY <1>2, <1>8, <1>11 DEF Stale

\* Only these are beyond the limits of a gain.
LEMMA LevelsSound ==
  /\ FullLevel >= 40 <=> rig.flaw \notin {"route", "weak"}
  /\ FullLevel <= 600 <=> rig.flaw # "loud"
  /\ rig.flaw \notin {"route", "weak", "loud"} => FullLevel \div 2 = Gain
<1>0. Gain \in 20 .. 300
  BY HilAssumption DEF HilAssumption
<1>1. CASE rig.flaw = "route"
  BY <1>1 DEF FullLevel
<1>2. CASE rig.flaw = "weak"
  BY <1>2 DEF FullLevel
<1>3. CASE rig.flaw = "loud"
  BY <1>3 DEF FullLevel
<1>4. CASE rig.flaw \notin {"route", "weak", "loud"}
  <2>1. FullLevel = 2 * Gain
    BY <1>4 DEF FullLevel
  <2>. QED  BY <1>0, <1>4, <2>1
<1>. QED  BY <1>1, <1>2, <1>3, <1>4

\* Its checks fail where they should.
LEMMA SteadyVerdict ==
  ASSUME HilInv, Steady, Disturbances = {}, check \in 2 .. 7,
         Len(readings) = Len(Todo)
  PROVE  Verdict <=> check \notin FailsAt
<1>. DEFINE flaw == rig.flaw
<1>0. Gain \in 20 .. 300 /\ flaw \in AllFlaws /\ Repeat \in Nat /\ Repeat >= 4
  BY HilAssumption DEF HilAssumption, HilInv, HilTypes, Rigs
<1>1. ASSUME NEW i \in 1 .. Len(readings)
      PROVE  /\ readings[i].level = LevelOf(Todo[i])
             /\ readings[i].flat <=> flaw # "uneven"
             /\ readings[i].linear <=> flaw # "phase"
             /\ readings[i].saturated <=> flaw = "saturated"
  <2>1. readings[i] = [level |-> LevelOf(Todo[i]),
                       flat |-> rig.flaw # "uneven",
                       linear |-> rig.flaw # "phase",
                       saturated |-> rig.flaw = "saturated"]
    BY DEF Steady, SteadyReadings
  <2>2. readings[i].level = LevelOf(Todo[i])
    BY <2>1
  <2>3. readings[i].flat = (rig.flaw # "uneven")
    BY <2>1
  <2>4. readings[i].linear = (rig.flaw # "phase")
    BY <2>1
  <2>5. readings[i].saturated = (rig.flaw = "saturated")
    BY <2>1
  <2>. QED  BY <2>2, <2>3, <2>4, <2>5
<1>2. 1 \in 1 .. Len(readings)
  <2>1. Len(Todo) \in {1, 2, 4, Repeat}
    <3>1. check = 2 => Len(Todo) = 1
      BY TodoIs DEF Todo
    <3>5. check = 4 => Len(Todo) = 1
      BY TodoIs DEF Todo
    <3>6. check = 5 => Len(Todo) = 1
      BY TodoIs DEF Todo
    <3>2. check = 3 => Len(Todo) = 4
      BY TodoIs DEF Todo
    <3>3. check = 6 => Len(Todo) = 2
      BY TodoIs DEF Todo
    <3>4. check = 7 => Len(Todo) = Repeat
      BY TodoIs DEF Todo
    <3>. QED  BY <3>1, <3>2, <3>3, <3>4, <3>5, <3>6
  <2>. QED  BY <1>0, <2>1
<1>3. \A x \in Nat : \A p \in {3, 5, 20} : ~Off(x, x, p)
  BY DEF Off, Abs
<1>11. /\ FullLevel >= 40 <=> flaw \notin {"route", "weak"}
       /\ FullLevel <= 600 <=> flaw # "loud"
  BY LevelsSound
<1>12. SteadyGain
  BY DEF Steady
<1>4. ASSUME flaw = "saturated"
      PROVE  ~Verdict /\ check \in FailsAt
  BY <1>1, <1>2, <1>4 DEF Verdict, FailsAt
<1>5. ASSUME flaw # "saturated", NEW P,
             Verdict <=> (P /\ \A i \in 1 .. Len(readings) : ~readings[i].saturated)
      PROVE  Verdict <=> P
  BY <1>1, <1>5
<1>6. CASE flaw # "saturated" /\ check = 2
  <2>1. Len(readings) = 1 /\ Todo[1] = Sweep(64)
    BY <1>6, TodoIs DEF Todo
  <2>2. readings[1].level = FullLevel
    BY <1>1, <2>1, LevelsAre
  <2>3. Verdict <=> /\ FullLevel >= 40 /\ FullLevel <= 600
                    /\ flaw # "uneven" /\ flaw # "phase"
    BY <1>1, <1>2, <1>6, <2>2 DEF Verdict
  <2>4. FullLevel >= 40 /\ FullLevel <= 600 <=> flaw \notin {"route", "weak", "loud"}
    BY <1>11
  <2>5. 2 \in FailsAt <=> flaw \in {"phase", "uneven", "loud", "weak", "route"}
    BY <1>0, <1>6 DEF FailsAt, AllFlaws
  <2>. QED  BY <1>6, <2>3, <2>4, <2>5
<1>7. CASE flaw # "saturated" /\ check = 3
  <2>1. Len(readings) = 4 /\ \A i \in 1 .. 4 : Todo[i] = Sweep(Decimations[i])
    BY <1>7, TodoIs DEF Todo
  <2>2. /\ Decimations[1] = 16 /\ Decimations[2] = 64
        /\ Decimations[3] = 256 /\ Decimations[4] = 1024
    BY DEF Decimations
  <2>3. /\ \A i \in {1, 2, 3} : readings[i].level = FullLevel
        /\ readings[4].level = IF flaw = "decimation" THEN (8 * Gain) \div 5 ELSE FullLevel
    <3>1. \A i \in 1 .. 4 : readings[i].level = LevelOf(Sweep(Decimations[i]))
      BY <1>1, <2>1
    <3>2. /\ LevelOf(Sweep(16)) = FullLevel /\ LevelOf(Sweep(64)) = FullLevel
          /\ LevelOf(Sweep(256)) = FullLevel
          /\ LevelOf(Sweep(1024)) = IF flaw = "decimation" THEN (8 * Gain) \div 5 ELSE FullLevel
      BY LevelsAre
    <3>3. /\ readings[1].level = LevelOf(Sweep(16)) /\ readings[2].level = LevelOf(Sweep(64))
          /\ readings[3].level = LevelOf(Sweep(256)) /\ readings[4].level = LevelOf(Sweep(1024))
      BY <2>2, <3>1
    <3>. QED  BY <3>2, <3>3
  <2>4. Verdict <=> /\ FullLevel >= 40
                    /\ \A i \in 1 .. 4 : ~Off(readings[i].level, FullLevel, 5)
    BY <1>1, <1>2, <1>7, <2>3 DEF Verdict
  <2>5. (\A i \in 1 .. 4 : ~Off(readings[i].level, FullLevel, 5))
           <=> ~Off(readings[4].level, FullLevel, 5)
    <3>1. ~Off(FullLevel, FullLevel, 5)
      BY <1>3, LevelsAre
    <3>2. \A i \in 1 .. 4 : i \in {1, 2, 3} \/ i = 4
      OBVIOUS
    <3>. QED  BY <2>3, <3>1, <3>2
  <2>6. CASE flaw = "decimation"
    <3>1. FullLevel = 2 * Gain /\ readings[4].level = (8 * Gain) \div 5
      BY <2>3, <2>6 DEF FullLevel
    <3>2. Off((8 * Gain) \div 5, 2 * Gain, 5)
      BY <1>0 DEF Off, Abs
    <3>3. 3 \in FailsAt
      BY <2>6 DEF FailsAt
    <3>. QED  BY <1>7, <2>4, <2>5, <3>1, <3>2, <3>3
  <2>7. CASE flaw # "decimation"
    <3>1. ~Off(readings[4].level, FullLevel, 5)
      BY <1>3, <2>3, <2>7, LevelsAre
    <3>2. FullLevel >= 40 <=> flaw \notin {"route", "weak"}
      BY <1>11
    <3>3. 3 \in FailsAt <=> flaw \in {"route", "weak"}
      BY <1>0, <1>7, <2>7 DEF FailsAt, AllFlaws
    <3>. QED  BY <1>7, <2>4, <2>5, <3>1, <3>2, <3>3
  <2>. QED  BY <2>6, <2>7
<1>8. CASE flaw # "saturated" /\ check \in {4, 5}
  <2>1. Len(readings) = 1 /\ (Todo[1] = Sinc(8192, 2) \/ Todo[1] = Sinc(65536, 2))
    <3>1. check = 4 => Len(Todo) = 1 /\ Todo[1] = Sinc(8192, 2)
      BY TodoIs DEF Todo
    <3>2. check = 5 => Len(Todo) = 1 /\ Todo[1] = Sinc(65536, 2)
      BY TodoIs DEF Todo
    <3>. QED  BY <1>8, <3>1, <3>2
  <2>2. readings[1].level = FullLevel
    BY <1>1, <2>1, LevelsAre
  <2>3. Verdict <=> flaw # "uneven" /\ gain # None /\ ~Off(FullLevel, gain * 2, 20)
    BY <1>1, <1>2, <1>8, <2>2 DEF Verdict
  <2>4. gain = IF flaw \in {"weak", "loud", "route"} THEN None ELSE Gain
    BY <1>8, <1>12 DEF SteadyGain
  <2>5. check \in FailsAt <=> flaw \in {"uneven", "loud", "weak", "route"}
    BY <1>0, <1>8 DEF FailsAt, AllFlaws
  <2>6. ASSUME flaw \notin {"weak", "loud", "route"}
        PROVE  gain # None /\ ~Off(FullLevel, gain * 2, 20)
    <3>0. gain = Gain /\ FullLevel \in Nat
      BY <2>4, <2>6, LevelsAre
    <3>2. FullLevel = 2 * Gain
      BY <2>6 DEF FullLevel
    <3>1. gain = Gain /\ FullLevel = gain * 2 /\ FullLevel \in Nat
      BY <1>0, <3>0, <3>2
    <3>. QED  BY <1>0, <1>3, <3>1 DEF None
  <2>7. flaw \in {"weak", "loud", "route"} => gain = None
    BY <2>4
  <2>. QED  BY <2>3, <2>5, <2>6, <2>7
<1>9. CASE flaw # "saturated" /\ check = 6
  <2>1. Len(readings) = 2 /\ Todo[1] = Sinc(8192, 2) /\ Todo[2] = Sinc(8192, 1)
    BY <1>9, TodoIs DEF Todo
  <2>2. readings[1].level = FullLevel /\ readings[2].level = HalfLevel
    BY <1>1, <2>1, LevelsAre
  <2>3. Verdict <=> ~Off(2 * HalfLevel, FullLevel, 3)
    BY <1>1, <1>2, <1>9, <2>2 DEF Verdict
  <2>4. CASE flaw = "stale"
    <3>1. HalfLevel = 2 * Gain /\ FullLevel = 2 * Gain /\ 6 \in FailsAt
      BY <2>4 DEF HalfLevel, FullLevel, FailsAt
    <3>2. Off(2 * (2 * Gain), 2 * Gain, 3)
      BY <1>0 DEF Off, Abs
    <3>. QED  BY <1>9, <2>3, <3>1, <3>2
  <2>5. CASE flaw # "stale"
    <3>1. 2 * HalfLevel = FullLevel
      BY <1>0, <2>5 DEF HalfLevel, FullLevel
    <3>2. ~Off(2 * HalfLevel, FullLevel, 3)
      BY <1>3, <3>1, LevelsAre
    <3>3. 6 \notin FailsAt
      BY <1>0, <1>9, <2>5 DEF FailsAt, AllFlaws
    <3>. QED  BY <1>9, <2>3, <3>2, <3>3
  <2>. QED  BY <2>4, <2>5
<1>10. CASE flaw # "saturated" /\ check = 7
  <2>1. Len(readings) = Repeat /\ \A i \in 1 .. Repeat : Todo[i] = Sinc(Sizes[2 - (i % 2)], 2)
    BY <1>10, TodoIs DEF Todo
  <2>2. \A i \in 1 .. Repeat : readings[i].level = FullLevel
    <3>. SUFFICES ASSUME NEW i \in 1 .. Repeat PROVE readings[i].level = FullLevel
      OBVIOUS
    <3>1. i % 2 \in {0, 1}
      BY <1>0
    <3>2. Sizes[2 - (i % 2)] \in {8192, 65536}
      BY <3>1 DEF Sizes
    <3>3. LevelOf(Todo[i]) = FullLevel
      BY <2>1, <3>2, LevelsAre
    <3>. QED  BY <1>1, <2>1, <3>3
  <2>3. \A i \in 3 .. Repeat : i \in 1 .. Repeat /\ 2 - (i % 2) \in 1 .. Repeat
    BY <1>0
  <2>4. \A i \in 3 .. Repeat : ~Off(readings[i].level, readings[2 - (i % 2)].level, 3)
    BY <1>3, <2>2, <2>3, LevelsAre
  <2>5. Verdict
    BY <1>1, <1>10, <2>4 DEF Verdict
  <2>6. 7 \notin FailsAt
    BY <1>0, <1>10 DEF FailsAt, AllFlaws
  <2>. QED  BY <1>10, <2>5, <2>6
<1>. QED  BY <1>4, <1>6, <1>7, <1>8, <1>9, <1>10


LEMMA SteadyInit == HilInit => Steady
<1>. SUFFICES ASSUME HilInit, Disturbances = {} PROVE Steady
  BY DEF Steady
<1>1. LeftAlone
  BY DEF HilInit, LeftAlone
<1>2. SteadyReadings /\ SteadyGain /\ SteadyResults
  BY DEF HilInit, SteadyReadings, SteadyGain, SteadyResults
<1>3. rig.first = [s \in {8192, 65536} |-> None]
  BY DEF HilInit
<1>4. SteadyFirst
  BY <1>3 DEF HilInit, SteadyFirst
<1>. QED  BY <1>1, <1>2, <1>4 DEF Steady

LEMMA SteadyMeasure ==
  ASSUME HilInv, Steady, Measure, UNCHANGED bench
  PROVE  Steady'
<1>. DEFINE n == Len(readings) + 1
            m == Todo[n]
<1>. SUFFICES ASSUME Disturbances = {} PROVE Steady'
  BY DEF Steady, Disturbances
<1>0. LeftAlone /\ SteadyReadings /\ SteadyFirst /\ SteadyGain /\ SteadyResults
  BY DEF Steady
<1>1. /\ check \in 2 .. 7 /\ UNCHANGED <<bench, link, check, gain, results, code>>
      /\ n \in 1 .. Len(Todo) /\ m \in Measurement
      /\ Len(readings') = n
      /\ \A i \in 1 .. n - 1 : readings'[i] = readings[i]
      /\ readings'[n] = Reading(m)
      /\ rig' = IF m.sort = "sinc" /\ rig.first[m.samples] = None
                THEN [rig EXCEPT !.first[m.samples] = Signal(m)] ELSE rig
  BY MeasureStep DEF HilInv
<1>2. rig \in Rigs /\ m.samples \in {8192, 65536}
  BY <1>1 DEF HilInv, HilTypes, Measurement
<1>3. rig'.flaw = rig.flaw /\ rig'.board = rig.board /\ rig'.plugged = rig.plugged
  BY <1>1, <1>2 DEF Rigs
<1>4. /\ Reading(m) = [level |-> LevelOf(m),
                       flat |-> rig.flaw # "uneven",
                       linear |-> rig.flaw # "phase",
                       saturated |-> rig.flaw = "saturated"]
      /\ rig.flaw = "stale" /\ m.sort = "sinc" /\ rig.first[m.samples] = None
           => Signal(m) = 2 * Gain
  BY <1>1, SteadyReading
<1>5. LeftAlone'
  BY <1>0, <1>1, <1>3 DEF LeftAlone
<1>6. SteadyReadings'
  <2>1. Todo' = Todo
    BY <1>1 DEF Todo
  <2>. SUFFICES ASSUME NEW i \in 1 .. Len(readings')
       PROVE (readings[i] = [level |-> LevelOf(Todo[i]), flat |-> rig.flaw # "uneven",
                             linear |-> rig.flaw # "phase", saturated |-> rig.flaw = "saturated"])'
    BY DEF SteadyReadings
  <2>2. readings'[i] = [level |-> LevelOf(Todo[i]), flat |-> rig.flaw # "uneven",
                        linear |-> rig.flaw # "phase", saturated |-> rig.flaw = "saturated"]
    <3>1. CASE i = n
      BY <1>1, <1>4, <3>1
    <3>2. CASE i # n
      <4>1. i \in 1 .. Len(readings) /\ readings'[i] = readings[i]
        BY <1>1, <3>2
      <4>. QED  BY <1>0, <4>1 DEF SteadyReadings
    <3>. QED  BY <3>1, <3>2
  <2>3. LevelOf(Todo[i])' = LevelOf(Todo[i])
    BY <1>3, <2>1 DEF LevelOf
  <2>. QED  BY <1>3, <2>2, <2>3
<1>7. SteadyFirst'
  <2>. SUFFICES ASSUME rig.flaw = "stale" PROVE SteadyFirst'
    BY <1>3 DEF SteadyFirst
  <2>1. \A s \in {8192, 65536} :
          rig'.first[s] = IF m.sort = "sinc" /\ rig.first[s] = None /\ s = m.samples
                          THEN Signal(m) ELSE rig.first[s]
    BY <1>1, <1>2 DEF Rigs
  <2>2. \A s \in {8192, 65536} : rig'.first[s] \in {None, 2 * Gain}
    BY <1>0, <1>2, <1>4, <2>1 DEF SteadyFirst
  <2>3. check > 4 => rig'.first[8192] = 2 * Gain
    <3>. SUFFICES ASSUME check > 4 PROVE rig'.first[8192] = 2 * Gain
      OBVIOUS
    <3>1. rig.first[8192] = 2 * Gain /\ 2 * Gain # None
      BY <1>0, HilAssumption DEF SteadyFirst, HilAssumption, None
    <3>. QED  BY <2>1, <3>1
  <2>4. check = 4 => rig'.first[8192] = 2 * Gain
    <3>. SUFFICES ASSUME check = 4 PROVE rig'.first[8192] = 2 * Gain
      OBVIOUS
    <3>1. Len(Todo) = 1 /\ Todo[1] = Sinc(8192, 2)
      BY TodoIs DEF Todo
    <3>2. m = Sinc(8192, 2)
      BY <1>1, <3>1
    <3>3. m.sort = "sinc" /\ m.samples = 8192
      BY <3>2 DEF Sinc
    <3>4. rig.first[8192] \in {None, 2 * Gain}
      BY <1>0 DEF SteadyFirst
    <3>. QED  BY <1>4, <2>1, <3>3, <3>4
  <2>. QED  BY <1>1, <2>2, <2>3, <2>4 DEF SteadyFirst
<1>8. SteadyGain'
  BY <1>0, <1>1, <1>3 DEF SteadyGain
<1>9. SteadyResults'
  <2>1. FailsAt' = FailsAt
    BY <1>3 DEF FailsAt
  <2>. QED  BY <1>0, <1>1, <2>1 DEF SteadyResults
<1>. QED  BY <1>5, <1>6, <1>7, <1>8, <1>9 DEF Steady

LEMMA SteadyJudge ==
  ASSUME HilInv, Steady, Judge, UNCHANGED bench
  PROVE  Steady'
<1>. SUFFICES ASSUME Disturbances = {} PROVE Steady'
  BY DEF Steady, Disturbances
<1>0. LeftAlone /\ SteadyReadings /\ SteadyFirst /\ SteadyGain /\ SteadyResults
  BY DEF Steady
<1>1. /\ UNCHANGED <<bench, rig, link, code, missed>> /\ check \in 2 .. 7
      /\ Len(readings) = Len(Todo)
      /\ check' = check + 1 /\ readings' = <<>>
      /\ \A c \in 1 .. 7 : c # check => results'[c] = results[c]
      /\ results'[check] = IF Verdict THEN "pass" ELSE "fail"
      /\ gain' = IF /\ check = 2 /\ readings[1].level >= 40 /\ readings[1].level <= 600
                    /\ \A i \in 1 .. Len(readings) : ~readings[i].saturated
                 THEN readings[1].level \div 2 ELSE gain
  BY JudgeStep DEF HilInv
<1>2. LeftAlone'
  BY <1>0, <1>1 DEF LeftAlone
<1>3. SteadyReadings'
  <2>1. Len(readings') = 0
    BY <1>1
  <2>. QED  BY <2>1 DEF SteadyReadings
<1>4. SteadyFirst'
  <2>. SUFFICES ASSUME rig.flaw = "stale" PROVE SteadyFirst'
    BY <1>1 DEF SteadyFirst
  <2>1. check = 4 => readings # <<>>
    <3>. SUFFICES ASSUME check = 4 PROVE readings # <<>>
      OBVIOUS
    <3>1. Len(Todo) = 1
      BY TodoIs DEF Todo
    <3>2. Len(readings) = 1
      BY <1>1, <3>1
    <3>. QED  BY <3>2
  <2>2. check' > 4 => check > 4 \/ (check = 4 /\ readings # <<>>)
    BY <1>1, <2>1
  <2>3. check' = 4 => readings' = <<>>
    BY <1>1
  <2>. QED  BY <1>0, <1>1, <2>2, <2>3 DEF SteadyFirst
<1>5. SteadyGain'
  <2>1. CASE check = 2
    <3>1. Len(readings) = 1 /\ Todo[1] = Sweep(64)
      BY <1>1, <2>1, TodoIs DEF Todo
    <3>2. readings[1] = [level |-> LevelOf(Todo[1]), flat |-> rig.flaw # "uneven",
                         linear |-> rig.flaw # "phase", saturated |-> rig.flaw = "saturated"]
      BY <1>0, <3>1 DEF SteadyReadings
    <3>3. readings[1].level = LevelOf(Todo[1])
      BY <3>2
    <3>4. readings[1].saturated = (rig.flaw = "saturated")
      BY <3>2
    <3>5. readings[1].level = FullLevel
      BY <3>1, <3>3, LevelsAre
    <3>8. (\A i \in 1 .. Len(readings) : ~readings[i].saturated) <=> rig.flaw # "saturated"
      <4>1. readings[1].saturated <=> rig.flaw = "saturated"
        BY <3>4
      <4>. QED  BY <3>1, <4>1
    <3>9. gain = None
      BY <1>0, <2>1 DEF SteadyGain
    <3>6. gain' = IF FullLevel >= 40 /\ FullLevel <= 600 /\ rig.flaw # "saturated"
                  THEN FullLevel \div 2 ELSE None
      BY <1>1, <2>1, <3>5, <3>8, <3>9
    <3>7. gain' = IF rig.flaw \in {"weak", "loud", "route", "saturated"} THEN None ELSE Gain
      BY <3>6, LevelsSound
    <3>. QED  BY <1>1, <2>1, <3>7 DEF SteadyGain
  <2>2. CASE check # 2
    BY <1>0, <1>1, <2>2 DEF SteadyGain
  <2>. QED  BY <2>1, <2>2
<1>6. SteadyResults'
  <2>1. FailsAt' = FailsAt
    BY <1>1 DEF FailsAt
  <2>2. Verdict <=> check \notin FailsAt
    BY <1>1, SteadyVerdict
  <2>3. ASSUME NEW c \in 1 .. 7, c < check'
        PROVE  results'[c] = IF c \in FailsAt THEN "fail" ELSE "pass"
    <3>1. CASE c = check
      BY <1>1, <2>2, <3>1
    <3>2. CASE c # check
      BY <1>0, <1>1, <2>3, <3>2 DEF SteadyResults
    <3>. QED  BY <3>1, <3>2
  <2>. QED  BY <2>1, <2>3 DEF SteadyResults
<1>. QED  BY <1>2, <1>3, <1>4, <1>5, <1>6 DEF Steady

LEMMA SteadyFrame ==
  ASSUME UNCHANGED <<rig, check, readings, gain, results>>
  PROVE  /\ SteadyReadings => SteadyReadings'
         /\ SteadyFirst => SteadyFirst'
         /\ SteadyGain => SteadyGain'
         /\ SteadyResults => SteadyResults'
<1>1. SteadyReadings => SteadyReadings'
  <2>. SUFFICES ASSUME SteadyReadings, NEW i \in 1 .. Len(readings')
       PROVE (readings[i] = [level |-> LevelOf(Todo[i]), flat |-> rig.flaw # "uneven",
                             linear |-> rig.flaw # "phase", saturated |-> rig.flaw = "saturated"])'
    BY DEF SteadyReadings
  <2>1. Todo' = Todo
    BY DEF Todo
  <2>2. LevelOf(Todo[i])' = LevelOf(Todo[i])
    BY <2>1 DEF LevelOf
  <2>3. readings[i] = [level |-> LevelOf(Todo[i]), flat |-> rig.flaw # "uneven",
                       linear |-> rig.flaw # "phase", saturated |-> rig.flaw = "saturated"]
    BY DEF SteadyReadings
  <2>. QED  BY <2>2, <2>3
<1>2. SteadyFirst => SteadyFirst'
  BY DEF SteadyFirst
<1>3. SteadyGain => SteadyGain'
  BY DEF SteadyGain
<1>4. SteadyResults => SteadyResults'
  <2>1. FailsAt' = FailsAt
    BY DEF FailsAt
  <2>. QED  BY <2>1 DEF SteadyResults
<1>. QED  BY <1>1, <1>2, <1>3, <1>4

LEMMA SteadyOthers ==
  ASSUME HilInv, Steady, Raises \/ Setup \/ Connect \/ Finish \/ Disturb, UNCHANGED bench
  PROVE  Steady'
<1>. SUFFICES ASSUME Disturbances = {} PROVE Steady'
  BY DEF Steady, Disturbances
<1>0. LeftAlone /\ SteadyReadings /\ SteadyFirst /\ SteadyGain /\ SteadyResults
  BY DEF Steady
<1>1. HilTypes /\ rig \in Rigs
  BY DEF HilInv, HilTypes
<1>2. ~Raises
  <2>. SUFFICES ASSUME Raises PROVE FALSE
    OBVIOUS
  <2>1. link = "up"
    BY <1>0, <1>1 DEF LeftAlone, HilTypes, Raises
  <2>. QED  BY <2>1 DEF Raises
<1>3. ~Disturb
  BY DEF Disturb
<1>4. CASE Setup
  <2>1. /\ check = 1 /\ check' = 2 /\ readings' = <<>> /\ UNCHANGED <<link, gain>>
        /\ rig' = [rig EXCEPT !.initialized = TRUE, !.board =
                     IF rig.board = "other" /\ rig.flaw # "route" THEN "routed" ELSE rig.board]
        /\ results'[1] = IF rig'.board # "other" THEN "pass" ELSE "fail"
    BY <1>1, <1>4, BenchSteps
  <2>2. /\ rig'.flaw = rig.flaw /\ rig'.plugged = rig.plugged /\ rig'.first = rig.first
        /\ rig'.board = IF rig.board = "other" /\ rig.flaw # "route" THEN "routed" ELSE rig.board
    BY <1>1, <2>1 DEF Rigs
  <2>3. LeftAlone'
    BY <1>0, <2>1, <2>2 DEF LeftAlone
  <2>4. SteadyReadings'
    <3>1. Len(readings') = 0
      BY <2>1
    <3>. QED  BY <3>1 DEF SteadyReadings
  <2>5. SteadyFirst' /\ SteadyGain'
    BY <1>0, <2>1, <2>2 DEF SteadyFirst, SteadyGain
  <2>6. results'[1] = IF 1 \in FailsAt THEN "fail" ELSE "pass"
    <3>1. rig'.board = "other" <=> rig.flaw = "route"
      BY <1>0, <2>2 DEF LeftAlone
    <3>2. 1 \in FailsAt <=> rig.flaw = "route"
      BY <1>1 DEF FailsAt, Rigs, AllFlaws
    <3>. QED  BY <2>1, <3>1, <3>2
  <2>7. SteadyResults'
    <3>1. FailsAt' = FailsAt
      BY <2>2 DEF FailsAt
    <3>2. \A c \in 1 .. 7 : c < check' => c = 1
      BY <2>1
    <3>. QED  BY <2>6, <3>1, <3>2 DEF SteadyResults
  <2>. QED  BY <2>3, <2>4, <2>5, <2>7 DEF Steady
<1>5. CASE Connect \/ Finish
  <2>1. UNCHANGED <<rig, check, readings, gain, results>>
    BY <1>5 DEF Connect, Finish
  <2>2. LeftAlone'
    BY <1>0, <1>5, <2>1 DEF LeftAlone, Connect, Finish
  <2>3. SteadyReadings' /\ SteadyFirst' /\ SteadyGain' /\ SteadyResults'
    BY <1>0, <2>1, SteadyFrame
  <2>. QED  BY <2>2, <2>3 DEF Steady
<1>. QED  BY <1>2, <1>3, <1>4, <1>5

LEMMA SteadyStep == HilInv /\ Steady /\ [HilNext]_<<bench, hilVars>> => Steady'
<1>. SUFFICES ASSUME HilInv, Steady, [HilNext]_<<bench, hilVars>> PROVE Steady'
  OBVIOUS
<1>1. CASE UNCHANGED <<bench, hilVars>>
  <2>1. UNCHANGED <<bench, rig, link, check, readings, gain, results>>
    BY <1>1 DEF hilVars
  <2>2. Disturbances' = Disturbances
    BY <2>1 DEF Disturbances
  <2>3. LeftAlone' <=> LeftAlone
    BY <2>1 DEF LeftAlone
  <2>. QED  BY <2>1, <2>2, <2>3, SteadyFrame DEF Steady
<1>2. CASE HilNext
  BY <1>2, SteadyMeasure, SteadyJudge, SteadyOthers DEF HilNext, Run, Judge
<1>. QED  BY <1>1, <1>2

\* On a loop that nobody touches, whatever its gain within the limits and
\* however often it is measured, each flaw fails exactly the checks it should.
THEOREM SteadyFlawsAlwaysCaught == HilSpec => []SteadyFlawsAreCaught
<1>1. HilInv /\ Steady => SteadyFlawsAreCaught
  <2>. SUFFICES ASSUME HilInv, Steady, Disturbances = {}, code \in {0, 1}
       PROVE  FlawsAreCaught
    BY DEF SteadyFlawsAreCaught, FlawsAreCaught
  <2>1. check = 8 /\ rig.flaw \in AllFlaws
    BY DEF HilInv, HilTypes, CodeOK, Rigs
  <2>2. \A c \in 1 .. 7 : results[c] = IF c \in FailsAt THEN "fail" ELSE "pass"
    BY <2>1 DEF Steady, SteadyResults
  <2>3. Failed = {Checks[c] : c \in FailsAt}
    <3>1. \A c \in FailsAt : c \in 1 .. 7
      BY <2>1 DEF FailsAt, AllFlaws
    <3>2. \A c : c \in FailsAt <=> c \in {d \in 1 .. 7 : results[d] = "fail"}
      BY <2>2, <3>1
    <3>. QED  BY <3>2 DEF Failed
  <2>4. /\ Checks[1] = "setup" /\ Checks[2] = "sweep" /\ Checks[3] = "decimation"
        /\ Checks[4] = "sinc level" /\ Checks[5] = "max depth"
        /\ Checks[6] = "amplitude linearity" /\ Checks[7] = "repeatability"
    BY DEF Checks
  <2>5. CASE rig.flaw = "none"
    BY <2>3, <2>4, <2>5 DEF FlawsAreCaught, FailsAt
  <2>6. CASE rig.flaw = "stale"
    BY <2>3, <2>4, <2>6 DEF FlawsAreCaught, FailsAt
  <2>7. CASE rig.flaw = "phase"
    BY <2>3, <2>4, <2>7 DEF FlawsAreCaught, FailsAt
  <2>8. CASE rig.flaw = "decimation"
    BY <2>3, <2>4, <2>8 DEF FlawsAreCaught, FailsAt
  <2>9. CASE rig.flaw \in {"uneven", "loud"}
    BY <2>3, <2>4, <2>9 DEF FlawsAreCaught, FailsAt
  <2>10. CASE rig.flaw = "weak"
    BY <2>3, <2>4, <2>10 DEF FlawsAreCaught, FailsAt
  <2>11. CASE rig.flaw = "route"
    BY <2>3, <2>4, <2>11 DEF FlawsAreCaught, FailsAt
  <2>12. CASE rig.flaw = "saturated"
    <3>1. Failed = {Checks[c] : c \in 2 .. 7}
      BY <2>3, <2>12 DEF FailsAt
    <3>2. Range(Checks) = {Checks[c] : c \in 1 .. 7}
      <4>1. DOMAIN Checks = 1 .. 7
        BY DEF Checks
      <4>. QED  BY <4>1 DEF Range
    <3>3. \A c \in 1 .. 7 : Checks[c] # "setup" <=> c \in 2 .. 7
      <4>1. /\ \A c \in 1 .. 7 : c = 1 \/ c \in {2, 3, 4, 5, 6, 7}
            /\ \A c \in {2, 3, 4, 5, 6, 7} : c \in 2 .. 7
            /\ 1 \notin 2 .. 7
        OBVIOUS
      <4>2. \A c \in {2, 3, 4, 5, 6, 7} : Checks[c] # "setup"
        BY <2>4, Zenon
      <4>. QED  BY <2>4, <4>1, <4>2, Zenon
    <3>4. Failed = Range(Checks) \ {"setup"}
      BY <3>1, <3>2, <3>3
    <3>. QED  BY <2>12, <3>4 DEF FlawsAreCaught
  <2>. QED  BY <2>1, <2>5, <2>6, <2>7, <2>8, <2>9, <2>10, <2>11, <2>12 DEF AllFlaws
<1>. QED  BY <1>1, HilInitInv, SteadyInit, HilStep, SteadyStep, PTL DEF HilSpec
=============================================================================
