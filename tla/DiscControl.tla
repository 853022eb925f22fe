---------------------------- MODULE DiscControl ----------------------------
(***************************************************************************)
(* The discs of a game: the list behind the libretro disk control          *)
(* interface, the tray the frontend opens and closes, the disc the boot    *)
(* takes, and the drive of the virtual machine, which VMManager::ChangeDisc*)
(* serves.                                                                 *)
(*                                                                         *)
(* An image stands for the path the frontend is shown and for the file     *)
(* that path resolves to, which are set together; NoPath is the empty      *)
(* string of an entry that was added and not yet filled.  Opening a file   *)
(* may fail at any time.  The frontend's calls reach the CPU thread as     *)
(* blocking work (module LibretroHost): here a call is one step.  Content  *)
(* that is an ELF or a GS dump is left out.                                *)
(***************************************************************************)
EXTENDS Integers, Sequences, SequencesExt

CONSTANTS
    Images, NoPath,
    MaxDiscs     \* bound on the length of the list

ASSUME ImageAssumption ==
    /\ NoPath \notin Images
    /\ MaxDiscs \in Nat \ {0}

VARIABLES
    s_discs, s_disc_index, s_disc_ejected,
    s_disc_initial_index, s_disc_initial_path,
    registered,   \* the frontend has the callbacks
    game,         \* "none", "booting", "running" or "failed"
    boot_path,    \* s_boot_params.filename
    source, iso,  \* CDVD: the source type, and the file of the type Iso
    told          \* ghost: what came of the last image put in, and which it was

list    == <<s_discs, s_disc_index, s_disc_ejected>>
initial == <<s_disc_initial_index, s_disc_initial_path>>
cdvd    == <<source, iso>>

discVars == <<list, initial, registered, game, boot_path, cdvd, told>>

Paths == Images \cup {NoPath}

Indices == 0 .. MaxDiscs - 1

(* What ParseM3U returns: the images of the playlist that exist, possibly  *)
(* none of them.                                                           *)
Playlists == UNION {[1 .. n -> Images] : n \in 0 .. MaxDiscs}

nothing == [result |-> "none", image |-> NoPath]

(* The images are alike.                                                   *)
Symmetry == Permutations(Images)

(* What the guest finds in the drive.                                      *)
Drive == IF game = "running" /\ source = "Iso" THEN iso ELSE NoPath

DiscInit ==
    /\ s_discs = <<>> /\ s_disc_index = 0 /\ s_disc_ejected = FALSE
    /\ s_disc_initial_index = 0 /\ s_disc_initial_path = NoPath
    /\ registered = FALSE /\ game = "none" /\ boot_path = NoPath
    /\ source = "NoDisc" /\ iso = NoPath
    /\ told = nothing

-----------------------------------------------------------------------------
(* The session.                                                            *)

(* set_initial_image: a frontend that has the callbacks may say, before it *)
(* loads a game, which disc the game was left on.                          *)
DiskSetInitialImage(index, path) ==
    /\ registered /\ game = "none"
    /\ s_disc_initial_index' = index /\ s_disc_initial_path' = path
    /\ UNCHANGED <<list, registered, game, boot_path, cdvd, told>>

(* BuildDiscList of a playlist: it boots the disc the frontend asked for,  *)
(* when the list still has it there, else the first.                       *)
LoadPlaylist(discs) ==
    /\ game = "none"
    /\ s_discs' = discs /\ s_disc_ejected' = FALSE
    /\ s_disc_index' = IF /\ s_disc_initial_index < Len(discs)
                          /\ s_disc_initial_path \in {NoPath, discs[s_disc_initial_index + 1]}
                       THEN s_disc_initial_index ELSE 0
    /\ IF discs = <<>>
       THEN boot_path' = NoPath /\ UNCHANGED <<game, registered>>
       ELSE /\ game' = "booting" /\ registered' = TRUE
            /\ boot_path' = discs[s_disc_index' + 1]
    /\ told' = nothing
    /\ UNCHANGED <<initial, cdvd>>

LoadImage(image) ==
    /\ game = "none" /\ game' = "booting"
    /\ s_discs' = <<image>> /\ s_disc_index' = 0 /\ s_disc_ejected' = FALSE
    /\ boot_path' = image /\ registered' = TRUE
    /\ told' = nothing
    /\ UNCHANGED <<initial, cdvd>>

(* No content: the BIOS is booted, and the list is empty.                  *)
LoadNothing ==
    /\ game = "none" /\ game' = "booting"
    /\ s_discs' = <<>> /\ s_disc_index' = 0 /\ s_disc_ejected' = FALSE
    /\ boot_path' = NoPath /\ registered' = TRUE
    /\ told' = nothing
    /\ UNCHANGED <<initial, cdvd>>

(* The CPU thread: VMManager::Initialize with s_boot_params.               *)
Boot ==
    /\ game = "booting"
    /\ \/ /\ game' = "running"
          /\ source' = IF boot_path = NoPath THEN "NoDisc" ELSE "Iso"
          /\ iso' = boot_path
          /\ told' = [result |-> "in", image |-> boot_path]
       \/ /\ game' = "failed"
          /\ source' \in {source, IF boot_path = NoPath THEN "NoDisc" ELSE "Iso"}
          /\ iso' = NoPath
          /\ UNCHANGED told
    /\ UNCHANGED <<list, initial, registered, boot_path>>

(* retro_unload_game leaves the list alone; the VM's shutdown clears the   *)
(* files.                                                                  *)
Unload ==
    /\ game # "none" /\ game' = "none"
    /\ iso' = NoPath
    /\ told' = nothing
    /\ UNCHANGED <<list, initial, registered, boot_path, source>>

-----------------------------------------------------------------------------
(* The drive.                                                              *)

(* Mutant: the old image is not opened again, and the new one is said to   *)
(* be in the drive.                                                        *)
ChangeDiscOptimist(path) ==
    LET file == IF path = NoPath THEN iso ELSE path
    IN  /\ told' = [result |-> "in", image |-> path]
        /\ \/ file # NoPath /\ source' = "Iso" /\ iso' = file
           \/ UNCHANGED cdvd

(* VMManager::ChangeDisc: an empty path keeps the file the source type had.*)
(* When the file does not open, the old one is put back, and when that     *)
(* does not open either there is no disc.                                  *)
ChangeDisc(path) ==
    LET file == IF path = NoPath THEN iso ELSE path
    IN  \/ /\ file # NoPath
           /\ source' = "Iso" /\ iso' = file
           /\ told' = [result |-> "in", image |-> path]
        \/ /\ told' = [result |-> "failed", image |-> path]
           /\ IF source = "Iso" THEN source' \in {"Iso", "NoDisc"} /\ iso' = iso
              ELSE source' = "NoDisc" /\ iso' = file

(* InsertDisc, for an index of the list.  Without a VM to swap under it    *)
(* only reports that the index was accepted.                               *)
InsertDisc(index) ==
    \/ game = "running" /\ ChangeDisc(s_discs[index + 1])
    \/ game # "running" /\ UNCHANGED <<cdvd, told>>

-----------------------------------------------------------------------------
(* The frontend's calls.                                                   *)

(* The swap happens when the tray is closed.                               *)
DiskSetEjectState(ejected) ==
    /\ registered /\ s_discs # <<>> /\ ejected # s_disc_ejected
    /\ s_disc_ejected' = ejected
    /\ IF ejected THEN UNCHANGED <<cdvd, told>> ELSE InsertDisc(s_disc_index)
    /\ UNCHANGED <<s_discs, s_disc_index, initial, registered, game, boot_path>>

(* Mutant: a disc that is picked goes in at once, with the tray open.      *)
DiskSetImageIndexAtOnce(index) ==
    /\ registered /\ index < Len(s_discs)
    /\ s_disc_index' = index
    /\ InsertDisc(index)
    /\ UNCHANGED <<s_discs, s_disc_ejected, initial, registered, game, boot_path>>

DiskSetImageIndex(index) ==
    /\ registered /\ index < Len(s_discs)
    /\ s_disc_index' = index
    /\ IF s_disc_ejected THEN UNCHANGED <<cdvd, told>> ELSE InsertDisc(index)
    /\ UNCHANGED <<s_discs, s_disc_ejected, initial, registered, game, boot_path>>

(* Mutant: the last entry of all is not told apart.                        *)
DiskDropImageToNone(index) ==
    /\ registered /\ index < Len(s_discs)
    /\ s_discs' = RemoveAt(s_discs, index + 1)
    /\ s_disc_index' = IF s_disc_index >= Len(s_discs) - 1 THEN Len(s_discs) - 2 ELSE s_disc_index
    /\ UNCHANGED <<s_disc_ejected, initial, registered, game, boot_path, cdvd, told>>

(* replace_image_index with no image drops the entry.                      *)
DiskDropImage(index) ==
    /\ registered /\ index < Len(s_discs)
    /\ s_discs' = RemoveAt(s_discs, index + 1)
    /\ s_disc_index' = IF s_disc_index >= Len(s_discs) - 1 /\ Len(s_discs) > 1
                       THEN Len(s_discs) - 2 ELSE s_disc_index
    /\ UNCHANGED <<s_disc_ejected, initial, registered, game, boot_path, cdvd, told>>

DiskReplaceImageIndex(index, image) ==
    /\ registered /\ index < Len(s_discs)
    /\ s_discs' = [s_discs EXCEPT ![index + 1] = image]
    /\ UNCHANGED <<s_disc_index, s_disc_ejected, initial, registered, game, boot_path, cdvd, told>>

DiskAddImageIndex ==
    /\ registered /\ Len(s_discs) < MaxDiscs
    /\ s_discs' = Append(s_discs, NoPath)
    /\ UNCHANGED <<s_disc_index, s_disc_ejected, initial, registered, game, boot_path, cdvd, told>>

DiscNext ==
    \/ \E index \in Indices, path \in Paths : DiskSetInitialImage(index, path)
    \/ \E discs \in Playlists : LoadPlaylist(discs)
    \/ \E image \in Images : LoadImage(image)
    \/ LoadNothing \/ Boot \/ Unload
    \/ \E ejected \in BOOLEAN : DiskSetEjectState(ejected)
    \/ \E index \in Indices : DiskSetImageIndex(index) \/ DiskDropImage(index)
    \/ \E index \in Indices, image \in Images : DiskReplaceImageIndex(index, image)
    \/ DiskAddImageIndex

DiscSpec == DiscInit /\ [][DiscNext]_discVars

-----------------------------------------------------------------------------
(* The types; and the index always names an entry of the list, however it *)
(* was shortened, or is 0: s_discs[s_disc_index] is read without a check   *)
(* where the tray is closed.                                               *)
DiscTypeOK ==
    /\ s_discs \in Seq(Paths) /\ s_disc_ejected \in BOOLEAN
    /\ s_disc_index \in (IF s_discs = <<>> THEN {0} ELSE 0 .. Len(s_discs) - 1)
    /\ s_disc_initial_index \in Nat /\ s_disc_initial_path \in Paths
    /\ registered \in BOOLEAN /\ game \in {"none", "booting", "running", "failed"}
    /\ boot_path \in Paths /\ source \in {"Iso", "NoDisc"} /\ iso \in Paths
    /\ told \in [result : {"none", "in", "failed"}, image : Paths]

(* The disc a game was booted from, or an image a running VM has reported  *)
(* to be in the drive, is in it until the next swap.                       *)
DriveTruthful ==
    game = "running" /\ told.result = "in" /\ told.image # NoPath => Drive = told.image

(* "so one call per swap is the whole story": while a game runs, the disc  *)
(* in its drive changes only as the tray is closed on an entry or an entry *)
(* is picked with the tray shut, never as it is opened or the list is      *)
(* edited; and then to the entry, with success, or to no disc, with        *)
(* failure: a swap that fails halfway leaves no third disc behind.         *)
SwapAllOrNothing ==
    [][ game = "running" /\ game' = "running" /\ Drive' # Drive =>
          /\ ~s_disc_ejected' /\ s_disc_index' < Len(s_discs')
          /\ \/ told'.result = "in" /\ s_discs'[s_disc_index' + 1] \in {Drive', NoPath}
             \/ told'.result = "failed" /\ Drive' = NoPath ]_discVars

=============================================================================
