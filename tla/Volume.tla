------------------------------- MODULE Volume -------------------------------
(***************************************************************************)
(* A device is formatted by mksofs and then used: Mksofs, followed by      *)
(* operations on file clusters (FileClusters) or by a session of commands  *)
(* on inodes (Testtool), during which it may be formatted again.  Either   *)
(* starts when the magic number is there, without which the dealer of the  *)
(* superblock opens no disk, and on the one of the devices whose sizes it  *)
(* has been given.                                                         *)
(***************************************************************************)
EXTENDS FileClusters, Mksofs

CONSTANTS
    UsedSize,     \* bound: the size of the device that is used, made with no options
    ITotal, Time, Handles, LinkMax, Perms, Owners, MaxCommands   \* of Testtool

VARIABLES device, table, open, super, superDisk, told, walk, left, damage, commands
ttvars == <<device, table, open, super, superDisk, told, walk, left, damage, commands>>

Tool == INSTANCE Testtool WITH sb <- super, sbDisk <- superDisk

ASSUME VolumeAssumption ==
    /\ Tool!TesttoolAssumption
    /\ RefsPerMapBlock = ReferencesPerBitmapBlock /\ MapBits = BitsPerByte

VolumeInit == Init /\ MkInit /\ Tool!TInit

Usable ==
    /\ magic = "MAGIC_NUMBER"
    /\ ntotal = UsedSize /\ itotal = UsedSize \div 8 /\ ~zero
    /\ geo.ctotal = CTotal /\ geo.itsize * InodesPerBlock = ITotal

Format ==
    /\ device # "open"
    /\ MkNext
    /\ UNCHANGED <<vars, ttvars>>

Use ==
    /\ Usable /\ commands = 0 /\ device = "closed"
    /\ Next
    /\ UNCHANGED <<mkvars, ttvars>>

Session ==
    /\ Usable /\ ops = 0
    /\ Tool!main
    /\ UNCHANGED <<vars, mkvars>>

(* formatDisk: mksofs starts anew, with the number of inodes there are     *)
(* (bound); it may be killed before it has written anything, and then the  *)
(* old volume is opened again.                                             *)
FormatAgain ==
    /\ Tool!formatDisk
    /\ stage' = "soOpenRawDisk"
    /\ UNCHANGED <<vars, zero, itotal, geo, disk, magic>>

Outcome ==
    CASE stage = "done"                                 -> "new volume"
      [] stage = "stopped" /\ magic = "MAGIC_NUMBER"    -> "old volume"
      [] OTHER                                          -> "no volume"

OpenAgain ==
    /\ stage \in {"done", "stopped"}
    /\ Tool!Reopen(Outcome)
    /\ UNCHANGED <<vars, mkvars>>

VolumeNext == Format \/ Use \/ Session \/ FormatAgain \/ OpenAgain

VolumeSpec == VolumeInit /\ [][VolumeNext]_<<vars, mkvars, ttvars>>

(* The properties of Testtool, of a session on a formatted volume: what a  *)
(* command reports stays; who leaves an inode open; the commands implement *)
(* InodeList.                                                              *)
AttributesLast == Tool!AttributesLast
HandlesAccounted == Tool!HandlesAccounted
ImplementsInodeList == Tool!ImplementsInodeList
=============================================================================
