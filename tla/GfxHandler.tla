----------------------------- MODULE GfxHandler -----------------------------
(***************************************************************************)
(* The emulator's graphics memory (aic-emu/GfxHandler.cc): the GEM objects *)
(* of the device and the list of them, kept by the remote_handle of the    *)
(* log.  "objects" holds every object ever created, in order, so that one  *)
(* that is lost from the list can still be told from a closed one; "fd" is *)
(* its prime file descriptor, "maps" the mappings made of it, "frame" what *)
(* its pixels show.  Neither the descriptor nor a mapping is ever given    *)
(* back: ClearBo closes the GEM handle only and UnmapBo does not unmap.    *)
(*                                                                         *)
(* Each operation says by its argument how it returned; one that runs an   *)
(* ioctl may fail when Faults holds.                                       *)
(***************************************************************************)
EXTENDS Naturals, Sequences

CONSTANTS
  Remote,     \* remote_handle values
  Faults      \* whether ioctls may fail

VARIABLES
  boList,     \* m_boList: the object of each remote handle, or NoObject
  objects,    \* the objects of the device
  device      \* m_device_fd

NoObject == 0

GfxTypeOK ==
  /\ objects \in Seq([open : BOOLEAN, fd : BOOLEAN, maps : Nat, frame : Nat])
  /\ boList \in [Remote -> {NoObject} \cup DOMAIN objects]
  /\ device \in {"uninitialised", "open", "closed"}

\* The constructor sets nothing: m_device_fd has no value until GfxInit.
GfxNew ==
  /\ boList = [r \in Remote |-> NoObject]
  /\ objects = <<>>
  /\ device = "uninitialised"

\* open(), the driver's version, its chipset and its mmap version; whatever
\* fails closes the device.
GfxInit(ok) ==
  /\ ok \/ Faults
  /\ device' = IF ok THEN "open" ELSE "closed"
  /\ UNCHANGED <<boList, objects>>

\* What GEM_CREATE made.  A frame of 0 is memory that holds none of the clip.
NewObject(fd) == [open |-> TRUE, fd |-> fd, maps |-> 0, frame |-> 0]

\* Mutant: the newer object takes the older one's place.
AllocateReplaces(r, ok) ==
  /\ ok
  /\ objects' = Append(objects, NewObject(TRUE))
  /\ boList' = [boList EXCEPT ![r] = Len(objects) + 1]
  /\ UNCHANGED device

\* insert() keeps the entry that is there: the new object is then in no list.
AllocateBo(r, ok) ==
  /\ UNCHANGED device
  /\ \/ /\ ~ok /\ Faults                     \* GEM_CREATE
        /\ UNCHANGED <<boList, objects>>
     \/ /\ ~ok /\ Faults                     \* PRIME_HANDLE_TO_FD
        /\ objects' = Append(objects, NewObject(FALSE))
        /\ UNCHANGED boList
     \/ /\ ok
        /\ objects' = Append(objects, NewObject(TRUE))
        /\ boList' = IF boList[r] = NoObject
                     THEN [boList EXCEPT ![r] = Len(objects) + 1] ELSE boList

GetBo(r) == IF r \in Remote THEN boList[r] ELSE NoObject

ClearBo(r, ok) ==
  /\ UNCHANGED device
  /\ \/ /\ ~ok
        /\ GetBo(r) = NoObject \/ Faults     \* not found, or GEM_CLOSE
        /\ UNCHANGED <<boList, objects>>
     \/ /\ ok /\ GetBo(r) # NoObject
        /\ objects' = [objects EXCEPT ![boList[r]].open = FALSE]
        /\ boList' = [boList EXCEPT ![r] = NoObject]

\* MmapBo, the copy, UnmapBo.  A failing mmap() is not reported (the status
\* looked at is the ioctl's before it), and the copy goes to address 0: "null".
Copy(r, frame, result) ==
  LET o == boList[r]
  IN /\ UNCHANGED <<boList, device>>
     /\ \/ /\ result = "fail" /\ Faults      \* GEM_MMAP_OFFSET
           /\ UNCHANGED objects
        \/ /\ result = "fail" /\ Faults      \* GEM_SET_DOMAIN
           /\ objects' = [objects EXCEPT ![o].maps = @ + 1]
        \/ /\ result = "fail" /\ Faults      \* GEM_SW_FINISH
           /\ objects' = [objects EXCEPT ![o].maps = @ + 1, ![o].frame = frame]
        \/ /\ result = "null" /\ Faults      \* mmap()
           /\ UNCHANGED objects
        \/ /\ result = "ok"
           /\ objects' = [objects EXCEPT ![o].maps = @ + 1, ![o].frame = frame]

\* The destructor closes what is listed, empties the list and closes the
\* device, which takes the objects of no list with it.
GfxDestroy ==
  /\ boList' = [r \in Remote |-> NoObject]
  /\ objects' = [o \in DOMAIN objects |-> [objects[o] EXCEPT !.open = FALSE]]
  /\ device' = "closed"
=============================================================================
