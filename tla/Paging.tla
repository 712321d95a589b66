------------------------------- MODULE Paging -------------------------------
(***************************************************************************)
(* The address space: paging_init, map_page_pid and map_page_vid of        *)
(* paging.c, vidmap, and the translations the CPU remembers (its TLB),     *)
(* which an entry that is changed does not leave by itself.                *)
(*                                                                         *)
(* A page stands for all addresses the code treats alike: "null" for what  *)
(* of the first 4 MB is not present, "video" for the pages at 0xB8000,     *)
(* "kernel" for 4 to 8 MB, "below" for the 4 MB that end at 128 MB,        *)
(* "program" for those that begin there, "vidmap" for the first page of    *)
(* entry 0x19.  Physical memory is counted in pieces of 4 MB; 0 is that    *)
(* of video memory.                                                        *)
(***************************************************************************)
EXTENDS Integers

CONSTANTS
    Pids,     \* 0 .. PROCESS_LIMIT - 1
    UserWords \* a program's page has words 0 .. UserWords - 1

ASSUME PagingAssumption ==
    /\ Pids \subseteq Nat
    /\ UserWords \in Nat \ {0}

VARIABLES
    table,   \* page -> its entry in page directory and page table
    tlb,     \* page -> the entry the CPU has remembered, or Absent
    paging,  \* cr0: is paging on
    owner,   \* history: the process whose page was mapped last
    fault    \* PAGE_FAULT hangs the machine

pgvars == <<table, tlb, paging, owner, fault>>

Pages == {"null", "video", "kernel", "below", "program", "vidmap"}

VideoFrame == 0
KernelFrame == 1
Frames == {VideoFrame, KernelFrame} \cup {2 + pid : pid \in Pids}

Absent == [present |-> FALSE, us |-> FALSE, frame |-> 0]
Present(us, frame) == [present |-> TRUE, us |-> us, frame |-> frame]

NoTlb == [p \in Pages |-> Absent]

(* Before paging_init the tables are zero and addresses are physical.      *)
PagingStart ==
    /\ table = [p \in Pages |-> Absent]
    /\ tlb = NoTlb
    /\ paging = FALSE
    /\ owner = -1
    /\ fault = FALSE

-----------------------------------------------------------------------------

(* Of the first 4 MB only video memory is mapped; edit_paging_flags loads  *)
(* cr3 and turns paging on.                                                *)
PagingInit ==
    /\ ~paging
    /\ table' = [p \in Pages |->
           IF p = "video" THEN Present(FALSE, VideoFrame)
           ELSE IF p = "kernel" THEN Present(FALSE, KernelFrame)
           ELSE Absent]
    /\ tlb' = NoTlb
    /\ paging' = TRUE
    /\ UNCHANGED <<owner, fault>>

(* KERNEL_PAGE + pid * TASK_SIZE, in pieces of 4 MB.                       *)
FrameOf(pid) == 2 + pid

TlbFlush_Not == tlb   \* mutant: map_page_pid and map_page_vid do not flush

TlbFlush == NoTlb

(* execute and halt.                                                       *)
MapPagePid ==
    /\ paging /\ ~fault
    /\ \E pid \in Pids :
           /\ table' = [table EXCEPT !["program"] = Present(TRUE, FrameOf(pid))]
           /\ owner' = pid
    /\ tlb' = TlbFlush
    /\ UNCHANGED <<paging, fault>>

(* The CPU translates an address of a page; user code reaches user pages   *)
(* only.  What is neither remembered nor present is a page fault.          *)
Translation(page) == IF tlb[page].present THEN tlb[page] ELSE table[page]
Reachable(page, user) == Translation(page).present /\ (user => Translation(page).us)

Access ==
    /\ paging /\ ~fault
    /\ \E page \in Pages, user \in BOOLEAN :
           /\ user => owner # -1
           /\ tlb' = IF Reachable(page, user) THEN [tlb EXCEPT ![page] = Translation(page)]
                     ELSE tlb
           /\ fault' = ~Reachable(page, user)
    /\ UNCHANGED <<table, paging, owner>>

(* The entry is never taken away again: later processes find it too.       *)
MapPageVid ==
    /\ table' = [table EXCEPT !["vidmap"] = Present(TRUE, VideoFrame)]
    /\ tlb' = TlbFlush

(* vidmap(screen_start): pointers from USER_PAGE_TOP, which is one word    *)
(* below the program's page, to USER_PAGE_BOT, its last word; then the     *)
(* kernel stores the address there.                                        *)
PointerAccepted(word) == word >= -1 /\ word <= UserWords - 1

Vidmap ==
    /\ paging /\ ~fault /\ owner # -1
    /\ \E word \in -2 .. UserWords :
           /\ PointerAccepted(word)
           /\ fault' = (word < 0)
    /\ MapPageVid
    /\ UNCHANGED <<paging, owner>>

PageFault == fault /\ UNCHANGED pgvars   \* while(1)

PagingNext == PagingInit \/ MapPagePid \/ Access \/ Vidmap \/ PageFault
PagingSpec == PagingStart /\ [][PagingNext]_pgvars

-----------------------------------------------------------------------------
(* Properties.                                                             *)

PagingTypeOK ==
    LET Entries == [present : BOOLEAN, us : BOOLEAN, frame : Frames]
    IN /\ table \in [Pages -> Entries]
       /\ tlb \in [Pages -> Entries]
       /\ paging \in BOOLEAN
       /\ owner \in Pids \cup {-1}
       /\ fault \in BOOLEAN

(* User code reaches no memory but that of the process mapped last and the *)
(* screen: neither what page entries say nor what the CPU remembers of     *)
(* earlier entries leads it to the kernel or to another process.           *)
OwnMemoryOnly ==
    \A page \in Pages :
        Reachable(page, TRUE) =>
            /\ owner # -1
            /\ Translation(page).frame \in {VideoFrame, FrameOf(owner)}

=============================================================================
