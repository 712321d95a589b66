----------------------------- MODULE FileSystem -----------------------------
(***************************************************************************)
(* What a program reads through its descriptors (filesys.c, and open,      *)
(* read, close and execute of syscall.c as far as data goes).              *)
(*                                                                         *)
(* One process, the terminal it runs on stays on display, and there is a   *)
(* pid for each command it executes.  The slots are those of its PCB; a    *)
(* command runs in a PCB of its own until it halts.  current_dentry, the   *)
(* global, is always written before it is read in the same call: it is no  *)
(* state between calls.                                                    *)
(***************************************************************************)
EXTENDS Command

CONSTANTS
    MaxOpenFiles,  \* filesys.h: MAX_OPEN_FILES
    Dentries,      \* boot_blk->dir_entries: a sequence of [fname, type, inode]
    Inodes,        \* the inodes: [0 .. n -> [len, dblocks]]
    BlockSize,     \* filesys.h: FOUR_KB
    Executables,   \* the inodes whose data begins with DELETE, E, L, F
    ReadSizes,     \* the nbytes of reads
    Leftovers,     \* the positions a former owner of the PCB can have left
    MaxLine        \* bound: the length of command lines

ASSUME ImageAssumption ==
    /\ MaxOpenFiles \in Nat /\ MaxOpenFiles > 2
    /\ BlockSize \in Nat \ {0}
    /\ 0 \in DOMAIN Inodes
    /\ \A f \in DOMAIN Inodes :
        \* dblocks has an entry, used or not, for the byte behind the last
        /\ Inodes[f].len \in Nat
        /\ \A off \in 0 .. Inodes[f].len :
               off \div BlockSize \in DOMAIN Inodes[f].dblocks
    /\ Len(Dentries) \in Nat /\ DOMAIN Dentries = 1 .. Len(Dentries)
    /\ Executables \subseteq DOMAIN Inodes
    /\ \A i \in DOMAIN Dentries :
        /\ Dentries[i].type \in {"rtc", "dir", "file"}
        /\ Dentries[i].inode \in DOMAIN Inodes
        /\ \A j \in DOMAIN Dentries : Dentries[i].fname = Dentries[j].fname => i = j
    /\ ReadSizes \subseteq Nat \ {0}
    /\ Leftovers \subseteq Nat

VARIABLES
    fd_items,   \* slot -> [type, inode, file_position, active]
    delivered,  \* history: what reads returned since the slot was opened
    child       \* the command that runs, and its argument_buf

fsvars == <<fd_items, delivered, child>>

FileSlots == 2 .. MaxOpenFiles - 1
Active(i) == fd_items[i].active

(* A PCB is used again as its last owner left it.                          *)
UnusedSlot(left) ==
    [type |-> "none", inode |-> 0, file_position |-> left, active |-> FALSE]
NoCommand == [line |-> <<>>, inode |-> -1, argument_buf |-> <<>>]

FsInit ==
    /\ \E left \in [FileSlots -> Leftovers] :
           fd_items = [i \in FileSlots |-> UnusedSlot(left[i])]
    /\ delivered = [i \in FileSlots |-> <<>>]
    /\ child = NoCommand

-----------------------------------------------------------------------------
(* filesys.c.                                                              *)

(* read_dentry_by_name.  Names are at most MAX_FILENAME_LEN long, and      *)
(* comparing that many characters, or up to both NULs, compares names.     *)
DentryNamed(fname) == {i \in DOMAIN Dentries : Dentries[i].fname = fname}

(* The byte at an offset of a file, known by its place in the image.       *)
ByteAt(inode, off) ==
    <<Inodes[inode].dblocks[off \div BlockSize], off % BlockSize>>

(* read_data counts the bytes it copied up to and including what is left.  *)
WhenToStop_Less(inode, offset) == Inodes[inode].len - offset - 2   \* mutant: stops early

WhenToStop(inode, offset) == Inodes[inode].len - offset

ReadCount(inode, offset, nbytes) ==
    Min({nbytes, Max({0, WhenToStop(inode, offset) + 1})})

ReadData(inode, offset, nbytes) ==
    [k \in 1 .. ReadCount(inode, offset, nbytes) |-> ByteAt(inode, offset + k - 1)]

(* What one read of a slot returns: bytes of a file, or the next entry of  *)
(* the directory, whatever nbytes is, until there is none.                 *)
HasDentry(idx) == idx < Len(Dentries)   \* read_dentry_by_index succeeds
DirRead(idx) == IF HasDentry(idx) THEN <<Dentries[idx + 1].fname>> ELSE <<>>

Result(item, nbytes) ==
    CASE item.type = "file" -> ReadData(item.inode, item.file_position, nbytes)
      [] item.type = "dir" -> DirRead(item.file_position)

-----------------------------------------------------------------------------
(* File calls of the process.                                              *)

NewItem_Position(i, d) ==   \* mutant: the slot keeps its position
    [type |-> d.type, inode |-> d.inode,
     file_position |-> fd_items[i].file_position, active |-> TRUE]

NewItem(i, d) ==
    [type |-> d.type, inode |-> d.inode, file_position |-> 0, active |-> TRUE]

(* open takes the first slot that is not active.  What is already open     *)
(* stays as it is, and a file may be open twice.                           *)
Open ==
    /\ child = NoCommand
    /\ \E e \in DOMAIN Dentries, i \in FileSlots :
           /\ ~Active(i)
           /\ \A j \in FileSlots : j < i => Active(j)
           /\ fd_items' = [fd_items EXCEPT ![i] = NewItem(i, Dentries[e])]
           /\ delivered' = [delivered EXCEPT ![i] = <<>>]
    /\ UNCHANGED child

(* file_read and dir_read advance the slot by what they return.            *)
Read ==
    /\ child = NoCommand
    /\ \E i \in FileSlots, nbytes \in ReadSizes :
           /\ Active(i)
           /\ fd_items[i].type # "rtc"
           /\ LET result == Result(fd_items[i], nbytes) IN
                 /\ fd_items' = [fd_items EXCEPT ![i].file_position = @ + Len(result)]
                 /\ delivered' = [delivered EXCEPT ![i] = @ \o result]
    /\ UNCHANGED child

Closed(item) ==
    IF item.active
    THEN [item EXCEPT !.inode = 0, !.file_position = 0, !.active = FALSE]
    ELSE item

Close ==
    /\ child = NoCommand
    /\ \E i \in FileSlots :
           /\ Active(i)
           /\ fd_items' = [fd_items EXCEPT ![i] = Closed(@)]
           /\ delivered' = [delivered EXCEPT ![i] = <<>>]
    /\ UNCHANGED child

(* halt of a child, and execute when it gives up, close what is active in  *)
(* the PCB of the process that is the newest by then: the parent's.        *)
CloseAll ==
    /\ fd_items' = [i \in FileSlots |-> Closed(fd_items[i])]
    /\ delivered' = [i \in FileSlots |-> <<>>]

-----------------------------------------------------------------------------
(* execute, halt.  (The slot that parse_command reads the first four bytes *)
(* through is one of the child's; open resets it.)                         *)

(* What execute can run a line as: the inode, or none.                     *)
Programs_Any(line) ==   \* mutant: without looking at the first four bytes
    {i \in DOMAIN Inodes : \E e \in DOMAIN Dentries :
        Dentries[e].fname \in ExecNames(line) /\ Dentries[e].inode = i}

Programs(line) ==
    {i \in Executables : \E e \in DOMAIN Dentries :
        Dentries[e].fname \in ExecNames(line) /\ Dentries[e].inode = i}

MayFail(line) ==
    \E fname \in ExecNames(line) :
        \A e \in DentryNamed(fname) : Dentries[e].inode \notin Executables

Execute(line) ==
    /\ child = NoCommand
    /\ \E inode \in Programs(line) :
           child' = [line |-> line, inode |-> inode, argument_buf |-> Argument(line)]
    /\ UNCHANGED <<fd_items, delivered>>

ExecuteFails(line) ==
    /\ child = NoCommand
    /\ MayFail(line)
    /\ CloseAll
    /\ UNCHANGED child

Halt ==
    /\ child # NoCommand
    /\ CloseAll
    /\ child' = NoCommand

CommandLines == Texts(Letters \cup {Space}, MaxLine)

FsNext ==
    \/ Open \/ Read \/ Close \/ Halt
    \/ \E line \in CommandLines : Execute(line) \/ ExecuteFails(line)

FsSpec == FsInit /\ [][FsNext]_fsvars

-----------------------------------------------------------------------------
(* Properties.                                                             *)

FsTypeOK ==
    /\ fd_items \in [FileSlots ->
           [type : {"none", "rtc", "dir", "file"}, inode : DOMAIN Inodes,
            file_position : Nat, active : BOOLEAN]]
    /\ child.inode \in Executables \cup {-1}

Readable(i) == Active(i) /\ fd_items[i].type \in {"file", "dir"}

Size(item) == IF item.type = "file" THEN Inodes[item.inode].len ELSE Len(Dentries)

(* All a slot can deliver: a file's bytes and the byte of the image that   *)
(* follows the last one, a directory's entries.                            *)
Offered(item) ==
    IF item.type = "file"
    THEN [k \in 1 .. Size(item) + 1 |-> ByteAt(item.inode, k - 1)]
    ELSE [k \in 1 .. Size(item) |-> Dentries[k].fname]

(* Whatever a program reads, in pieces of any size and interleaved with    *)
(* other descriptors (of the same file, too), is what the file holds from  *)
(* its beginning on, each byte and each entry once and in order, with at   *)
(* most one byte more at the end; a descriptor starts at the beginning     *)
(* whoever used its slot before.                                           *)
DeliveredInOrder ==
    \A i \in FileSlots : Readable(i) =>
        /\ Len(delivered[i]) <= Len(Offered(fd_items[i]))
        /\ delivered[i] = SubSeq(Offered(fd_items[i]), 1, Len(delivered[i]))

(* Programs (cat, ls, grep) read until a read returns 0: by then they have *)
(* everything.                                                             *)
EndIsTheEnd ==
    \A i \in FileSlots, nbytes \in ReadSizes :
        Readable(i) /\ Result(fd_items[i], nbytes) = <<>> =>
            Len(delivered[i]) >= Size(fd_items[i])

(* execute runs the program its line begins with, and a line that begins   *)
(* with the name of a program is not refused. (Without leading spaces: see *)
(* ExecNames.)                                                             *)
Named(line) ==
    {Dentries[e].inode : e \in DentryNamed(Word(line, 1))} \cap Executables

CommandsObeyed ==
    IF child = NoCommand
    THEN \A line \in CommandLines :
            line # <<>> /\ line[1] # Space /\ MayFail(line) => Named(line) = {}
    ELSE child.line[1] # Space => Named(child.line) = {child.inode}

(* parse_command leaves in argument_buf, for getargs, the second word of   *)
(* the line, however many spaces there are before, between and behind.     *)
ArgumentIsSecondWord ==
    child # NoCommand => child.argument_buf = Word(child.line, 2)

-----------------------------------------------------------------------------
(* What a comment says and the code does not do.                           *)

(* read_data loops "through number of bytes asked for (or until all data   *)
(* read)": what is delivered of a file is not longer than the file.        *)
NothingBeyondTheEnd ==
    \A i \in FileSlots : Readable(i) => Len(delivered[i]) <= Size(fd_items[i])

=============================================================================
