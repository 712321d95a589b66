-------------------------- MODULE FileSystemProofs --------------------------
(***************************************************************************)
(* Theorems about FileSystem, for any image, any number of descriptors and *)
(* reads of any sizes: what programs get through their descriptors, and    *)
(* the argument they are given.                                            *)
(***************************************************************************)
EXTENDS FileSystem, TLAPS, WellFoundedInduction, FiniteSetTheorems

Items == [type : {"none", "rtc", "dir", "file"}, inode : DOMAIN Inodes,
          file_position : Nat, active : BOOLEAN]

(* The beginning of what a slot offers.                                    *)
Beginning(item) == [k \in 1 .. item.file_position |-> Offered(item)[k]]

(* A slot stands behind what it delivered.                                 *)
PositionCounts ==
    \A i \in FileSlots : Readable(i) =>
        /\ fd_items[i].file_position <= Len(Offered(fd_items[i]))
        /\ delivered[i] = Beginning(fd_items[i])

(* What is open is an entry of the directory: it has a type.               *)
ActiveHasType == \A i \in FileSlots : Active(i) => fd_items[i].type # "none"

FilesInv ==
    /\ FsTypeOK
    /\ DOMAIN delivered = FileSlots
    /\ ActiveHasType
    /\ PositionCounts

-----------------------------------------------------------------------------
(* The image.                                                              *)

LEMMA ImageFacts ==
    /\ BlockSize \in Nat \ {0}
    /\ 0 \in DOMAIN Inodes
    /\ \A f \in DOMAIN Inodes : Inodes[f].len \in Nat
    /\ Len(Dentries) \in Nat
    /\ DOMAIN Dentries = 1 .. Len(Dentries)
    /\ Executables \subseteq DOMAIN Inodes
    /\ \A e \in DOMAIN Dentries :
          /\ Dentries[e].type \in {"rtc", "dir", "file"}
          /\ Dentries[e].inode \in DOMAIN Inodes
    /\ ReadSizes \subseteq Nat \ {0}
    /\ Leftovers \subseteq Nat
  BY ImageAssumption

LEMMA SmallerOf ==
    ASSUME NEW a \in Int, NEW b \in Int
    PROVE  /\ Min({a, b}) = IF a <= b THEN a ELSE b
           /\ Max({a, b}) = IF a >= b THEN a ELSE b
<1>1. PICK low \in {a, b} : \A y \in {a, b} : low <= y
  OBVIOUS
<1>2. PICK high \in {a, b} : \A y \in {a, b} : high >= y
  OBVIOUS
<1> QED
  BY <1>1, <1>2 DEF Min, Max

(* read_data returns what is asked for, up to one byte past the last one.  *)
LEMMA ReadCounts ==
    ASSUME NEW f \in DOMAIN Inodes, NEW offset \in Nat, NEW nbytes \in Nat
    PROVE  LET n == ReadCount(f, offset, nbytes)
               left == Inodes[f].len + 1 - offset
           IN /\ n \in Nat
              /\ n <= nbytes
              /\ offset <= Inodes[f].len + 1 => n <= left
              /\ n = 0 /\ nbytes > 0 => left <= 0
<1> DEFINE left == Inodes[f].len + 1 - offset
<1>1. Inodes[f].len \in Nat
  BY ImageFacts
<1>2. WhenToStop(f, offset) + 1 = left /\ left \in Int
  BY <1>1 DEF WhenToStop
<1> HIDE DEF left
<1>3. Max({0, left}) = IF 0 >= left THEN 0 ELSE left
  <2>1. 0 \in Int /\ left \in Int
    BY <1>2
  <2> QED
    BY <2>1, SmallerOf, Zenon
<1>4. PICK m \in Int : m = Max({0, left})
  BY <1>2, <1>3
<1>5. ReadCount(f, offset, nbytes) = IF nbytes <= m THEN nbytes ELSE m
  <2>1. Min({nbytes, m}) = IF nbytes <= m THEN nbytes ELSE m
    BY <1>4, SmallerOf
  <2> QED
    BY <1>2, <1>4, <2>1 DEF ReadCount
<1>6. m = IF 0 >= left THEN 0 ELSE left
  BY <1>3, <1>4
<1>7. offset <= Inodes[f].len + 1 <=> left >= 0
  BY <1>1 DEF left
<1> QED
  BY <1>2, <1>5, <1>6, <1>7 DEF left

-----------------------------------------------------------------------------
(* What reads deliver.                                                     *)

IsReadable(item) == item.active /\ item.type \in {"file", "dir"}

LEMMA OfferedIsSeq ==
    ASSUME NEW item \in Items
    PROVE  /\ Len(Offered(item)) \in Nat
           /\ DOMAIN Offered(item) = 1 .. Len(Offered(item))
           /\ item.type = "file" =>
                /\ Len(Offered(item)) = Inodes[item.inode].len + 1
                /\ \A k \in 1 .. Len(Offered(item)) :
                      Offered(item)[k] = ByteAt(item.inode, k - 1)
           /\ item.type # "file" =>
                /\ Len(Offered(item)) = Len(Dentries)
                /\ \A k \in 1 .. Len(Offered(item)) :
                      Offered(item)[k] = Dentries[k].fname
<1>1. item.inode \in DOMAIN Inodes
  BY DEF Items
<1>2. Inodes[item.inode].len \in Nat /\ Len(Dentries) \in Nat
  BY <1>1, ImageFacts
<1>3. CASE item.type = "file"
  <2>1. Offered(item) =
          [k \in 1 .. Inodes[item.inode].len + 1 |-> ByteAt(item.inode, k - 1)]
    BY <1>3 DEF Offered, Size
  <2> QED
    BY <1>2, <1>3, <2>1
<1>4. CASE item.type # "file"
  <2>1. Offered(item) = [k \in 1 .. Len(Dentries) |-> Dentries[k].fname]
    BY <1>4 DEF Offered, Size
  <2> QED
    BY <1>2, <1>4, <2>1
<1> QED
  BY <1>3, <1>4

(* A read returns what follows the position in what the slot offers, and   *)
(* stays within it.                                                        *)
LEMMA ReadResultIsNext ==
    ASSUME NEW item \in Items, IsReadable(item), NEW nbytes \in ReadSizes,
           item.file_position <= Len(Offered(item))
    PROVE  LET result == Result(item, nbytes)
               from == item.file_position
           IN /\ Len(result) \in Nat
              /\ from + Len(result) <= Len(Offered(item))
              /\ result = [k \in 1 .. Len(result) |-> Offered(item)[from + k]]
              /\ result = <<>> => from >= Size(item)
<1> DEFINE result == Result(item, nbytes)
           from == item.file_position
<1>1. /\ from \in Nat /\ item.inode \in DOMAIN Inodes
      /\ nbytes \in Nat /\ nbytes > 0
  BY ImageFacts DEF Items
<1>2. Inodes[item.inode].len \in Nat /\ Len(Dentries) \in Nat
  BY <1>1, ImageFacts
<1>3. CASE item.type = "file"
  <2> DEFINE n == ReadCount(item.inode, from, nbytes)
  <2>1. result = [k \in 1 .. n |-> ByteAt(item.inode, from + k - 1)]
    BY <1>3 DEF Result, ReadData
  <2>2. Len(Offered(item)) = Inodes[item.inode].len + 1
    BY <1>3, OfferedIsSeq
  <2>3. /\ n \in Nat /\ from + n <= Len(Offered(item))
        /\ n = 0 => from >= Inodes[item.inode].len
    <3>1. from <= Inodes[item.inode].len + 1
      BY <2>2
    <3>2. /\ n \in Nat /\ n <= Inodes[item.inode].len + 1 - from
          /\ n = 0 => Inodes[item.inode].len + 1 - from <= 0
      BY <1>1, <3>1, ReadCounts
    <3> HIDE DEF n, from
    <3> QED
      BY <1>1, <1>2, <2>2, <3>2
  <2> HIDE DEF n, result, from
  <2>4. Len(result) = n
    BY <2>1, <2>3
  <2>5. \A k \in 1 .. n :
          /\ from + k \in 1 .. Len(Offered(item))
          /\ (from + k) - 1 = from + k - 1
    BY <1>1, <2>3, OfferedIsSeq
  <2>6. \A k \in 1 .. n : Offered(item)[from + k] = ByteAt(item.inode, from + k - 1)
    BY <1>3, <2>5, OfferedIsSeq
  <2>7. result = [k \in 1 .. n |-> Offered(item)[from + k]]
    BY <2>1, <2>6
  <2>8. result = <<>> => n = 0
    BY <2>4
  <2>9. Size(item) = Inodes[item.inode].len
    BY <1>3 DEF Size
  <2> QED
    BY <2>3, <2>4, <2>7, <2>8, <2>9 DEF result, from
<1>4. CASE item.type = "dir"
  <2>1. result = IF from < Len(Dentries) THEN <<Dentries[from + 1].fname>> ELSE <<>>
    BY <1>4 DEF Result, DirRead, HasDentry
  <2>2. /\ Len(Offered(item)) = Len(Dentries)
        /\ \A k \in 1 .. Len(Dentries) : Offered(item)[k] = Dentries[k].fname
        /\ Size(item) = Len(Dentries)
    BY <1>4, OfferedIsSeq DEF Size
  <2>3. from <= Len(Offered(item))
    OBVIOUS
  <2> HIDE DEF result, from
  <2>4. CASE from < Len(Dentries)
    <3>1. result = <<Dentries[from + 1].fname>> /\ from + 1 \in 1 .. Len(Dentries)
      BY <1>1, <1>2, <2>1, <2>4
    <3>2. result = <<Offered(item)[from + 1]>> /\ Len(result) = 1
      BY <2>2, <3>1
    <3>3. result = [k \in 1 .. 1 |-> Offered(item)[from + k]]
      BY <3>2
    <3>4. from + 1 <= Len(Offered(item)) /\ result # <<>>
      BY <1>1, <1>2, <2>2, <2>4, <3>2
    <3> QED
      BY <3>2, <3>3, <3>4 DEF result, from
  <2>5. CASE ~ (from < Len(Dentries))
    <3>1. result = <<>> /\ from >= Len(Dentries)
      BY <1>1, <1>2, <2>1, <2>5
    <3>2. Len(result) = 0 /\ result = [k \in 1 .. 0 |-> Offered(item)[from + k]]
      BY <3>1
    <3> QED
      BY <1>1, <2>2, <2>3, <3>1, <3>2 DEF result, from
  <2> QED
    BY <2>4, <2>5
<1> QED
  BY <1>3, <1>4 DEF IsReadable

(* The slot moves on by what it delivered.                                 *)
LEMMA ReadKeepsBeginning ==
    ASSUME NEW item \in Items, IsReadable(item), NEW nbytes \in ReadSizes,
           item.file_position <= Len(Offered(item))
    PROVE  LET result == Result(item, nbytes)
               moved == [item EXCEPT !.file_position = @ + Len(result)]
           IN /\ moved \in Items
              /\ moved.file_position <= Len(Offered(moved))
              /\ Beginning(item) \o result = Beginning(moved)
<1> DEFINE result == Result(item, nbytes)
           from == item.file_position
           moved == [item EXCEPT !.file_position = from + Len(result)]
<1>1. /\ Len(result) \in Nat
      /\ from + Len(result) <= Len(Offered(item))
      /\ result = [k \in 1 .. Len(result) |-> Offered(item)[from + k]]
  BY ReadResultIsNext
<1>2. from \in Nat
  BY DEF Items
<1> HIDE DEF result
<1>3. moved \in Items /\ moved.file_position = from + Len(result)
      /\ moved.type = item.type /\ moved.inode = item.inode
  BY <1>1, <1>2 DEF Items
<1> HIDE DEF moved
<1>4. Offered(moved) = Offered(item)
  BY <1>3 DEF Offered, Size
<1> DEFINE O == Offered(item)
           n == Len(result)
<1>5. Beginning(item) = [k \in 1 .. from |-> O[k]]
  BY DEF Beginning
<1>6. Beginning(moved) = [k \in 1 .. from + n |-> O[k]]
  BY <1>3, <1>4 DEF Beginning
<1>7. result = [k \in 1 .. n |-> O[from + k]]
  BY <1>1
<1>8. n \in Nat
  BY <1>1
<1> HIDE DEF O, n, from
<1>9. [k \in 1 .. from |-> O[k]] \o [k \in 1 .. n |-> O[from + k]] =
        [k \in 1 .. from + n |-> O[k]]
  BY <1>2, <1>8
<1> QED
  BY <1>1, <1>3, <1>4, <1>5, <1>6, <1>7, <1>9 DEF result, moved, from

-----------------------------------------------------------------------------
(* The steps.                                                              *)

LEMMA FilesStart == FsInit => FilesInv
<1> SUFFICES ASSUME FsInit PROVE FilesInv
  OBVIOUS
<1>1. PICK left \in [FileSlots -> Leftovers] :
         fd_items = [i \in FileSlots |-> UnusedSlot(left[i])]
  BY DEF FsInit
<1>2. \A i \in FileSlots : UnusedSlot(left[i]) \in Items /\ ~ UnusedSlot(left[i]).active
  BY ImageFacts DEF UnusedSlot, Items
<1>3. fd_items \in [FileSlots -> Items] /\ \A i \in FileSlots : ~ Active(i)
  BY <1>1, <1>2 DEF Active
<1>4. child.inode = -1
  BY DEF FsInit, NoCommand
<1>5. FsTypeOK
  BY <1>3, <1>4 DEF FsTypeOK, Items
<1>6. PositionCounts /\ ActiveHasType
  BY <1>3 DEF PositionCounts, Readable, ActiveHasType
<1> QED
  BY <1>5, <1>6 DEF FilesInv, FsInit

(* What a step leaves alone stays right: a slot that changes has to count  *)
(* what it delivered.                                                      *)
LEMMA SlotChange ==
    ASSUME FilesInv, NEW i \in FileSlots, NEW item \in Items, NEW d,
           fd_items' = [fd_items EXCEPT ![i] = item],
           delivered' = [delivered EXCEPT ![i] = d],
           child' = child,
           item.active => item.type # "none",
           IsReadable(item) => /\ item.file_position <= Len(Offered(item))
                               /\ d = Beginning(item)
    PROVE  FilesInv'
<1>1. /\ fd_items \in [FileSlots -> Items] /\ DOMAIN delivered = FileSlots
      /\ child.inode \in Executables \cup {-1}
  BY DEF FilesInv, FsTypeOK, Items
<1>2. fd_items' \in [FileSlots -> Items] /\ DOMAIN delivered' = FileSlots
  BY <1>1
<1>3. /\ fd_items'[i] = item /\ delivered'[i] = d
      /\ \A j \in FileSlots \ {i} : /\ fd_items'[j] = fd_items[j]
                                   /\ delivered'[j] = delivered[j]
  BY <1>1
<1>4. \A j \in FileSlots : IsReadable(fd_items[j]) =>
        /\ fd_items[j].file_position <= Len(Offered(fd_items[j]))
        /\ delivered[j] = Beginning(fd_items[j])
  BY DEF FilesInv, PositionCounts, Readable, Active, IsReadable
<1>5. ASSUME NEW j \in FileSlots, IsReadable(fd_items'[j])
      PROVE  /\ fd_items'[j].file_position <= Len(Offered(fd_items'[j]))
             /\ delivered'[j] = Beginning(fd_items'[j])
  <2>1. CASE j = i
    BY <1>3, <1>5, <2>1
  <2>2. CASE j # i
    BY <1>3, <1>4, <1>5, <2>2
  <2> QED
    BY <2>1, <2>2
<1>6. PositionCounts'
  BY <1>5 DEF PositionCounts, Readable, Active, IsReadable, Offered, Size, Beginning, ByteAt
<1>7. FsTypeOK'
  BY <1>1, <1>2 DEF FsTypeOK, Items
<1>8. ActiveHasType'
  BY <1>3 DEF FilesInv, ActiveHasType, Active
<1> QED
  BY <1>2, <1>6, <1>7, <1>8 DEF FilesInv

LEMMA OpenStep ==
    ASSUME FilesInv, Open
    PROVE  FilesInv'
<1>1. PICK e \in DOMAIN Dentries, i \in FileSlots :
        /\ fd_items' = [fd_items EXCEPT ![i] = NewItem(i, Dentries[e])]
        /\ delivered' = [delivered EXCEPT ![i] = <<>>]
        /\ child' = child
  BY DEF Open
<1> DEFINE item == NewItem(i, Dentries[e])
<1>2. item \in Items /\ item.file_position = 0 /\ item.type # "none"
  BY ImageFacts DEF NewItem, Items
<1> HIDE DEF item
<1>3. 0 <= Len(Offered(item)) /\ Beginning(item) = <<>>
  BY <1>2, OfferedIsSeq DEF Beginning
<1> QED
  BY <1>1, <1>2, <1>3, SlotChange DEF item

LEMMA ReadStep ==
    ASSUME FilesInv, Read
    PROVE  FilesInv'
<1>1. PICK i \in FileSlots, nbytes \in ReadSizes :
        /\ Active(i)
        /\ fd_items[i].type # "rtc"
        /\ LET result == Result(fd_items[i], nbytes) IN
              /\ fd_items' = [fd_items EXCEPT ![i].file_position = @ + Len(result)]
              /\ delivered' = [delivered EXCEPT ![i] = @ \o result]
        /\ child' = child
  BY DEF Read
<1> DEFINE item == fd_items[i]
           result == Result(item, nbytes)
           moved == [item EXCEPT !.file_position = @ + Len(result)]
<1>2. fd_items \in [FileSlots -> Items] /\ DOMAIN delivered = FileSlots
  BY DEF FilesInv, FsTypeOK, Items
<1>3. IsReadable(item)
  <2>1. item.active /\ item.type # "none" /\ item.type # "rtc"
    BY <1>1 DEF FilesInv, ActiveHasType, Active
  <2> QED
    BY <1>2, <2>1 DEF Items, IsReadable
<1>4. QED
  <2>1. /\ item \in Items
        /\ item.file_position <= Len(Offered(item))
        /\ delivered[i] = Beginning(item)
    BY <1>2, <1>3 DEF FilesInv, PositionCounts, Readable, Active, IsReadable
  <2>2. /\ moved \in Items
        /\ moved.file_position <= Len(Offered(moved))
        /\ Beginning(item) \o result = Beginning(moved)
    BY <1>3, <2>1, ReadKeepsBeginning
  <2>3. /\ fd_items' = [fd_items EXCEPT ![i] = moved]
        /\ delivered' = [delivered EXCEPT ![i] = Beginning(item) \o result]
    BY <1>1, <1>2, <2>1
  <2>4. moved.type # "none"
    BY <1>3, <2>1 DEF IsReadable, Items
  <2> HIDE DEF item, result, moved
  <2> QED
    BY <1>1, <2>2, <2>3, <2>4, SlotChange

LEMMA ClosedItem ==
    ASSUME NEW item \in Items
    PROVE  Closed(item) \in Items /\ ~ Closed(item).active
BY ImageFacts DEF Closed, Items

LEMMA CloseStep ==
    ASSUME FilesInv, Close
    PROVE  FilesInv'
<1>1. PICK i \in FileSlots :
        /\ fd_items' = [fd_items EXCEPT ![i] = Closed(@)]
        /\ delivered' = [delivered EXCEPT ![i] = <<>>]
        /\ child' = child
  BY DEF Close
<1>2. fd_items \in [FileSlots -> Items]
  BY DEF FilesInv, FsTypeOK, Items
<1> DEFINE item == Closed(fd_items[i])
<1>3. item \in Items /\ ~ item.active
  BY <1>2, ClosedItem
<1>4. fd_items' = [fd_items EXCEPT ![i] = item]
  BY <1>1
<1> HIDE DEF item
<1> QED
  BY <1>1, <1>3, <1>4, SlotChange DEF IsReadable

LEMMA CloseAllStep ==
    ASSUME FilesInv, CloseAll, child'.inode \in Executables \cup {-1}
    PROVE  FilesInv'
<1>1. fd_items \in [FileSlots -> Items]
  BY DEF FilesInv, FsTypeOK, Items
<1>2. /\ fd_items' = [i \in FileSlots |-> Closed(fd_items[i])]
      /\ DOMAIN delivered' = FileSlots
  BY DEF CloseAll
<1>3. \A i \in FileSlots : fd_items'[i] \in Items /\ ~ fd_items'[i].active
  BY <1>1, <1>2, ClosedItem
<1>4. fd_items' \in [FileSlots -> Items]
  BY <1>2, <1>3
<1>5. FsTypeOK'
  BY <1>4 DEF FsTypeOK, Items
<1>6. ActiveHasType' /\ PositionCounts'
  BY <1>3 DEF ActiveHasType, PositionCounts, Readable, Active
<1> QED
  BY <1>2, <1>5, <1>6 DEF FilesInv

LEMMA OnlyCommandChanges ==
    ASSUME FilesInv, fd_items' = fd_items, delivered' = delivered,
           child'.inode \in Executables \cup {-1}
    PROVE  FilesInv'
<1>1. FsTypeOK' /\ DOMAIN delivered' = FileSlots
  BY DEF FilesInv, FsTypeOK
<1>2. ActiveHasType'
  BY DEF FilesInv, ActiveHasType, Active
<1>3. \A j \in FileSlots : IsReadable(fd_items[j]) =>
        /\ fd_items[j].file_position <= Len(Offered(fd_items[j]))
        /\ delivered[j] = Beginning(fd_items[j])
  BY DEF FilesInv, PositionCounts, Readable, Active, IsReadable
<1>4. \A j \in FileSlots : IsReadable(fd_items'[j]) =>
        /\ fd_items'[j].file_position <= Len(Offered(fd_items'[j]))
        /\ delivered'[j] = Beginning(fd_items'[j])
  BY <1>3
<1>5. PositionCounts'
  BY <1>4 DEF PositionCounts, Readable, Active, IsReadable, Offered, Size, Beginning, ByteAt
<1> QED
  BY <1>1, <1>2, <1>5 DEF FilesInv

LEMMA FilesSteps == FilesInv /\ [FsNext]_fsvars => FilesInv'
<1> SUFFICES ASSUME FilesInv, [FsNext]_fsvars PROVE FilesInv'
  OBVIOUS
<1>0. child.inode \in Executables \cup {-1}
  BY DEF FilesInv, FsTypeOK
<1>1. CASE Open
  BY <1>1, OpenStep
<1>2. CASE Read
  BY <1>2, ReadStep
<1>3. CASE Close
  BY <1>3, CloseStep
<1>4. CASE Halt
  <2>1. CloseAll /\ child'.inode = -1
    BY <1>4 DEF Halt, NoCommand
  <2> QED
    BY <2>1, CloseAllStep
<1>5. ASSUME NEW line \in CommandLines, Execute(line) PROVE FilesInv'
  <2>1. PICK inode \in Programs(line) : child'.inode = inode
    BY <1>5 DEF Execute
  <2>2. child'.inode \in Executables
    BY <2>1 DEF Programs
  <2> QED
    BY <1>5, <2>2, OnlyCommandChanges DEF Execute
<1>6. ASSUME NEW line \in CommandLines, ExecuteFails(line) PROVE FilesInv'
  BY <1>0, <1>6, CloseAllStep DEF ExecuteFails
<1>7. CASE UNCHANGED fsvars
  BY <1>0, <1>7, OnlyCommandChanges DEF fsvars
<1> QED
  BY <1>1, <1>2, <1>3, <1>4, <1>5, <1>6, <1>7 DEF FsNext

LEMMA FilesAlways == FsSpec => []FilesInv
BY FilesStart, FilesSteps, PTL DEF FsSpec

(* Slots have one of the types of directory entries and an inode of the    *)
(* image, also those that are closed, and the command that runs is a       *)
(* program of the image (open, close, file_read and execute).              *)
THEOREM FsTyping == FsSpec => []FsTypeOK
<1>1. FilesInv => FsTypeOK
  BY DEF FilesInv
<1> QED
  BY <1>1, FilesAlways, PTL

(* What a program got through a descriptor is the beginning of its file or *)
(* directory: nothing twice, nothing left out, whatever sizes it reads in, *)
(* whatever else is open and whoever had the slot before (read_data,       *)
(* dir_read, open).                                                        *)
THEOREM ReadsInOrder == FsSpec => []DeliveredInOrder
<1>1. FilesInv => DeliveredInOrder
  <2> SUFFICES ASSUME FilesInv, NEW i \in FileSlots, Readable(i)
               PROVE  /\ Len(delivered[i]) <= Len(Offered(fd_items[i]))
                      /\ delivered[i] = SubSeq(Offered(fd_items[i]), 1, Len(delivered[i]))
    BY DEF DeliveredInOrder
  <2> DEFINE item == fd_items[i]
             p == item.file_position
  <2>1. item \in Items
    BY DEF FilesInv, FsTypeOK, Items
  <2>2. /\ p <= Len(Offered(item))
        /\ delivered[i] = [k \in 1 .. p |-> Offered(item)[k]]
    BY DEF FilesInv, PositionCounts, Beginning
  <2>3. p \in Nat
    BY <2>1 DEF Items
  <2>4. Len(Offered(item)) \in Nat
    BY <2>1, OfferedIsSeq
  <2> DEFINE O == Offered(item)
  <2> HIDE DEF O, p, item
  <2>5. Len(delivered[i]) = p
    BY <2>2, <2>3
  <2>6. SubSeq(O, 1, p) = [k \in 1 .. p |-> O[k]]
    BY <2>3
  <2> QED
    BY <2>2, <2>5, <2>6 DEF O, item
<1> QED
  BY <1>1, FilesAlways, PTL

(* A program that reads until a read returns 0 has the whole file or       *)
(* directory then (read_data, dir_read).                                   *)
THEOREM EndOfFileIsTheEnd == FsSpec => []EndIsTheEnd
<1>1. FilesInv => EndIsTheEnd
  <2> SUFFICES ASSUME FilesInv, NEW i \in FileSlots, NEW nbytes \in ReadSizes,
                      Readable(i), Result(fd_items[i], nbytes) = <<>>
               PROVE  Len(delivered[i]) >= Size(fd_items[i])
    BY DEF EndIsTheEnd
  <2> DEFINE item == fd_items[i]
             p == item.file_position
  <2>1. item \in Items /\ p \in Nat
    BY DEF FilesInv, FsTypeOK, Items
  <2>2. /\ p <= Len(Offered(item))
        /\ delivered[i] = [k \in 1 .. p |-> Offered(item)[k]]
    BY DEF FilesInv, PositionCounts, Beginning
  <2>3. IsReadable(item)
    BY DEF Readable, Active, IsReadable
  <2>4. p >= Size(item)
    BY <2>1, <2>2, <2>3, ReadResultIsNext
  <2> HIDE DEF p
  <2>5. Len(delivered[i]) = p
    BY <2>1, <2>2
  <2> QED
    BY <2>4, <2>5
<1> QED
  BY <1>1, FilesAlways, PTL

-----------------------------------------------------------------------------
(* Command lines.                                                          *)

LEMMA LeastNumber ==
    ASSUME NEW S, S \subseteq Nat, S # {}
    PROVE  Min(S) \in S /\ \A n \in S : Min(S) <= n
<1> DEFINE Less == OpToRel(<, Nat)
<1>1. IsWellFoundedOn(Less, Nat)
  BY NatLessThanWellFounded
<1>2. \A m, n \in Nat : m < n => <<m, n>> \in Less
  BY DEF OpToRel
<1> HIDE DEF Less
<1>3. PICK least \in S : \A n \in S : ~ (<<n, least>> \in Less)
  BY <1>1, WFMin
<1>4. \A n \in S : ~ (n < least)
  BY <1>2, <1>3
<1>5. \A n \in S : least <= n
  BY <1>4
<1> QED
  BY <1>5 DEF Min

(* Where a loop of parse_command finds its word and where it stops.        *)
LEMMA LoopBounds ==
    ASSUME NEW line, Len(line) \in Nat,
           NEW start \in Nat, 1 <= start, start <= Len(line) + 1
    PROVE  LET first == WordStart(line, start)
               stop == LoopEnd(line, start)
           IN /\ first \in start .. Len(line) + 1
              /\ stop \in first .. Len(line) + 1
              /\ \A i \in start .. first - 1 : line[i] = Space
              /\ \A i \in first .. stop - 1 : line[i] # Space
              /\ first <= Len(line) => first < stop
              /\ stop <= Len(line) => line[stop] = Space
<1> DEFINE n == Len(line)
           first == WordStart(line, start)
           stop == LoopEnd(line, start)
           Solid == {n + 1} \cup {i \in start .. n : line[i] # Space}
           Blanks == {n + 1} \cup {i \in first .. n : line[i] = Space}
<1>1. first \in Solid /\ \A i \in Solid : first <= i
  <2>1. Solid \subseteq Nat /\ Solid # {}
    OBVIOUS
  <2>2. first = Min(Solid)
    BY DEF WordStart
  <2> HIDE DEF Solid, first
  <2> QED
    BY <2>1, <2>2, LeastNumber
<1>2. first \in start .. n + 1 /\ first \in Nat
  BY <1>1
<1>3. stop \in Blanks /\ \A i \in Blanks : stop <= i
  <2>1. stop = Min(Blanks)
    BY DEF LoopEnd
  <2> HIDE DEF first
  <2>2. Blanks \subseteq Nat /\ Blanks # {}
    BY <1>2
  <2> HIDE DEF Blanks, stop
  <2> QED
    BY <2>1, <2>2, LeastNumber
<1> HIDE DEF first, stop
<1>4. \A i \in start .. first - 1 : line[i] = Space
  BY <1>1, <1>2
<1>5. stop \in first .. n + 1
  BY <1>2, <1>3
<1>6. first <= n => line[first] # Space
  BY <1>1, <1>2
<1>7. \A i \in first .. stop - 1 : line[i] # Space
  BY <1>1, <1>2, <1>3, <1>5
<1>8. stop <= n => line[stop] = Space
  BY <1>3, <1>5
<1>9. first <= n => first < stop
  BY <1>2, <1>5, <1>6, <1>8
<1> QED
  BY <1>2, <1>4, <1>5, <1>7, <1>8, <1>9 DEF first, stop

(* Two words are the same or one lies behind the other.                    *)
LEMMA WordsAreApart ==
    ASSUME NEW line, Len(line) \in Nat, NEW v \in Words(line), NEW w \in Words(line)
    PROVE  /\ v[1] \in 1 .. Len(line) /\ v[2] \in v[1] .. Len(line)
           /\ v = <<v[1], v[2]>>
           /\ v[1] = w[1] => v = w
           /\ v[1] < w[1] => v[2] + 1 < w[1]
<1>1. \A x \in Words(line) :
        /\ x[1] \in 1 .. Len(line) /\ x[2] \in 1 .. Len(line)
        /\ x = <<x[1], x[2]>>
        /\ x[1] <= x[2]
        /\ \A i \in x[1] .. x[2] : line[i] # Space
        /\ x[1] = 1 \/ line[x[1] - 1] = Space
        /\ x[2] = Len(line) \/ line[x[2] + 1] = Space
  BY DEF Words
<1>2. ASSUME NEW x \in Words(line), NEW y \in Words(line), x[1] = y[1]
      PROVE  ~ (x[2] < y[2])
  <2> SUFFICES ASSUME x[2] < y[2] PROVE FALSE
    OBVIOUS
  <2>1. x[2] + 1 \in y[1] .. y[2] /\ x[2] # Len(line)
    BY <1>1, <1>2
  <2> QED
    BY <1>1, <2>1
<1>3. v[1] = w[1] => v = w
  <2> SUFFICES ASSUME v[1] = w[1] PROVE v = w
    OBVIOUS
  <2>1. v[2] = w[2]
    BY <1>1, <1>2
  <2> QED
    BY <1>1, <2>1
<1>4. ASSUME v[1] < w[1] PROVE v[2] + 1 < w[1]
  <2> SUFFICES ASSUME ~ (v[2] + 1 < w[1]) PROVE FALSE
    OBVIOUS
  <2>1. line[w[1] - 1] = Space
    BY <1>1, <1>4
  <2>2. line[w[1]] # Space
    BY <1>1
  <2>3. CASE w[1] - 1 <= v[2]
    <3>1. w[1] - 1 \in v[1] .. v[2]
      BY <1>1, <1>4, <2>3
    <3> QED
      BY <1>1, <2>1, <3>1
  <2>4. CASE v[2] < w[1] - 1
    BY <1>1, <2>4
  <2> QED
    BY <1>1, <2>3, <2>4
<1> QED
  BY <1>1, <1>3, <1>4

LEMMA FinitelyManyWords ==
    ASSUME NEW line, Len(line) \in Nat
    PROVE  IsFiniteSet(Words(line))
<1>1. IsFiniteSet(1 .. Len(line))
  BY FS_Interval
<1>2. IsFiniteSet((1 .. Len(line)) \X (1 .. Len(line)))
  BY <1>1, FS_Product
<1> QED
  BY <1>2, FS_Subset DEF Words

Upto(line, w) == {v \in Words(line) : v[1] <= w[1]}

LEMMA CountUpto ==
    ASSUME NEW line, Len(line) \in Nat, NEW w \in Words(line), NEW T,
           T \subseteq Upto(line, w)
    PROVE  /\ IsFiniteSet(T)
           /\ Cardinality(T) \in Nat
           /\ Cardinality(Upto(line, w)) \in Nat
           /\ Cardinality(T) <= Cardinality(Upto(line, w))
<1>1. IsFiniteSet(Upto(line, w))
  <2>1. Upto(line, w) \in SUBSET Words(line)
    BY DEF Upto
  <2> QED
    BY <2>1, FinitelyManyWords, FS_Subset
<1> QED
  BY <1>1, FS_Subset, FS_CardinalityType

LEMMA Pairs ==
    ASSUME NEW a, NEW b, a # b
    PROVE  IsFiniteSet({a, b}) /\ Cardinality({a, b}) = 2
<1>1. IsFiniteSet({a}) /\ Cardinality({a}) = 1
  BY FS_Singleton
<1>2. b \notin {a}
  OBVIOUS
<1>3. IsFiniteSet({a} \cup {b}) /\ Cardinality({a} \cup {b}) = 2
  BY <1>1, <1>2, FS_AddElement
<1>4. {a, b} = {a} \cup {b}
  OBVIOUS
<1> QED
  BY <1>3, <1>4

LEMMA Triples ==
    ASSUME NEW a, NEW b, NEW c, a # b, a # c, b # c
    PROVE  Cardinality({a, b, c}) = 3
<1>1. IsFiniteSet({a, b}) /\ Cardinality({a, b}) = 2
  BY Pairs
<1>2. c \notin {a, b}
  OBVIOUS
<1>3. Cardinality({a, b} \cup {c}) = 3
  BY <1>1, <1>2, FS_AddElement
<1>4. {a, b, c} = {a, b} \cup {c}
  OBVIOUS
<1> QED
  BY <1>3, <1>4

(* Where the loops stop is where the words are.                            *)
LEMMA LoopsFindWords ==
    ASSUME NEW line, Len(line) \in Nat
    PROVE  LET first == WordStart(line, 1)
               stop == LoopEnd(line, 1)
               second == WordStart(line, stop)
               last == LoopEnd(line, stop)
           IN /\ first \in 1 .. Len(line) + 1 /\ stop \in first .. Len(line) + 1
              /\ second \in stop .. Len(line) + 1 /\ last \in second .. Len(line) + 1
              /\ \A w \in Words(line) : first <= w[1]
              /\ first <= Len(line) => <<first, stop - 1>> \in Words(line)
              /\ \A w \in Words(line) : w[1] # first => second <= w[1]
              /\ second <= Len(line) => <<second, last - 1>> \in Words(line)
              /\ second <= Len(line) => first < second
<1> DEFINE n == Len(line)
           first == WordStart(line, 1)
           stop == LoopEnd(line, 1)
           second == WordStart(line, stop)
           last == LoopEnd(line, stop)
<1>1. /\ first \in 1 .. n + 1
      /\ stop \in first .. n + 1
      /\ \A i \in 1 .. first - 1 : line[i] = Space
      /\ \A i \in first .. stop - 1 : line[i] # Space
      /\ first <= n => first < stop
      /\ stop <= n => line[stop] = Space
  BY LoopBounds
<1>2. stop \in Nat /\ 1 <= stop /\ stop <= n + 1
  <2> HIDE DEF first, stop
  <2> QED
    BY <1>1
<1>3. /\ second \in stop .. n + 1
      /\ last \in second .. n + 1
      /\ \A i \in stop .. second - 1 : line[i] = Space
      /\ \A i \in second .. last - 1 : line[i] # Space
      /\ second <= n => second < last
      /\ last <= n => line[last] = Space
  <2> HIDE DEF stop
  <2> QED
    BY <1>2, LoopBounds
<1> HIDE DEF first, stop, second, last
<1>4. \A w \in Words(line) : first <= w[1]
  <2> SUFFICES ASSUME NEW w \in Words(line), w[1] < first PROVE FALSE
    BY <1>1, WordsAreApart
  <2>1. w[1] \in 1 .. first - 1 /\ line[w[1]] # Space
    BY <1>1 DEF Words
  <2> QED
    BY <1>1, <2>1
<1>5. ASSUME first <= n PROVE <<first, stop - 1>> \in Words(line)
  <2>1. first \in 1 .. n /\ stop - 1 \in 1 .. n /\ first <= stop - 1
    BY <1>1, <1>5
  <2>2. first = 1 \/ line[first - 1] = Space
    BY <1>1
  <2>3. stop - 1 = n \/ line[(stop - 1) + 1] = Space
    BY <1>1
  <2> QED
    BY <1>1, <2>1, <2>2, <2>3 DEF Words
<1>6. ASSUME NEW w \in Words(line), w[1] # first PROVE second <= w[1]
  <2>1. w[1] \in 1 .. n /\ first < w[1] /\ line[w[1]] # Space
    BY <1>1, <1>4, <1>6, WordsAreApart DEF Words
  <2>2. w[1] = 1 \/ line[w[1] - 1] = Space
    BY DEF Words
  <2>3. stop <= w[1]
    <3> SUFFICES ASSUME w[1] < stop PROVE FALSE
      BY <1>1, <2>1
    <3>1. w[1] - 1 \in first .. stop - 1
      BY <1>1, <2>1
    <3> QED
      BY <1>1, <2>1, <2>2, <3>1
  <2> SUFFICES ASSUME w[1] < second PROVE FALSE
    BY <1>3, <2>1
  <2>4. w[1] \in stop .. second - 1
    BY <1>1, <1>3, <2>1, <2>3
  <2> QED
    BY <1>3, <2>1, <2>4
<1>7. ASSUME second <= n PROVE first < second /\ <<second, last - 1>> \in Words(line)
  <2>1. second \in 1 .. n /\ last - 1 \in 1 .. n /\ second <= last - 1
    BY <1>1, <1>3, <1>7
  <2>2. line[second] # Space
    BY <1>3, <2>1
  <2>3. stop < second
    BY <1>1, <1>3, <1>7, <2>2
  <2>4. line[second - 1] = Space
    <3>1. second - 1 \in stop .. second - 1
      BY <1>1, <1>3, <2>3
    <3> QED
      BY <1>3, <3>1
  <2>5. last - 1 = n \/ line[(last - 1) + 1] = Space
    BY <1>3
  <2>6. <<second, last - 1>> \in Words(line)
    BY <1>3, <2>1, <2>4, <2>5 DEF Words
  <2> QED
    BY <1>1, <2>1, <2>3, <2>6
<1> QED
  BY <1>1, <1>3, <1>4, <1>5, <1>6, <1>7 DEF first, stop, second, last

(* exec_buf gets the first word, without the spaces before it.             *)
LEMMA FirstLoopCopiesFirstWord ==
    ASSUME NEW line, Len(line) \in Nat
    PROVE  Copied(line, 1) = Word(line, 1)
<1> DEFINE n == Len(line)
           first == WordStart(line, 1)
           stop == LoopEnd(line, 1)
           word == <<first, stop - 1>>
           nth == {w \in Words(line) : Cardinality(Upto(line, w)) = 1}
<1>1. /\ first \in 1 .. n + 1 /\ stop \in first .. n + 1
      /\ \A w \in Words(line) : first <= w[1]
      /\ first <= n => word \in Words(line)
  BY LoopsFindWords
<1>2. Copied(line, 1) = SubSeq(line, first, stop - 1)
  BY DEF Copied
<1>3. Word(line, 1) = IF nth = {} THEN <<>>
                      ELSE LET w == CHOOSE w \in nth : TRUE IN SubSeq(line, w[1], w[2])
  BY DEF Word, Upto
<1> HIDE DEF first, stop
<1>4. CASE first = n + 1
  <2>1. Words(line) = {}
    BY <1>1, <1>4, WordsAreApart
  <2>2. nth = {}
    BY <2>1
  <2>3. SubSeq(line, first, stop - 1) = <<>>
    BY <1>1, <1>4
  <2> HIDE DEF nth
  <2> QED
    BY <1>2, <1>3, <2>2, <2>3
<1>5. CASE first # n + 1
  <2>1. word \in Words(line) /\ word[1] = first /\ word[2] = stop - 1
    BY <1>1, <1>5
  <2> HIDE DEF word
  <2>2. Upto(line, word) = {word}
    BY <1>1, <2>1, WordsAreApart DEF Upto
  <2>3. word \in nth
    BY <2>1, <2>2, FS_Singleton
  <2>4. ASSUME NEW w \in nth PROVE w = word
    <3> SUFFICES ASSUME w # word PROVE FALSE
      OBVIOUS
    <3>1. w \in Words(line) /\ Cardinality(Upto(line, w)) = 1
      OBVIOUS
    <3>2. {word, w} \subseteq Upto(line, w)
      BY <1>1, <2>1, <3>1, WordsAreApart DEF Upto
    <3>3. Cardinality({word, w}) = 2
      BY Pairs
    <3> HIDE DEF nth
    <3>4. 2 <= 1
      BY <3>1, <3>2, <3>3, CountUpto
    <3> QED
      BY <3>4
  <2> HIDE DEF nth
  <2>5. nth = {word}
    BY <2>3, <2>4
  <2>6. (CHOOSE w \in nth : TRUE) = word
    BY <2>5
  <2> QED
    BY <1>2, <1>3, <2>1, <2>3, <2>6
<1> QED
  BY <1>4, <1>5

(* argument_buf gets the second word.                                      *)
LEMMA SecondLoopCopiesSecondWord ==
    ASSUME NEW line, Len(line) \in Nat
    PROVE  Argument(line) = Word(line, 2)
<1> DEFINE n == Len(line)
           first == WordStart(line, 1)
           stop == LoopEnd(line, 1)
           second == WordStart(line, stop)
           last == LoopEnd(line, stop)
           word == <<first, stop - 1>>
           next == <<second, last - 1>>
           nth == {w \in Words(line) : Cardinality(Upto(line, w)) = 2}
<1>1. /\ first \in 1 .. n + 1 /\ stop \in first .. n + 1
      /\ second \in stop .. n + 1 /\ last \in second .. n + 1
      /\ \A w \in Words(line) : first <= w[1]
      /\ first <= n => word \in Words(line)
      /\ \A w \in Words(line) : w[1] # first => second <= w[1]
      /\ second <= n => next \in Words(line)
      /\ second <= n => first < second
  BY LoopsFindWords
<1>2. Argument(line) = SubSeq(line, second, last - 1)
  BY DEF Argument, Copied
<1>3. Word(line, 2) = IF nth = {} THEN <<>>
                      ELSE LET w == CHOOSE w \in nth : TRUE IN SubSeq(line, w[1], w[2])
  BY DEF Word, Upto
<1> HIDE DEF first, stop, second, last
<1>4. CASE second = n + 1
  <2>1. SubSeq(line, second, last - 1) = <<>>
    BY <1>1, <1>4
  <2>2. ASSUME NEW w \in nth PROVE FALSE
    <3>1. w \in Words(line) /\ Cardinality(Upto(line, w)) = 2
      OBVIOUS
    <3>2. \A v \in Words(line) : v = w
      BY <1>1, <1>4, <3>1, WordsAreApart
    <3>3. Upto(line, w) = {w}
      BY <3>1, <3>2, WordsAreApart DEF Upto
    <3> HIDE DEF nth
    <3>4. 2 = 1
      BY <3>1, <3>3, FS_Singleton
    <3> QED
      BY <3>4
  <2>3. nth = {}
    BY <2>2
  <2> HIDE DEF nth
  <2> QED
    BY <1>2, <1>3, <2>1, <2>3
<1>5. CASE second # n + 1
  <2>1. /\ next \in Words(line) /\ next[1] = second /\ next[2] = last - 1
        /\ word \in Words(line) /\ word[1] = first
        /\ first < second
    BY <1>1, <1>5
  <2> HIDE DEF word, next
  <2>2. Upto(line, next) = {word, next} /\ word # next
    BY <1>1, <2>1, WordsAreApart DEF Upto
  <2>3. next \in nth
    BY <2>1, <2>2, Pairs
  <2>4. ASSUME NEW w \in nth PROVE w = next
    <3> SUFFICES ASSUME w # next PROVE FALSE
      OBVIOUS
    <3>1. w \in Words(line) /\ Cardinality(Upto(line, w)) = 2
      OBVIOUS
    <3> HIDE DEF nth
    <3>2. CASE w = word
      <4>1. Upto(line, w) = {w}
        BY <1>1, <2>1, <3>1, <3>2, WordsAreApart DEF Upto
      <4>2. 2 = 1
        BY <3>1, <4>1, FS_Singleton
      <4> QED
        BY <4>2
    <3>3. CASE w # word
      <4>1. w[1] # first
        BY <2>1, <3>1, <3>3, WordsAreApart
      <4>2. second <= w[1]
        BY <1>1, <3>1, <4>1
      <4>3. {word, next, w} \subseteq Upto(line, w)
        BY <1>1, <2>1, <3>1, <4>2, WordsAreApart DEF Upto
      <4>4. Cardinality({word, next, w}) = 3
        BY <2>2, <3>3, Triples
      <4>5. 3 <= 2
        BY <3>1, <4>3, <4>4, CountUpto
      <4> QED
        BY <4>5
    <3> QED
      BY <3>2, <3>3
  <2> HIDE DEF nth
  <2>5. nth = {next}
    BY <2>3, <2>4
  <2>6. (CHOOSE w \in nth : TRUE) = next
    BY <2>5
  <2> QED
    BY <1>2, <1>3, <2>1, <2>3, <2>6
<1> QED
  BY <1>4, <1>5

-----------------------------------------------------------------------------
(* What runs is what a command line asked for.                             *)

CommandInv ==
    child # NoCommand =>
        /\ child.line \in CommandLines
        /\ child.inode \in Programs(child.line)
        /\ child.argument_buf = Argument(child.line)

LEMMA CommandAlways == FsSpec => []CommandInv
<1>1. FsInit => CommandInv
  BY DEF FsInit, CommandInv
<1>2. CommandInv /\ [FsNext]_fsvars => CommandInv'
  <2> SUFFICES ASSUME CommandInv, [FsNext]_fsvars PROVE CommandInv'
    OBVIOUS
  <2>1. ASSUME child' = child PROVE CommandInv'
    BY <2>1 DEF CommandInv
  <2>2. ASSUME NEW line \in CommandLines, Execute(line) PROVE CommandInv'
    <3>1. PICK inode \in Programs(line) :
            child' = [line |-> line, inode |-> inode, argument_buf |-> Argument(line)]
      BY <2>2 DEF Execute
    <3> QED
      BY <3>1 DEF CommandInv
  <2>3. CASE Halt
    BY <2>3 DEF Halt, CommandInv
  <2>4. CASE Open \/ Read \/ Close \/ UNCHANGED fsvars
    <3>1. child' = child
      BY <2>4 DEF Open, Read, Close, fsvars
    <3> QED
      BY <2>1, <3>1
  <2>5. ASSUME NEW line \in CommandLines, ExecuteFails(line) PROVE CommandInv'
    <3>1. child' = child
      BY <2>5 DEF ExecuteFails
    <3> QED
      BY <2>1, <3>1
  <2> QED
    BY <2>2, <2>3, <2>4, <2>5 DEF FsNext
<1> QED
  BY <1>1, <1>2, PTL DEF FsSpec

LEMMA LinesHaveLengths ==
    ASSUME NEW line \in CommandLines
    PROVE  Len(line) \in Nat
<1>1. PICK n \in 0 .. MaxLine : line \in [1 .. n -> Letters \cup {Space}]
  BY DEF CommandLines, Texts
<1> QED
  BY <1>1

(* parse_command leaves in argument_buf the second word of the line,       *)
(* whatever spaces there are before, between and behind.                   *)
THEOREM ArgumentIsTheSecondWord == FsSpec => []ArgumentIsSecondWord
<1>1. CommandInv => ArgumentIsSecondWord
  BY LinesHaveLengths, SecondLoopCopiesSecondWord DEF CommandInv, ArgumentIsSecondWord
<1> QED
  BY <1>1, CommandAlways, PTL

(* Without leading spaces there is one name that execute looks up.         *)
LEMMA FirstWordIsLookedUp ==
    ASSUME NEW line \in CommandLines, line = <<>> \/ line[1] # Space
    PROVE  ExecNames(line) = {Word(line, 1)}
<1>1. Len(line) \in Nat
  BY LinesHaveLengths
<1>2. WordStart(line, 1) = 1
  <2>1. /\ WordStart(line, 1) \in 1 .. Len(line) + 1
        /\ \A i \in 1 .. WordStart(line, 1) - 1 : line[i] = Space
    BY <1>1, LoopBounds
  <2>2. line = <<>> => Len(line) = 0
    OBVIOUS
  <2> QED
    BY <1>1, <2>1, <2>2
<1>3. Stale(line) = 0
  BY <1>2 DEF Stale
<1>4. Texts(Letters, 0) = {<<>>}
  <2>1. \A text : text \in [1 .. 0 -> Letters] <=> text = <<>>
    <3>1. <<>> \in [1 .. 0 -> Letters]
      OBVIOUS
    <3>2. ASSUME NEW text \in [1 .. 0 -> Letters] PROVE text = <<>>
      <4>1. text \in Seq(Letters) /\ Len(text) = 0
        OBVIOUS
      <4> QED
        BY <4>1
    <3> QED
      BY <3>1, <3>2
  <2>2. \A text : text \in Texts(Letters, 0) <=> text \in [1 .. 0 -> Letters]
    BY DEF Texts
  <2> QED
    BY <2>1, <2>2
<1>5. Copied(line, 1) \o <<>> = Copied(line, 1)
  <2>1. LoopEnd(line, 1) \in 1 .. Len(line) + 1
    BY <1>1, <1>2, LoopBounds
  <2>2. PICK n \in Nat : line \in [1 .. n -> Letters \cup {Space}] /\ Len(line) = n
    BY DEF CommandLines, Texts
  <2>3. line \in Seq(Letters \cup {Space})
    BY <2>2
  <2>4. SubSeq(line, 1, LoopEnd(line, 1) - 1) \in Seq(Letters \cup {Space})
    BY <2>1, <2>2, <2>3
  <2> QED
    BY <1>2, <2>4 DEF Copied
<1> QED
  BY <1>1, <1>3, <1>4, <1>5, FirstLoopCopiesFirstWord DEF ExecNames

(* execute runs the program that the first word of the line names, and     *)
(* gives up only if no program has that name (parse_command,               *)
(* read_dentry_by_name, execute).                                          *)
THEOREM CommandsAreObeyed == FsSpec => []CommandsObeyed
<1>1. ASSUME NEW line \in CommandLines, line # <<>>, line[1] # Space, MayFail(line)
      PROVE  Named(line) = {}
  <2>1. ExecNames(line) = {Word(line, 1)}
    BY <1>1, FirstWordIsLookedUp
  <2> QED
    BY <1>1, <2>1 DEF MayFail, Named
<1>2. ASSUME NEW line \in CommandLines, line[1] # Space, NEW inode \in Programs(line)
      PROVE  Named(line) = {inode}
  <2>1. ExecNames(line) = {Word(line, 1)}
    BY <1>2, FirstWordIsLookedUp
  <2>2. PICK e \in DOMAIN Dentries : /\ Dentries[e].fname = Word(line, 1)
                                    /\ Dentries[e].inode = inode
    BY <2>1 DEF Programs
  <2>3. inode \in Executables
    BY DEF Programs
  <2>4. DentryNamed(Word(line, 1)) = {e}
    BY <2>2, ImageAssumption DEF DentryNamed
  <2> QED
    BY <2>2, <2>3, <2>4 DEF Named
<1>3. CommandInv => CommandsObeyed
  BY <1>1, <1>2 DEF CommandInv, CommandsObeyed
<1> QED
  BY <1>3, CommandAlways, PTL

=============================================================================
