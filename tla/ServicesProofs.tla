--------------------------- MODULE ServicesProofs ---------------------------
(***************************************************************************)
(* The proofs about boot, interrupts and the address space: no line stays  *)
(* in service when no handler runs, interrupts come to harm only while the *)
(* controllers are programmed, user code reaches only its own memory and   *)
(* the screen, grep and cat print what is in their file.  And about the    *)
(* parts of MCServices together.                                           *)
(***************************************************************************)
EXTENDS MCServices, FileSystemProofs, ScreenProofs

-----------------------------------------------------------------------------
(* Boot and interrupts.                                                    *)

(* The lines in service while a handler runs.                              *)
MasterServes == [h \in {"none", "pit", "keyboard", "rtc"} |->
                   IF h = "pit" THEN {0} ELSE IF h = "keyboard" THEN {1}
                   ELSE IF h = "rtc" THEN {2} ELSE {}]
SlaveServes == [h \in {"none", "pit", "keyboard", "rtc"} |->
                  IF h = "rtc" THEN {0} ELSE {}]

(* A handler's EOI clears the right line only if it is the handler of the  *)
(* line that was delivered: the vectors are those of the boot loader, none *)
(* of which has a gate, or those of i8259_init.  And no handler may be     *)
(* interrupted.                                                            *)
Serving ==
    /\ pics \in [Chips -> ChipStates]
    /\ handling \in {"none", "pit", "keyboard", "rtc"}
    /\ iflag \in BOOLEAN
    /\ pics["master"].base \in {8, 32}
    /\ pics["slave"].base \in {112, 40}
    /\ harm = "no" =>
           /\ iflag => handling = "none"
           /\ pics["master"].isr = MasterServes[handling]
           /\ pics["slave"].isr = SlaveServes[handling]

(* Steps that leave bases and lines in service alone.                      *)
Untouched(old, new) ==
    \A chip \in Chips : new[chip].base = old[chip].base /\ new[chip].isr = old[chip].isr

LEMMA ServingKept ==
    ASSUME Serving, pics' \in [Chips -> ChipStates], Untouched(pics, pics'),
           handling' = handling, harm' = harm,
           iflag' \in BOOLEAN, iflag' => iflag \/ handling = "none"
    PROVE  Serving'
BY DEF Serving, Untouched, Chips

(* enable_irq and requests of devices change masks and requests only.      *)
LEMMA PicKept ==
    ASSUME pics \in [Chips -> ChipStates], NEW irq \in 0 .. 15
    PROVE  /\ EnableIrq(pics, irq) \in [Chips -> ChipStates]
           /\ Untouched(pics, EnableIrq(pics, irq))
           /\ Raise(pics, irq) \in [Chips -> ChipStates]
           /\ Untouched(pics, Raise(pics, irq))
<1>1. ChipOf(irq) \in Chips /\ LineOf(irq) \in Lines
    BY DEF ChipOf, LineOf, Chips, Lines
<1> QED
    BY <1>1 DEF EnableIrq, Raise, Untouched, Chips, ChipStates

(* A word of i8259_init may set a base to its new value and end service.   *)
LEMMA WordsWritten ==
    ASSUME pics \in [Chips -> ChipStates], NEW chip \in Chips, NEW word
    PROVE  /\ Write(pics, chip, word) \in [Chips -> ChipStates]
           /\ \A c \in Chips :
                  /\ Write(pics, chip, word)[c].base
                         \in {pics[c].base, IF c = "master" THEN 32 ELSE 40}
                  /\ Write(pics, chip, word)[c].isr \in {pics[c].isr, {}}
BY DEF Write, Chips, ChipStates, Lines

(* The words are for one of the two controllers.                           *)
LEMMA WordChips == \A i \in DOMAIN InitWords : InitWords[i][1] \in Chips
BY DEF InitWords, Chips

(* Nothing is in service at power-on.                                      *)
LEMMA MachineStarts == MachineInit => Serving
<1> SUFFICES ASSUME NEW masked \in BiosMasks, NEW flag \in BOOLEAN,
                    NEW loaded \in [good : BOOLEAN, module : BOOLEAN],
                    PowerOn(masked, flag, loaded)
             PROVE  Serving
    BY DEF MachineInit
<1>1. \A chip \in Chips : {LineOf(d) : d \in {e \in masked : ChipOf(e) = chip}} \in SUBSET Lines
    BY MachineAssumption DEF LineOf, ChipOf, Lines, Chips
<1>2. pics \in [Chips -> ChipStates]
    BY <1>1 DEF PowerOn, ChipStates, Chips
<1> QED
    BY <1>2 DEF PowerOn, Serving, MasterServes, SlaveServes, Chips

(* entry() runs only while no handler does.                                *)
LEMMA BootServes == Serving /\ BootStep => Serving'
<1> SUFFICES ASSUME Serving, BootStep PROVE Serving'
    OBVIOUS
<1>0. pics \in [Chips -> ChipStates] /\ handling = "none"
    BY DEF Serving, BootStep, Checks, Prepare, Sti, Outb, Enable, InitializeRtc, At, InEntry
<1>1. CASE Checks \/ Prepare \/ Sti
    BY <1>0, <1>1, ServingKept DEF Checks, Prepare, Sti, Untouched, Serving
<1>2. CASE Outb
    <2>1. PICK i \in DOMAIN InitWords :
              pics' = Write(pics, InitWords[i][1], InitWords[i][2])
        BY <1>2 DEF Outb
    <2>2. InitWords[i][1] \in Chips
        BY WordChips
    <2>3. /\ pics' \in [Chips -> ChipStates]
          /\ \A c \in Chips : /\ pics'[c].base \in {pics[c].base, IF c = "master" THEN 32 ELSE 40}
                              /\ pics'[c].isr \in {pics[c].isr, {}}
        BY <1>0, <2>1, <2>2, WordsWritten
    <2>4. harm = "no" /\ UNCHANGED <<iflag, handling, harm>>
        BY <1>2 DEF Outb, At, InEntry, Runs
    <2> QED
        BY <1>0, <2>3, <2>4 DEF Serving, Chips, MasterServes, SlaveServes
<1>3. CASE Enable
    <2>1. PICK name \in DOMAIN Enabled : pics' = EnableIrq(pics, Enabled[name])
        BY <1>3 DEF Enable
    <2>2. Enabled[name] \in 0 .. 15
        BY DEF Enabled
    <2> QED
        BY <1>0, <1>3, <2>1, <2>2, PicKept, ServingKept DEF Enable, Serving
<1>4. CASE InitializeRtc
    <2> DEFINE raised == IF rtc.PF THEN Raise(pics, 8) ELSE pics
    <2>1. raised \in [Chips -> ChipStates] /\ Untouched(pics, raised)
        BY <1>0, PicKept DEF Untouched
    <2>2. /\ EnableIrq(raised, 8) \in [Chips -> ChipStates]
          /\ Untouched(raised, EnableIrq(raised, 8))
        BY <2>1 DEF EnableIrq, ChipOf, LineOf, Untouched, Chips, ChipStates, Lines
    <2>3. pics' = EnableIrq(raised, 8) /\ UNCHANGED <<iflag, handling, harm>>
        BY <1>4 DEF InitializeRtc
    <2>4. Untouched(pics, pics')
        BY <2>1, <2>2, <2>3 DEF Untouched
    <2> QED
        BY <2>2, <2>3, <2>4, ServingKept DEF Serving
<1> QED
    BY <1>1, <1>2, <1>3, <1>4 DEF BootStep

(* A device only asks.                                                     *)
LEMMA DevicesAsk ==
    ASSUME Serving, PitTick \/ KeyPress \/ RtcPeriod \/ OtherDevice
    PROVE  Serving'
<1>1. PICK irq \in 0 .. 15 : pics' \in {pics, Raise(pics, irq)}
    BY MachineAssumption DEF PitTick, KeyPress, RtcPeriod, OtherDevice
<1>2. UNCHANGED <<iflag, handling, harm>>
    BY DEF PitTick, KeyPress, RtcPeriod, OtherDevice
<1>3. pics \in [Chips -> ChipStates]
    BY DEF Serving
<1>4. pics' \in [Chips -> ChipStates] /\ Untouched(pics, pics')
    BY <1>1, <1>3, PicKept DEF Untouched
<1> QED
    BY <1>2, <1>4, ServingKept DEF Serving

(* What is delivered is in service until its handler's EOI.                *)
LEMMA DeliveryServes ==
    ASSUME Serving, NEW irq \in Devices, Deliver(irq)
    PROVE  Serving'
<1>1. irq \in 0 .. 15 \ {2}
    BY MachineAssumption
<1>2. /\ pics' = Acknowledge(pics, irq) /\ iflag' = FALSE
      /\ harm = "no" /\ iflag
    BY DEF Deliver, Runs
<1>3. handling = "none" /\ pics["master"].isr = {} /\ pics["slave"].isr = {}
    BY <1>2 DEF Serving, MasterServes, SlaveServes
<1>4. pics \in [Chips -> ChipStates] /\ ChipOf(irq) \in Chips /\ LineOf(irq) \in Lines
    BY <1>1 DEF Serving, ChipOf, LineOf, Chips, Lines
<1>5. /\ pics' \in [Chips -> ChipStates]
      /\ \A c \in Chips : pics'[c].base = pics[c].base
    <2> DEFINE taken == [pics EXCEPT ![ChipOf(irq)].irr = @ \ {LineOf(irq)},
                                     ![ChipOf(irq)].isr = @ \cup {LineOf(irq)}]
    <2>1. /\ taken \in [Chips -> ChipStates]
          /\ \A c \in Chips : taken[c].base = pics[c].base
        BY <1>4 DEF ChipStates, Chips
    <2>2. pics' \in {taken, [taken EXCEPT !["master"].isr = @ \cup {2}]}
        BY <1>2 DEF Acknowledge
    <2> HIDE DEF taken
    <2> QED
        BY <2>1, <2>2 DEF ChipStates, Chips, Lines
<1>6. handling' \in {"none", "pit", "keyboard", "rtc"}
    BY <1>3 DEF Deliver, Gate
<1>7. ASSUME harm' = "no"
      PROVE  /\ pics'["master"].isr = MasterServes[handling']
             /\ pics'["slave"].isr = SlaveServes[handling']
    <2>1. Vector(pics, irq) \in DOMAIN Gate /\ handling' = Gate[Vector(pics, irq)]
        BY <1>7, <1>2 DEF Deliver
    <2>2. CASE irq < 8
        <3>1. Vector(pics, irq) = pics["master"].base + irq
            BY <2>2 DEF Vector, ChipOf, LineOf
        <3>2. pics["master"].base = 32 /\ irq \in {0, 1}
            BY <3>1, <2>1, <2>2, <1>1 DEF Gate, Serving
        <3>3. pics'["master"].isr = {irq} /\ pics'["slave"].isr = {}
            BY <1>2, <1>3, <1>4, <2>2 DEF Acknowledge, ChipOf, LineOf, Chips, ChipStates
        <3> QED
            BY <3>1, <3>2, <3>3, <2>1 DEF Gate, MasterServes, SlaveServes
    <2>3. CASE irq >= 8
        <3>1. Vector(pics, irq) = pics["slave"].base + irq - 8
            BY <2>3, <1>1 DEF Vector, ChipOf, LineOf, Serving
        <3>2. Vector(pics, irq) = 40 /\ irq = 8
            BY <3>1, <2>1, <2>3, <1>1 DEF Gate, Serving
        <3>3. pics'["master"].isr = {2} /\ pics'["slave"].isr = {0}
            BY <1>2, <1>3, <1>4, <3>2 DEF Acknowledge, ChipOf, LineOf, Chips, ChipStates
        <3> QED
            BY <3>2, <3>3, <2>1 DEF Gate, MasterServes, SlaveServes
    <2> QED
        BY <2>2, <2>3, <1>1
<1> QED
    BY <1>2, <1>5, <1>6, <1>7 DEF Serving, Chips

(* Each handler's EOI, or two of them, empties what is in service.         *)
LEMMA HandlersEndService == Serving /\ Handler => Serving'
<1> SUFFICES ASSUME Serving, Handler PROVE Serving'
    OBVIOUS
<1>1. /\ pics \in [Chips -> ChipStates] /\ harm = "no"
      /\ pics["master"].isr = MasterServes[handling]
      /\ pics["slave"].isr = SlaveServes[handling]
    BY DEF Serving, Handler, Runs
<1>2. \A irq \in {0, 1, 8} :
          /\ SendEoi(pics, irq) \in [Chips -> ChipStates]
          /\ \A c \in Chips : SendEoi(pics, irq)[c].base = pics[c].base
    BY <1>1 DEF SendEoi, ChipOf, LineOf, Chips, ChipStates, Lines
<1>3. CASE PitHandler
    <2>1. pics' = SendEoi(pics, 0) /\ handling = "pit"
        BY <1>3 DEF PitHandler
    <2>2. pics'["master"].isr = {} /\ pics'["slave"].isr = {}
        BY <1>1, <2>1 DEF SendEoi, ChipOf, LineOf, Chips, ChipStates, MasterServes, SlaveServes
    <2>3. \/ harm' # "no" /\ UNCHANGED <<handling, iflag>>
          \/ handling' = "none" /\ iflag' = TRUE
        BY <1>3 DEF PitHandler, Return
    <2> QED
        BY <1>2, <2>1, <2>2, <2>3 DEF Serving, Chips, MasterServes, SlaveServes
<1>4. CASE KeyboardHandler
    <2>1. pics' = SendEoi(pics, 1) /\ handling = "keyboard" /\ handling' = "none" /\ iflag' = TRUE
        BY <1>4 DEF KeyboardHandler, Return
    <2>2. pics'["master"].isr = {} /\ pics'["slave"].isr = {}
        BY <1>1, <2>1 DEF SendEoi, ChipOf, LineOf, Chips, ChipStates, MasterServes, SlaveServes
    <2> QED
        BY <1>2, <2>1, <2>2 DEF Serving, Chips, MasterServes, SlaveServes
<1>5. CASE RtcHandler
    <2>1. pics' = SendEoi(pics, 8) /\ handling = "rtc" /\ handling' = "none" /\ iflag' = TRUE
        BY <1>5 DEF RtcHandler, Return
    <2>2. pics'["master"].isr = {} /\ pics'["slave"].isr = {}
        BY <1>1, <2>1 DEF SendEoi, ChipOf, LineOf, Chips, ChipStates, MasterServes, SlaveServes
    <2> QED
        BY <1>2, <2>1, <2>2 DEF Serving, Chips, MasterServes, SlaveServes
<1> QED
    BY <1>3, <1>4, <1>5 DEF Handler

(* All steps together.                                                     *)
LEMMA ServingSteps == Serving /\ [MachineNext]_mvars => Serving'
<1> SUFFICES ASSUME Serving, [MachineNext]_mvars PROVE Serving'
    OBVIOUS
<1>1. CASE Spin \/ UNCHANGED mvars
    BY <1>1 DEF Spin, mvars, Serving
<1> QED
    BY <1>1, BootServes, DevicesAsk, DeliveryServes, HandlersEndService DEF MachineNext

(* i8259.c, pit.c, keyboard.c, rtc.c: when no handler runs, no line is in  *)
(* service, also though the handler that starts a shell never comes back.  *)
THEOREM InterruptsEnd == MachineSpec => []NothingLeftInService
<1>2. Serving => NothingLeftInService
    BY DEF Serving, NothingLeftInService, Runs, Chips, MasterServes, SlaveServes
<1> QED
    BY <1>2, ServingSteps, MachineStarts, PTL DEF MachineSpec

-----------------------------------------------------------------------------
(* Where each step of entry() stands.                                      *)

Order ==
    /\ DOMAIN BootOrder = 1 .. 22
    /\ BootOrder[1] = Entry("checks") /\ BootOrder[2] = Entry("descriptors")
    /\ BootOrder[3] = Entry("initialize_idt") /\ BootOrder[4] = Entry("sti")
    /\ BootOrder[5] = <<"master", "ICW1">> /\ BootOrder[6] = <<"slave", "ICW1">>
    /\ BootOrder[7] = <<"master", "ICW2">> /\ BootOrder[8] = <<"slave", "ICW2">>
    /\ BootOrder[9] = <<"master", "ICW3">> /\ BootOrder[10] = <<"slave", "ICW3">>
    /\ BootOrder[11] = <<"master", "ICW4">> /\ BootOrder[12] = <<"slave", "ICW4">>
    /\ BootOrder[13] = <<"master", "MASK">> /\ BootOrder[14] = <<"slave", "MASK">>
    /\ BootOrder[15] = Entry("enable_slave") /\ BootOrder[16] = Entry("initialize_rtc")
    /\ BootOrder[17] = Entry("filesys_init") /\ BootOrder[18] = Entry("paging_init")
    /\ BootOrder[19] = Entry("keyboard_init") /\ BootOrder[20] = Entry("terminals_init")
    /\ BootOrder[21] = Entry("initialize_pit") /\ BootOrder[22] = Entry("sti")

(* The three pieces of BootOrder put together.                             *)
LEMMA OrderOfBoot == Order
BY DEF Order, BootOrder, InitWords

(* How far entry() is, by pc.                                              *)
LEMMA DoneBy ==
    ASSUME pc \in 0 .. 23
    PROVE  /\ Done(Entry("initialize_idt")) <=> pc > 3
           /\ Done(Entry("sti")) <=> pc > 4
           /\ Done(<<"slave", "MASK">>) <=> pc > 14
           /\ pc > 20 => Prepared
<1>1. Order
    BY OrderOfBoot
<1> QED
    BY <1>1 DEF Order, Done, Prepared, Entry

(* What bounds the harm: the vectors in force and the lines let through at *)
(* each pc, and which handler can be running there.                        *)
Masks ==
    /\ pc > 7 => pics["master"].base = 32
    /\ pc > 8 => pics["slave"].base = 40
    /\ pc > 13 => \A line \in Lines \ pics["master"].imr :
                      line \in {0, 1, 2} /\ (line = 0 => pc > 21)
    /\ pc > 14 => \A line \in Lines \ pics["slave"].imr : line = 0

Window ==
    /\ Serving
    /\ Masks
    /\ pc \in 0 .. 23
    /\ pc <= 4 => iflag = FALSE /\ handling = "none"
    /\ handling = "pit" => pc <= 14 \/ pc > 21
    /\ harm # "no" /\ multiboot.module => harm # "triple_fault" /\ pc > 4 /\ pc <= 14

(* Where bases and masks do not change the window stays as it was.         *)
LEMMA MasksKept ==
    ASSUME Masks, pc' = pc,
           \A chip \in Chips : pics'[chip].base = pics[chip].base
                              /\ pics'[chip].imr = pics[chip].imr
    PROVE  Masks'
BY DEF Masks, Chips

(* Power-on.                                                               *)
LEMMA WindowStarts == MachineInit => Window
<1> SUFFICES ASSUME MachineInit PROVE Window
    OBVIOUS
<1>1. Serving
    BY MachineStarts
<1>2. pc = 1 /\ iflag = FALSE /\ handling = "none" /\ harm = "no"
    BY DEF MachineInit, PowerOn
<1> QED
    BY <1>1, <1>2 DEF Window, Masks

(* A step of entry(): each mask is set in its place and only the lines of  *)
(* what is ready are taken out of it.                                      *)
LEMMA BootWindow == ASSUME Window, BootStep, Serving' PROVE Window'
<1> USE OrderOfBoot DEF Order
<1>0. /\ pics \in [Chips -> ChipStates] /\ handling = "none" /\ harm = "no"
      /\ pc \in 1 .. 22 /\ handling' = "none" /\ harm' = "no"
    BY DEF Window, Serving, BootStep, Checks, Prepare, Sti, Outb, Enable, InitializeRtc, At,
           InEntry, Runs
<1>1. SUFFICES /\ Masks' /\ pc' \in 0 .. 23 /\ (pc' <= 4 => iflag' = FALSE)
    BY <1>0 DEF Window
<1>2. CASE Checks
    <2>1. pc = 1 /\ pc' \in {0, 2} /\ UNCHANGED <<iflag, pics>>
        BY <1>0, <1>2 DEF Checks, At, Entry
    <2> QED
        BY <2>1 DEF Window, Masks
<1>3. CASE Prepare
    <2>1. pc \in {2, 3, 17, 18, 20} /\ pc' = pc + 1 /\ UNCHANGED <<iflag, pics>>
        BY <1>0, <1>3 DEF Prepare, At, Entry
    <2> QED
        BY <2>1 DEF Window, Masks
<1>4. CASE Sti
    <2>1. pc \in {4, 22} /\ pc' = pc + 1 /\ UNCHANGED pics
        BY <1>0, <1>4 DEF Sti, At, Entry
    <2> QED
        BY <2>1 DEF Window, Masks
<1>5. CASE Outb
    <2>1. PICK i \in DOMAIN InitWords :
              /\ BootOrder[pc] = InitWords[i]
              /\ pics' = Write(pics, InitWords[i][1], InitWords[i][2])
        BY <1>5 DEF Outb, At
    <2>2. pc \in 5 .. 14 /\ pc' = pc + 1 /\ UNCHANGED iflag
        <3>1. BootOrder[pc][1] # "entry"
            BY <2>1, WordChips DEF Chips
        <3>2. \A n \in 1 .. 22 : n < 5 \/ n > 14 => BootOrder[n][1] = "entry"
            BY DEF Entry
        <3>3. pc' = pc + 1 /\ UNCHANGED iflag
            BY <1>5 DEF Outb
        <3> QED
            BY <1>0, <3>1, <3>2, <3>3
    <2>3. InitWords[i] = BootOrder[pc]
        BY <2>1
    <2>4. pc = 7 => pics'["master"].base = 32
        BY <1>0, <2>1, <2>3 DEF Write, Chips, ChipStates
    <2>5. pc = 8 => pics'["slave"].base = 40
        BY <1>0, <2>1, <2>3 DEF Write, Chips, ChipStates
    <2>6. pc > 7 => pics'["master"].base = pics["master"].base
        BY <1>0, <2>1, <2>2, <2>3 DEF Write, Chips, ChipStates
    <2>7. pc > 8 => pics'["slave"].base = pics["slave"].base
        BY <1>0, <2>1, <2>2, <2>3 DEF Write, Chips, ChipStates
    <2>8. pc = 13 => pics'["master"].imr = Lines
        BY <1>0, <2>1, <2>3 DEF Write, Chips, ChipStates
    <2>9. pc = 14 => pics'["master"].imr = pics["master"].imr /\ pics'["slave"].imr = Lines
        BY <1>0, <2>1, <2>3 DEF Write, Chips, ChipStates
    <2> QED
        BY <2>2, <2>4, <2>5, <2>6, <2>7, <2>8, <2>9 DEF Window, Masks
<1>6. CASE Enable
    <2>1. PICK name \in DOMAIN Enabled :
              BootOrder[pc] = Entry(name) /\ pics' = EnableIrq(pics, Enabled[name])
        BY <1>6 DEF Enable, At
    <2>2. /\ pc' = pc + 1 /\ UNCHANGED iflag
          /\ \/ pc = 15 /\ Enabled[name] = 2
             \/ pc = 19 /\ Enabled[name] = 1
             \/ pc = 21 /\ Enabled[name] = 0
        BY <1>0, <1>6, <2>1 DEF Enable, Enabled, Entry
    <2>3. /\ pics'["master"].imr = pics["master"].imr \ {Enabled[name]}
          /\ pics'["master"].base = pics["master"].base
          /\ pics'["slave"] = pics["slave"]
        BY <1>0, <2>1, <2>2 DEF EnableIrq, ChipOf, LineOf, Chips, ChipStates
    <2> QED
        BY <2>2, <2>3 DEF Window, Masks
<1>7. CASE InitializeRtc
    <2> DEFINE raised == IF rtc.PF THEN Raise(pics, 8) ELSE pics
    <2>1. pc = 16 /\ pc' = 17 /\ UNCHANGED iflag /\ pics' = EnableIrq(raised, 8)
        BY <1>0, <1>7 DEF InitializeRtc, At, Entry
    <2>2. /\ raised \in [Chips -> ChipStates]
          /\ \A c \in Chips : raised[c].base = pics[c].base /\ raised[c].imr = pics[c].imr
        BY <1>0 DEF Raise, ChipOf, LineOf, Chips, ChipStates, Lines
    <2>3. /\ pics'["master"].imr = pics["master"].imr
          /\ pics'["slave"].imr = pics["slave"].imr \ {0}
          /\ \A c \in Chips : pics'[c].base = pics[c].base
        <3> HIDE DEF raised
        <3> QED
            BY <2>1, <2>2 DEF EnableIrq, ChipOf, LineOf, Chips, ChipStates
    <2> QED
        BY <2>1, <2>3 DEF Window, Masks, Chips
<1> QED
    BY <1>2, <1>3, <1>4, <1>5, <1>6, <1>7 DEF BootStep

(* Outside the window only lines 0, 1 and 2 of the master and 0 of the     *)
(* slave get through, at vectors that have gates.                          *)
LEMMA DeliveryWindow ==
    ASSUME Window, NEW irq \in Devices, Deliver(irq), Serving'
    PROVE  Window'
<1>1. irq \in 0 .. 15 \ {2}
    BY MachineAssumption
<1>2. /\ pics' = Acknowledge(pics, irq) /\ iflag' = FALSE /\ pc' = pc
      /\ harm = "no" /\ iflag /\ pc \in 5 .. 23
      /\ multiboot' = multiboot
    BY DEF Deliver, Runs, Window
<1>3. Done(Entry("initialize_idt"))
    BY <1>2, DoneBy
<1>4. pics \in [Chips -> ChipStates] /\ ChipOf(irq) \in Chips /\ LineOf(irq) \in Lines
    BY <1>1 DEF Window, Serving, ChipOf, LineOf, Chips, Lines
<1>5. \A c \in Chips : pics'[c].base = pics[c].base /\ pics'[c].imr = pics[c].imr
    <2> DEFINE taken == [pics EXCEPT ![ChipOf(irq)].irr = @ \ {LineOf(irq)},
                                     ![ChipOf(irq)].isr = @ \cup {LineOf(irq)}]
    <2>1. /\ taken \in [Chips -> ChipStates]
          /\ \A c \in Chips : taken[c].base = pics[c].base /\ taken[c].imr = pics[c].imr
        BY <1>4 DEF ChipStates, Chips
    <2>2. pics' \in {taken, [taken EXCEPT !["master"].isr = @ \cup {2}]}
        BY <1>2 DEF Acknowledge
    <2> HIDE DEF taken
    <2> QED
        BY <2>1, <2>2 DEF ChipStates, Chips, Lines
<1>6. Masks'
    BY <1>2, <1>5, MasksKept DEF Window
<1>7. LineOf(irq) \notin pics[ChipOf(irq)].imr
    BY <1>1 DEF Deliver, Selected, Offers, ChipOf, LineOf
<1>8. pc > 14 => \/ irq = 0 /\ pc > 21 /\ Vector(pics, irq) = 32
                 \/ irq = 1 /\ Vector(pics, irq) = 33
                 \/ irq = 8 /\ Vector(pics, irq) = 40
    BY <1>1, <1>4, <1>7 DEF Window, Masks, ChipOf, LineOf, Vector
<1>9. harm' # "no" /\ multiboot.module => harm' # "triple_fault" /\ pc' > 4 /\ pc' <= 14
    BY <1>2, <1>3, <1>8 DEF Deliver, Gate
<1>10. handling' = "pit" => pc' <= 14 \/ pc' > 21
    <2>1. handling # "pit"
        BY <1>2 DEF Window, Serving
    <2> QED
        BY <1>2, <1>8, <2>1 DEF Deliver, Gate
<1> QED
    BY <1>2, <1>6, <1>9, <1>10 DEF Window

(* A handler needs nothing that is not there yet, unless it runs in the    *)
(* window; devices and handlers set no mask.                               *)
LEMMA OthersWindow ==
    ASSUME Window, Serving',
           PitTick \/ KeyPress \/ RtcPeriod \/ OtherDevice \/ Handler
    PROVE  Window'
<1>0. pics \in [Chips -> ChipStates] /\ harm = "no" /\ pc' = pc /\ pc \in 1 .. 23
      /\ multiboot' = multiboot
    BY DEF Window, Serving, PitTick, KeyPress, RtcPeriod, OtherDevice, Handler, Runs,
           PitHandler, KeyboardHandler, RtcHandler
<1>1. PICK irq \in 0 .. 15 : pics' \in {pics, Raise(pics, irq), SendEoi(pics, irq)}
    BY MachineAssumption DEF PitTick, KeyPress, RtcPeriod, OtherDevice, Handler, PitHandler,
                             KeyboardHandler, RtcHandler
<1>2. \A c \in Chips : pics'[c].base = pics[c].base /\ pics'[c].imr = pics[c].imr
    BY <1>0, <1>1 DEF Raise, SendEoi, ChipOf, LineOf, Chips, ChipStates
<1>3. Masks'
    BY <1>0, <1>2, MasksKept DEF Window
<1>4. CASE PitTick \/ KeyPress \/ RtcPeriod \/ OtherDevice
    BY <1>0, <1>3, <1>4 DEF Window, PitTick, KeyPress, RtcPeriod, OtherDevice
<1>5. CASE Handler
    <2>1. handling # "none" /\ pc > 4
        BY <1>5 DEF Window, Handler, PitHandler, KeyboardHandler, RtcHandler
    <2>2. harm' # "no" /\ multiboot.module =>
              harm' = "unprepared" /\ handling = "pit" /\ ~Prepared
        BY <1>0, <1>5 DEF Handler, PitHandler, KeyboardHandler, RtcHandler
    <2>3. handling' \in {"none", handling}
        BY <1>5 DEF Handler, PitHandler, KeyboardHandler, RtcHandler, Return
    <2>4. harm' # "no" /\ multiboot.module => harm' # "triple_fault" /\ pc' > 4 /\ pc' <= 14
        BY <1>0, <2>1, <2>2, DoneBy DEF Window
    <2> QED
        BY <1>0, <1>3, <2>1, <2>3, <2>4 DEF Window
<1> QED
    BY <1>4, <1>5

(* kernel.c: between sti and the second mask interrupts may find vectors   *)
(* without a gate or a handler without what it needs; never before there   *)
(* is an IDT, and never later.                                             *)
THEOREM HarmIsBounded == MachineSpec => []HarmOnlyInWindow
<1>1. Window /\ [MachineNext]_mvars => Window'
    <2> SUFFICES ASSUME Window, [MachineNext]_mvars PROVE Window'
        OBVIOUS
    <2>1. Serving'
        BY ServingSteps DEF Window
    <2>2. CASE Spin \/ UNCHANGED mvars
        BY <2>1, <2>2 DEF Spin, mvars, Window, Masks
    <2> QED
        BY <2>1, <2>2, BootWindow, DeliveryWindow, OthersWindow DEF MachineNext
<1>2. Window => HarmOnlyInWindow
    BY DoneBy DEF Window, HarmOnlyInWindow
<1> QED
    BY <1>1, <1>2, WindowStarts, PTL DEF MachineSpec

-----------------------------------------------------------------------------
(* The address space.                                                      *)

(* Page entries, remembered or not, that are open to user code: the        *)
(* program's page, which is that of the process mapped last, and vidmap's, *)
(* which is the screen.                                                    *)
Harmless(entries) ==
    \A page \in Pages :
        entries[page].present /\ entries[page].us =>
            \/ page = "program" /\ owner # -1 /\ entries[page].frame = FrameOf(owner)
            \/ page = "vidmap" /\ owner # -1 /\ entries[page].frame = VideoFrame

(* OwnMemoryOnly is of what the CPU sees; for the steps that change an     *)
(* entry one must know both what is written in the tables and what is      *)
(* remembered, whichever of them the CPU takes now.                        *)
PagingInv ==
    /\ PagingTypeOK
    /\ Harmless(table)
    /\ Harmless(tlb)

(* What a step leaves in tables or TLB has the type of a page entry.       *)
LEMMA EntryTypes ==
    ASSUME PagingTypeOK
    PROVE  /\ NoTlb \in [Pages -> [present : BOOLEAN, us : BOOLEAN, frame : Frames]]
           /\ \A page \in Pages :
                  Translation(page) \in [present : BOOLEAN, us : BOOLEAN, frame : Frames]
           /\ \A us \in BOOLEAN, frame \in Frames :
                  Present(us, frame) \in [present : BOOLEAN, us : BOOLEAN, frame : Frames]
BY DEF PagingTypeOK, NoTlb, Absent, Translation, Present, Frames, VideoFrame, KernelFrame

(* Before paging is on there is nothing to reach.                          *)
LEMMA PagingStarts == PagingStart => PagingInv
<1> SUFFICES ASSUME PagingStart PROVE PagingInv
    OBVIOUS
<1>1. PagingTypeOK
    BY DEF PagingStart, PagingTypeOK, NoTlb, Absent, Frames, VideoFrame
<1>2. Harmless(table) /\ Harmless(tlb)
    BY DEF PagingStart, Harmless, NoTlb, Absent
<1> QED
    BY <1>1, <1>2 DEF PagingInv

(* No step opens a page that is not the process's or the screen's.         *)
LEMMA PagingSteps == PagingInv /\ [PagingNext]_pgvars => PagingInv'
<1> SUFFICES ASSUME PagingInv, [PagingNext]_pgvars PROVE PagingInv'
    OBVIOUS
<1> USE DEF PagingInv
<1> DEFINE Entries == [present : BOOLEAN, us : BOOLEAN, frame : Frames]
<1>0. /\ NoTlb \in [Pages -> Entries]
      /\ \A page \in Pages : Translation(page) \in Entries
      /\ \A us \in BOOLEAN, frame \in Frames : Present(us, frame) \in Entries
      /\ Absent \in Entries
      /\ \A pid \in Pids : FrameOf(pid) \in Frames
      /\ VideoFrame \in Frames /\ KernelFrame \in Frames
    BY EntryTypes DEF Frames, FrameOf, Absent, VideoFrame
<1>n. Harmless(NoTlb)'
    BY DEF Harmless, NoTlb, Absent
<1>1. CASE PagingInit
    <2>1. PagingTypeOK'
        BY <1>0, <1>1 DEF PagingInit, PagingTypeOK
    <2>2. Harmless(table)'
        BY <1>1 DEF PagingInit, Harmless, Present, Absent
    <2>3. Harmless(tlb)'
        BY <1>1, <1>n DEF PagingInit
    <2> QED
        BY <2>1, <2>2, <2>3
<1>2. CASE MapPagePid
    <2>1. PICK pid \in Pids :
              /\ table' = [table EXCEPT !["program"] = Present(TRUE, FrameOf(pid))]
              /\ owner' = pid
        BY <1>2 DEF MapPagePid
    <2>2. tlb' = NoTlb /\ UNCHANGED <<paging, fault>>
        BY <1>2 DEF MapPagePid, TlbFlush
    <2>3. PagingTypeOK'
        BY <1>0, <2>1, <2>2 DEF PagingTypeOK
    <2>4. pid # -1
        BY PagingAssumption
    <2>5. Harmless(table)'
        BY <2>1, <2>4 DEF Harmless, Present, PagingTypeOK
    <2>6. Harmless(tlb)'
        BY <1>n, <2>2
    <2> QED
        BY <2>3, <2>5, <2>6
<1>3. CASE Access
    <2>1. PICK page \in Pages, user \in BOOLEAN :
              /\ tlb' = IF Reachable(page, user)
                        THEN [tlb EXCEPT ![page] = Translation(page)] ELSE tlb
              /\ fault' = ~Reachable(page, user)
        BY <1>3 DEF Access
    <2>2. UNCHANGED <<table, paging, owner>>
        BY <1>3 DEF Access
    <2>3. fault' \in BOOLEAN
        BY <2>1
    <2>4. PagingTypeOK'
        BY <1>0, <2>1, <2>2, <2>3 DEF PagingTypeOK
    <2>5. Harmless(table)'
        BY <2>2 DEF Harmless
    <2>6. Harmless(tlb)'
        BY <2>1, <2>2 DEF Harmless, Translation, PagingTypeOK
    <2> QED
        BY <2>4, <2>5, <2>6
<1>4. CASE Vidmap
    <2>1. /\ owner # -1
          /\ table' = [table EXCEPT !["vidmap"] = Present(TRUE, VideoFrame)]
          /\ tlb' = NoTlb
          /\ UNCHANGED <<paging, owner>>
          /\ fault' \in BOOLEAN
        BY <1>4 DEF Vidmap, MapPageVid, TlbFlush
    <2>2. PagingTypeOK'
        BY <1>0, <2>1 DEF PagingTypeOK
    <2>3. Harmless(table)'
        BY <2>1 DEF Harmless, Present, PagingTypeOK
    <2>4. Harmless(tlb)'
        BY <1>n, <2>1
    <2> QED
        BY <2>2, <2>3, <2>4
<1>5. CASE PageFault \/ UNCHANGED pgvars
    BY <1>5 DEF PageFault, pgvars, PagingTypeOK, Harmless
<1> QED
    BY <1>1, <1>2, <1>3, <1>4, <1>5 DEF PagingNext

(* paging.c, enable_paging.S: whatever is mapped, remembered and flushed,  *)
(* user code reaches its own memory and the screen only.                   *)
THEOREM ProcessesSeparate == PagingSpec => []OwnMemoryOnly
<1>1. PagingInv => OwnMemoryOnly
    BY DEF PagingInv, Harmless, OwnMemoryOnly, Reachable, Translation, Pages
<1> QED
    BY <1>1, PagingStarts, PagingSteps, PTL DEF PagingSpec

-----------------------------------------------------------------------------
(* grep and cat.                                                           *)

(* A text: only its last byte may be NUL.                                  *)
FileBytes == TextBytes \cup {"NUL"}
IsText(text) == text \in Seq(FileBytes) /\ \A i \in 1 .. Len(text) - 1 : text[i] # "NUL"

(* How many bytes of the file are read, and how many of them belong to     *)
(* lines that are dealt with.                                              *)
Behind == Len(content) - Len(file)
LineFrom == IF step = "line" THEN line_start ELSE 0
Dealt == Behind - last + LineFrom

(* The rest of the file is still to be read, and in the buffer is what is  *)
(* read and not dealt with.                                                *)
FileIsRest ==
    /\ IsText(content) /\ file \in Seq(FileBytes) /\ Len(file) <= Len(content)
    /\ \A i \in 1 .. Len(file) : file[i] = content[Behind + i]
BufferHolds ==
    \A i \in LineFrom .. last - 1 : data[i] = content[Behind - last + 1 + i]

(* What is printed is right for the bytes that are dealt with.  They are   *)
(* whole lines, or a line that filled the buffer lacks its end only, which *)
(* comes next and will be taken for an empty line.                         *)
LinesPrinted ==
    LET grepped == Grepped(content)[Dealt]
    IN \/ grepped.line = <<>> /\ printed = grepped.lines
       \/ /\ Dealt = Len(content) \/ content[Dealt + 1] = "NL"
          /\ printed = WithLine(grepped)

(* Between two reads the buffer is never full, and it is not full at other *)
(* times only when the file has ended.                                     *)
GrepInv ==
    /\ last \in 0 .. BufSize /\ last <= Behind
    /\ line_start \in Nat
    /\ data \in [Buffer -> FileBytes \cup Junk] /\ data[BufSize] # "NL"
    /\ BufferHolds
    /\ step = "read" => last < BufSize /\ LinesPrinted
    /\ step = "line" =>
           /\ LinesPrinted
           /\ last < BufSize \/ cnt = 0 => file = <<>>
           /\ line_start < last \/ (line_start = 0 /\ last = 0 /\ file = <<>>)
    /\ step = "done" => printed = Matching(content)

(* cat has written what it has read.                                       *)
CatInv ==
    /\ printed \in Seq(FileBytes) /\ Len(printed) = Behind
    /\ \A i \in 1 .. Behind : printed[i] = content[i]
    /\ step = "done" => file = <<>>

(* grep is not held to it for lines too long and for a buffer full of NL.  *)
OutputInv ==
    /\ program \in {"none", "grep", "cat"} /\ step \in {"read", "line", "done"}
    /\ junk \in Junk
    /\ program = "none" =>
           /\ step = "done" /\ printed = <<>> /\ last = 0 /\ line_start = 0
           /\ data = [i \in Buffer |-> junk]
    /\ program = "grep" /\ LinesFit /\ junk # "NL" => FileIsRest /\ GrepInv
    /\ program = "cat" => FileIsRest /\ CatInv

(* What the next byte of a text adds.                                      *)
AfterByte(text, n, s) ==
    IF text[n] = "NL" THEN [lines |-> WithLine(s), line |-> <<>>]
    ELSE IF text[n] = "NUL" THEN s
    ELSE [lines |-> s.lines, line |-> Append(s.line, text[n])]

(* The recursion of Grepped defines a function, as that of Printing does.  *)
LEMMA GreppedSteps ==
    ASSUME NEW text, Len(text) \in Nat
    PROVE  /\ Grepped(text)[0] = [lines |-> <<>>, line |-> <<>>]
           /\ \A n \in 1 .. Len(text) :
                  Grepped(text)[n] = AfterByte(text, n, Grepped(text)[n - 1])
<1> DEFINE none == [lines |-> <<>>, line |-> <<>>]
           IsGrepped(f, m) ==
               f = [n \in 0 .. m |-> IF n = 0 THEN none ELSE AfterByte(text, n, f[n - 1])]
           Reached == {m \in Nat : \E f : IsGrepped(f, m)}
<1> HIDE DEF none
<1>1. 0 \in Reached
  <2>1. IsGrepped([n \in 0 .. 0 |-> none], 0)
    OBVIOUS
  <2> QED
    BY <2>1
<1>2. \A m \in Reached : m + 1 \in Reached
  <2> SUFFICES ASSUME NEW m \in Reached PROVE m + 1 \in Reached
    OBVIOUS
  <2>1. PICK f : IsGrepped(f, m)
    OBVIOUS
  <2> DEFINE g == [n \in 0 .. m + 1 |-> IF n = m + 1 THEN AfterByte(text, n, f[m]) ELSE f[n]]
  <2>2. m \in Nat
    OBVIOUS
  <2> HIDE DEF Reached
  <2>3. \A n \in 0 .. m + 1 : g[n] = IF n = 0 THEN none ELSE AfterByte(text, n, g[n - 1])
    <3> TAKE n \in 0 .. m + 1
    <3>1. CASE n = m + 1
      BY <2>2, <3>1
    <3>2. CASE n # m + 1
      <4>1. n \in 0 .. m /\ g[n] = f[n]
        BY <2>2, <3>2
      <4>2. f[n] = IF n = 0 THEN none ELSE AfterByte(text, n, f[n - 1])
        BY <2>1, <4>1
      <4>3. n # 0 => g[n - 1] = f[n - 1]
        BY <2>2, <4>1
      <4> QED
        BY <4>1, <4>2, <4>3
    <3> QED
      BY <3>1, <3>2
  <2>4. IsGrepped(g, m + 1)
    <3> HIDE DEF g
    <3>1. g = [n \in 0 .. m + 1 |-> g[n]]
      BY DEF g
    <3> QED
      BY <2>3, <3>1
  <2>5. m + 1 \in Nat
    BY <2>2
  <2> QED
    BY <2>4, <2>5 DEF Reached
<1>3. Reached = Nat
  <2>1. Reached \subseteq Nat
    OBVIOUS
  <2> HIDE DEF Reached
  <2> QED
    BY <1>1, <1>2, <2>1, Induction
<1>4. \E f : IsGrepped(f, Len(text))
  BY <1>3
<1>5. Grepped(text) = CHOOSE f : IsGrepped(f, Len(text))
  BY DEF Grepped, AfterByte, none
<1>6. IsGrepped(Grepped(text), Len(text))
  <2> HIDE DEF IsGrepped
  <2> QED
    BY <1>4, <1>5, Zenon
<1> HIDE DEF Reached
<1> QED
  BY <1>6 DEF none

(* k elements of a text from the one behind q.                             *)
Piece(text, q, k) == [i \in 1 .. k |-> text[q + i]]

(* Within a line its bytes add up.                                         *)
LEMMA GreppedPlain ==
    ASSUME NEW text, Len(text) \in Nat, NEW q \in Nat, NEW k \in Nat, q + k <= Len(text),
           Grepped(text)[q].line = <<>>,
           \A i \in 1 .. k : text[q + i] \notin {"NL", "NUL"}
    PROVE  /\ Grepped(text)[q + k].lines = Grepped(text)[q].lines
           /\ Grepped(text)[q + k].line = Piece(text, q, k)
<1> DEFINE G(n) == Grepped(text)[n]
           Good(j) == j <= k => /\ G(q + j).lines = G(q).lines
                                /\ G(q + j).line = Piece(text, q, j)
           S == {j \in Nat : Good(j)}
<1>1. 0 \in S
  BY DEF Piece
<1>2. ASSUME NEW j \in S PROVE j + 1 \in S
  <2>1. j \in Nat /\ Good(j)
    OBVIOUS
  <2>2. ASSUME j + 1 <= k
        PROVE  /\ G(q + (j + 1)).lines = G(q).lines
               /\ G(q + (j + 1)).line = Piece(text, q, j + 1)
    <3> DEFINE n == q + (j + 1)
    <3>1. n \in 1 .. Len(text) /\ n - 1 = q + j /\ j <= k /\ j + 1 \in 1 .. k
      BY <2>1, <2>2
    <3>2. text[n] # "NL" /\ text[n] # "NUL"
      BY <3>1
    <3>3. G(n) = AfterByte(text, n, G(q + j))
      <4> HIDE DEF n
      <4> QED
        BY <3>1, GreppedSteps
    <3>4. G(n).lines = G(q + j).lines /\ G(n).line = Append(G(q + j).line, text[n])
      BY <3>2, <3>3 DEF AfterByte
    <3>5. Append(Piece(text, q, j), text[n]) = Piece(text, q, j + 1)
      BY <2>1 DEF Piece
    <3> HIDE DEF n, G
    <3> QED
      BY <2>1, <3>1, <3>4, <3>5 DEF n
  <2> QED
    BY <2>1, <2>2
<1>3. S = Nat
  <2>1. S \subseteq Nat
    OBVIOUS
  <2> HIDE DEF S
  <2> QED
    BY <1>1, <1>2, <2>1, Induction
<1>4. Good(k)
  BY <1>3
<1> QED
  BY <1>4

(* How much of a piece of a line is printed: not the NUL that may end it.  *)
Printable(text, q, k) == IF k > 0 /\ text[q + k] = "NUL" THEN k - 1 ELSE k

(* And they add up but for a NUL, which is the last byte of the file.      *)
LEMMA GreppedLine ==
    ASSUME NEW text, IsText(text), NEW q \in Nat, NEW k \in Nat, q + k <= Len(text),
           Grepped(text)[q].line = <<>>,
           \A i \in 1 .. k : text[q + i] # "NL"
    PROVE  LET m == Printable(text, q, k)
           IN /\ m \in Nat /\ m <= k /\ k <= m + 1
              /\ \A i \in 1 .. m : text[q + i] # "NUL"
              /\ m # k => text[q + k] = "NUL" /\ q + k = Len(text)
              /\ Grepped(text)[q + k].lines = Grepped(text)[q].lines
              /\ Grepped(text)[q + k].line = Piece(text, q, m)
<1> DEFINE m == Printable(text, q, k)
<1>1. Len(text) \in Nat
  BY DEF IsText
<1>2. m \in Nat /\ m <= k /\ k <= m + 1 /\ (m = k \/ (m = k - 1 /\ k > 0 /\ text[q + k] = "NUL"))
      /\ (m = k /\ k > 0 => text[q + k] # "NUL")
  BY DEF Printable
<1>3. \A i \in 1 .. m : text[q + i] # "NUL"
  <2> SUFFICES ASSUME NEW i \in 1 .. m PROVE text[q + i] # "NUL"
    OBVIOUS
  <2> HIDE DEF m
  <2>1. CASE q + i <= Len(text) - 1
    <3>1. q + i \in 1 .. Len(text) - 1
      BY <1>1, <1>2, <2>1
    <3> QED
      BY <3>1 DEF IsText
  <2>2. CASE q + i > Len(text) - 1
    <3>1. i = k /\ m = k /\ k > 0
      BY <1>1, <1>2, <2>2
    <3> QED
      BY <1>2, <3>1
  <2> QED
    BY <1>1, <1>2, <2>1, <2>2
<1>4. ASSUME m # k PROVE text[q + k] = "NUL" /\ q + k = Len(text)
  <2>1. k > 0 /\ text[q + k] = "NUL"
    BY <1>2, <1>4
  <2>2. q + k \in 1 .. Len(text)
    BY <1>1, <2>1
  <2>3. q + k \notin 1 .. Len(text) - 1
    BY <2>1 DEF IsText
  <2> QED
    BY <1>1, <2>1, <2>2, <2>3
<1>5. /\ Grepped(text)[q + m].lines = Grepped(text)[q].lines
      /\ Grepped(text)[q + m].line = Piece(text, q, m)
  <2> HIDE DEF m
  <2>1. q + m <= Len(text) /\ \A i \in 1 .. m : i \in 1 .. k
    BY <1>1, <1>2
  <2>2. \A i \in 1 .. m : text[q + i] \notin {"NL", "NUL"}
    BY <1>3, <2>1
  <2> QED
    BY <1>1, <1>2, <2>1, <2>2, GreppedPlain
<1>6. Grepped(text)[q + k] = Grepped(text)[q + m]
  <2>1. CASE m = k
    BY <2>1
  <2>2. CASE m # k
    <3> DEFINE n == q + k
    <3>1. n \in 1 .. Len(text) /\ n - 1 = q + m /\ text[n] = "NUL"
      <4>1. m = k - 1 /\ text[n] = "NUL" /\ k > 0
        BY <1>2, <2>2
      <4> HIDE DEF m
      <4> QED
        BY <1>1, <4>1
    <3> HIDE DEF n, m
    <3>2. Grepped(text)[n] = AfterByte(text, n, Grepped(text)[n - 1])
      BY <1>1, <3>1, GreppedSteps
    <3>3. AfterByte(text, n, Grepped(text)[n - 1]) = Grepped(text)[n - 1]
      BY <3>1 DEF AfterByte
    <3> QED
      BY <3>1, <3>2, <3>3 DEF n
  <2> QED
    BY <2>1, <2>2
<1> HIDE DEF m
<1>7. /\ m \in Nat /\ m <= k /\ k <= m + 1
      /\ \A i \in 1 .. m : text[q + i] # "NUL"
      /\ m # k => text[q + k] = "NUL" /\ q + k = Len(text)
      /\ Grepped(text)[q + k].lines = Grepped(text)[q].lines
      /\ Grepped(text)[q + k].line = Piece(text, q, m)
  BY <1>2, <1>3, <1>4, <1>5, <1>6
<1> QED
  BY <1>7 DEF m

(* The end of a line, and what an empty line and the end of the text do.   *)
LEMMA LineEnds ==
    ASSUME NEW text, Len(text) \in Nat, NEW q \in Nat, q + 1 <= Len(text),
           text[q + 1] = "NL"
    PROVE  /\ Grepped(text)[q + 1].line = <<>>
           /\ Grepped(text)[q + 1].lines = WithLine(Grepped(text)[q])
<1> DEFINE n == q + 1
<1>1. n \in 1 .. Len(text) /\ n - 1 = q
  OBVIOUS
<1> HIDE DEF n
<1>2. Grepped(text)[n] = AfterByte(text, n, Grepped(text)[n - 1])
  BY <1>1, GreppedSteps
<1> QED
  BY <1>1, <1>2 DEF AfterByte, n

(* An empty line is not printed: grep looks for something.                 *)
LEMMA EmptyLine ==
    ASSUME NEW s, s.line = <<>>
    PROVE  WithLine(s) = s.lines
<1>1. ~Matches(<<>>)
  <2>1. Len(<<>>) = 0
    OBVIOUS
  <2> QED
    BY <2>1 DEF Matches
<1> QED
  BY <1>1 DEF WithLine

-----------------------------------------------------------------------------
(* Lines and strings in the buffer.                                        *)

(* The loop that looks for the end of a line finds it.                     *)
LEMMA LineEndFound ==
    ASSUME last \in Nat, line_start \in Nat, line_start <= last
    PROVE  /\ LineEnd \in line_start .. last
           /\ LineEnd = last \/ data[LineEnd] = "NL"
           /\ \A i \in line_start .. LineEnd - 1 : data[i] # "NL"
<1> DEFINE Ends == {e \in line_start .. last : e = last \/ data[e] = "NL"}
<1>1. PICK e \in Ends : \A n \in Ends : e <= n
  <2>1. last \in Ends /\ Ends \subseteq Nat
    OBVIOUS
  <2> HIDE DEF Ends
  <2> QED
    BY <2>1, LeastElement
<1>2. \A i \in line_start .. e - 1 : data[i] # "NL"
  <2> SUFFICES ASSUME NEW i \in line_start .. e - 1, data[i] = "NL" PROVE FALSE
    OBVIOUS
  <2>1. i \in Ends /\ i < e
    OBVIOUS
  <2> HIDE DEF Ends
  <2> QED
    BY <1>1, <2>1
<1>3. \E f \in line_start .. last :
        /\ f = last \/ data[f] = "NL"
        /\ \A i \in line_start .. f - 1 : data[i] # "NL"
  BY <1>1, <1>2
<1> QED
  BY <1>3, Zenon DEF LineEnd

(* A string of some length in a buffer, which ends at the first NUL.       *)
IsString(buf, from, len) ==
    /\ from \in Nat /\ len \in Nat /\ from + len <= BufSize
    /\ buf[from + len] = "NUL"
    /\ \A i \in from .. from + len - 1 : buf[i] # "NUL"
StringAt(buf, from, len) == [k \in 1 .. len |-> buf[from + k - 1]]

(* That is how the string functions see it.                                *)
LEMMA StringEnds ==
    ASSUME NEW buf, NEW from, NEW len, IsString(buf, from, len)
    PROVE  CString(buf, from) = StringAt(buf, from, len)
<1> DEFINE IsEnd(e) == /\ e = BufSize + 1 \/ buf[e] = "NUL"
                       /\ \A i \in from .. e - 1 : buf[i] # "NUL"
           end == CHOOSE e \in from .. BufSize + 1 : IsEnd(e)
<1>1. BufSize \in Nat /\ from \in Nat /\ len \in Nat
  BY ProgramsAssumption DEF IsString
<1>2. from + len \in from .. BufSize + 1 /\ IsEnd(from + len)
  BY <1>1 DEF IsString
<1>3. end \in from .. BufSize + 1 /\ IsEnd(end)
  <2> HIDE DEF IsEnd
  <2> QED
    BY <1>2
<1>4. CString(buf, from) = [k \in 1 .. end - from |-> buf[from + k - 1]]
  BY DEF CString
<1> HIDE DEF end
<1>5. ~ (end < from + len)
  BY <1>1, <1>3 DEF IsString
<1>6. ~ (end > from + len)
  BY <1>1, <1>3 DEF IsString
<1>7. end - from = len
  BY <1>1, <1>3, <1>5, <1>6
<1> QED
  BY <1>4, <1>7 DEF StringAt

(* The search in the line from ls to e, of which a NUL at its end is no    *)
(* part, is a search in the string that begins at ls.                      *)
LEMMA LineIsSearched ==
    ASSUME NEW buf, NEW ls, NEW len, IsString(buf, ls, len),
           NEW e \in Nat, e <= BufSize, ls + len <= e, e <= ls + len + 1
    PROVE  /\ CString(buf, ls) = StringAt(buf, ls, len)
           /\ (\E check \in ls .. e - 1 : StartsWith(CString(buf, check), Search))
                  <=> Matches(StringAt(buf, ls, len))
<1> DEFINE line == StringAt(buf, ls, len)
<1>1. /\ BufSize \in Nat /\ Search \in Seq(TextBytes) /\ Len(Search) \in Nat /\ Len(Search) > 0
      /\ ls \in Nat /\ len \in Nat
  BY ProgramsAssumption DEF IsString
<1>2. CString(buf, ls) = line
  BY StringEnds
<1>3. ASSUME NEW j \in 0 .. len
      PROVE  CString(buf, ls + j) = StringAt(buf, ls + j, len - j)
  <2>1. IsString(buf, ls + j, len - j)
    BY <1>1 DEF IsString
  <2> QED
    BY <2>1, StringEnds
<1>4. Len(line) = len
  BY <1>1 DEF StringAt
<1>5. ASSUME NEW j \in 0 .. len - 1
      PROVE  CString(buf, ls + j) = SubSeq(line, j + 1, Len(line))
  <2>1. SubSeq(line, j + 1, len) = [k \in 1 .. len - j |-> buf[(ls + j) + k - 1]]
    BY <1>1 DEF StringAt
  <2>2. CString(buf, ls + j) = StringAt(buf, ls + j, len - j)
    BY <1>1, <1>3
  <2> HIDE DEF line
  <2> QED
    BY <1>4, <2>1, <2>2 DEF StringAt
<1> HIDE DEF line
<1>6. ASSUME Matches(line)
      PROVE  \E check \in ls .. e - 1 : StartsWith(CString(buf, check), Search)
  <2>1. PICK n \in 1 .. Len(line) : IsPrefix(Search, SubSeq(line, n, Len(line)))
    BY <1>6 DEF Matches
  <2> DEFINE j == n - 1
  <2>2. j \in 0 .. len - 1 /\ n = j + 1 /\ ls + j \in ls .. e - 1
    BY <1>1, <1>4
  <2> HIDE DEF j
  <2>3. StartsWith(CString(buf, ls + j), Search)
    BY <1>5, <2>1, <2>2 DEF StartsWith
  <2> QED
    BY <2>2, <2>3
<1>7. ASSUME NEW check \in ls .. e - 1, StartsWith(CString(buf, check), Search)
      PROVE  Matches(line)
  <2> DEFINE j == check - ls
  <2>1. j \in 0 .. len /\ check = ls + j
    BY <1>1
  <2> HIDE DEF j
  <2>2. CASE j = len
    <3>1. CString(buf, check) = StringAt(buf, check, 0)
      BY <1>1, <1>3, <2>1, <2>2
    <3>2. Len(CString(buf, check)) = 0
      BY <3>1 DEF StringAt
    <3>3. Len(Search) <= Len(CString(buf, check))
      BY <1>7 DEF StartsWith, IsPrefix
    <3> QED
      BY <1>1, <3>2, <3>3
  <2>3. CASE j # len
    <3>1. j \in 0 .. len - 1 /\ j + 1 \in 1 .. Len(line)
      BY <1>1, <1>4, <2>1, <2>3
    <3>2. IsPrefix(Search, SubSeq(line, j + 1, Len(line)))
      BY <1>5, <1>7, <2>1, <3>1 DEF StartsWith
    <3> QED
      BY <3>1, <3>2 DEF Matches
  <2> QED
    BY <2>2, <2>3
<1> QED
  BY <1>2, <1>6, <1>7 DEF line

-----------------------------------------------------------------------------
(* The steps of grep.                                                      *)

(* How much of what is left fits what is free.                             *)
LEMMA SmallerFits ==
    ASSUME NEW a \in Nat, NEW b \in Nat
    PROVE  LET n == Min({a, b})
           IN n \in Nat /\ n <= a /\ n <= b /\ (n = a \/ n = b)
BY SmallerOf

(* What a read takes off a file.                                           *)
LEMMA FileShrinks ==
    ASSUME FileIsRest, NEW n \in Nat, n <= Len(file),
           file' = SubSeq(file, n + 1, Len(file)), content' = content
    PROVE  /\ FileIsRest' /\ Behind' = Behind + n /\ Behind \in Nat
           /\ Len(file') = Len(file) - n
<1>1. /\ IsText(content) /\ file \in Seq(FileBytes) /\ Len(file) \in Nat /\ Len(content) \in Nat
      /\ Len(file) <= Len(content)
      /\ \A i \in 1 .. Len(file) : file[i] = content[Behind + i]
  BY DEF FileIsRest, IsText
<1>2. /\ file' \in Seq(FileBytes) /\ Len(file') = Len(file) - n
      /\ \A i \in 1 .. Len(file) - n : file'[i] = file[n + i]
  <2>1. /\ file' = [i \in 1 .. Len(file) - n |-> file[n + i]]
    BY <1>1
  <2>2. \A i \in 1 .. Len(file) - n : n + i \in 1 .. Len(file)
    BY <1>1
  <2>3. \A i \in 1 .. Len(file) - n : file[n + i] \in FileBytes
    BY <1>1, <2>2
  <2> DEFINE m == Len(file) - n
  <2>4. m \in Nat
    BY <1>1
  <2> HIDE DEF m
  <2>5. file' = [i \in 1 .. m |-> file[n + i]] /\ \A i \in 1 .. m : file[n + i] \in FileBytes
    BY <2>1, <2>3 DEF m
  <2>6. file' \in Seq(FileBytes) /\ Len(file') = m /\ \A i \in 1 .. m : file'[i] = file[n + i]
    BY <2>4, <2>5
  <2> QED
    BY <2>6 DEF m
<1>3. Behind \in Nat /\ Behind' = Behind + n
  <2>1. Len(file') = Len(file) - n /\ Len(content') = Len(content)
    BY <1>2
  <2>2. Behind = Len(content) - Len(file) /\ Behind' = Len(content) - (Len(file) - n)
    BY <2>1 DEF Behind
  <2> QED
    BY <1>1, <2>2
<1>4. ASSUME NEW i \in 1 .. Len(file') PROVE file'[i] = content[Behind' + i]
  <2>1. n + i \in 1 .. Len(file) /\ Behind' + i = Behind + (n + i) /\ file'[i] = file[n + i]
    BY <1>1, <1>2, <1>3
  <2> QED
    BY <1>1, <2>1
<1>5. IsText(content)'
  BY <1>1 DEF IsText
<1> QED
  BY <1>1, <1>2, <1>3, <1>4, <1>5 DEF FileIsRest

(* If lines fit, as many bytes without NL as the buffer holds are a line.  *)
LEMMA Fitting ==
    ASSUME FileIsRest, LinesFit, NEW q \in Nat, q + BufSize <= Len(content),
           \A i \in 1 .. BufSize : content[q + i] # "NL"
    PROVE  q + BufSize = Len(content) \/ content[q + BufSize + 1] = "NL"
<1> SUFFICES ASSUME q + BufSize < Len(content), content[q + BufSize + 1] # "NL"
             PROVE  FALSE
  <2> QED
    BY ProgramsAssumption DEF FileIsRest, IsText
<1> DEFINE i == q + 1
           j == q + BufSize + 1
<1>1. BufSize \in Nat /\ Len(content) \in Nat
  BY ProgramsAssumption DEF FileIsRest, IsText
<1>2. i \in 1 .. Len(content) /\ j \in 1 .. Len(content) /\ ~ (j - i < BufSize)
  BY <1>1
<1>3. ASSUME NEW k \in i .. j PROVE content[k] # "NL"
  <2>1. CASE k = j
    BY <2>1
  <2>2. CASE k # j
    <3>1. k - q \in 1 .. BufSize /\ q + (k - q) = k
      BY <1>1, <2>2
    <3> QED
      BY <3>1
  <2> QED
    BY <2>1, <2>2
<1> HIDE DEF i, j
<1> QED
  BY <1>2, <1>3 DEF LinesFit

(* The bounds of all that is counted.                                      *)
LEMMA GrepBounds ==
    ASSUME FileIsRest, GrepInv
    PROVE  /\ BufSize \in Nat /\ BufSize > 0 /\ last \in Nat /\ last <= BufSize
           /\ line_start \in Nat /\ Len(content) \in Nat /\ Len(file) \in Nat
           /\ Behind \in Nat /\ Behind = Len(content) - Len(file) /\ last <= Behind
           /\ LineFrom \in Nat
BY ProgramsAssumption DEF FileIsRest, GrepInv, IsText, Behind, LineFrom

(* A read fills the buffer behind what is left of the last line.           *)
LEMMA GrepReadSteps ==
    ASSUME FileIsRest, GrepInv, GrepRead
    PROVE  FileIsRest' /\ GrepInv'
<1> DEFINE n == Min({BufSize - last, Len(file)})
<1>1. /\ step = "read" /\ step' = "line" /\ cnt' = n /\ data' = Filled(last, n)
      /\ last' = last + n /\ file' = SubSeq(file, n + 1, Len(file)) /\ line_start' = 0
      /\ UNCHANGED <<junk, printed, content>>
  BY DEF GrepRead
<1>2. /\ BufSize \in Nat /\ BufSize > 0 /\ last \in Nat /\ last < BufSize
      /\ Len(content) \in Nat /\ Len(file) \in Nat /\ Behind \in Nat /\ last <= Behind
      /\ Behind = Len(content) - Len(file)
  BY <1>1, GrepBounds DEF GrepInv
<1>3. n \in Nat /\ n <= BufSize - last /\ n <= Len(file) /\ (n = BufSize - last \/ n = Len(file))
  <2>1. BufSize - last \in Nat
    BY <1>2
  <2> QED
    BY <1>2, <2>1, SmallerFits
<1> HIDE DEF n
<1>4. FileIsRest' /\ Behind' = Behind + n /\ Len(file') = Len(file) - n
  BY <1>1, <1>3, FileShrinks
<1>5. LineFrom = 0 /\ LineFrom' = 0
  BY <1>1 DEF LineFrom
<1>6. data' \in [Buffer -> FileBytes \cup Junk] /\ data'[BufSize] # "NL"
  <2>1. \A i \in last .. last + n - 1 : file[i - last + 1] \in FileBytes
    <3>1. file \in Seq(FileBytes) /\ \A i \in last .. last + n - 1 : i - last + 1 \in 1 .. Len(file)
      BY <1>2, <1>3 DEF FileIsRest
    <3> QED
      BY <3>1
  <2>2. data \in [Buffer -> FileBytes \cup Junk] /\ data[BufSize] # "NL"
    BY DEF GrepInv
  <2>3. BufSize \in Buffer /\ BufSize \notin last .. last + n - 1
    BY <1>2, <1>3 DEF Buffer
  <2> QED
    BY <1>1, <2>1, <2>2, <2>3 DEF Filled
<1>7. BufferHolds'
  <2> SUFFICES ASSUME NEW i \in 0 .. last + n - 1
               PROVE  data'[i] = content[Behind - last + 1 + i]
    <3>1. last' - 1 = last + n - 1 /\ Behind' - last' + 1 = Behind - last + 1
      BY <1>1, <1>2, <1>3, <1>4
    <3>2. content' = content
      BY <1>1
    <3> QED
      BY <1>5, <3>1, <3>2 DEF BufferHolds
  <2>1. i \in Buffer
    BY <1>2, <1>3 DEF Buffer
  <2>2. CASE i < last
    <3>1. data'[i] = data[i] /\ i \in LineFrom .. last - 1
      BY <1>1, <1>2, <1>5, <2>1, <2>2 DEF Filled
    <3> QED
      BY <3>1 DEF GrepInv, BufferHolds
  <2>3. CASE i >= last
    <3>1. data'[i] = file[i - last + 1]
      BY <1>1, <1>2, <1>3, <2>1, <2>3 DEF Filled
    <3>2. i - last + 1 \in 1 .. Len(file) /\ Behind + (i - last + 1) = Behind - last + 1 + i
      BY <1>2, <1>3, <2>3
    <3> QED
      BY <3>1, <3>2 DEF FileIsRest
  <2> QED
    BY <1>2, <2>2, <2>3
<1>8. LinesPrinted'
  <2>1. Dealt' = Dealt
    BY <1>1, <1>2, <1>3, <1>4, <1>5 DEF Dealt
  <2>2. LinesPrinted
    BY <1>1 DEF GrepInv
  <2> QED
    BY <1>1, <2>1, <2>2 DEF LinesPrinted
<1>9. file' \in Seq(FileBytes) /\ (Len(file') = 0 => file' = <<>>)
  BY <1>4 DEF FileIsRest
<1>10. last + n < BufSize \/ n = 0 => file' = <<>>
  BY <1>2, <1>3, <1>4, <1>9
<1>11. 0 < last + n \/ (last + n = 0 /\ file' = <<>>)
  BY <1>2, <1>3, <1>10
<1>12. last + n \in 0 .. BufSize /\ last + n <= Behind + n
  BY <1>2, <1>3
<1> QED
  BY <1>1, <1>4, <1>6, <1>7, <1>8, <1>10, <1>11, <1>12 DEF GrepInv


(* The line that begins where the bytes that are dealt with end: where it  *)
(* ends in the buffer and in the file, and which string the buffer holds   *)
(* once it is terminated.                                                  *)
LEMMA LineInBuffer ==
    ASSUME FileIsRest, GrepInv, step = "line"
    PROVE  LET k == LineEnd - line_start
           IN /\ LineEnd \in Nat /\ line_start <= LineEnd /\ LineEnd <= last /\ k \in Nat
              /\ Dealt \in Nat /\ Dealt + k = Behind - last + LineEnd
              /\ Dealt + k <= Len(content)
              /\ \A i \in 1 .. k : /\ data[line_start + i - 1] = content[Dealt + i]
                                   /\ content[Dealt + i] # "NL"
              /\ LineEnd = last \/ data[LineEnd] = "NL"
              /\ LineEnd < last => data[LineEnd] = content[Dealt + k + 1]
              /\ Terminated \in [Buffer -> FileBytes \cup Junk] /\ Terminated[BufSize] # "NL"
              /\ Terminated[LineEnd] = "NUL"
              /\ \A i \in Buffer : i # LineEnd => Terminated[i] = data[i]
<1> DEFINE e == LineEnd
           k == e - line_start
<1>1. /\ BufSize \in Nat /\ last \in Nat /\ last <= BufSize /\ line_start \in Nat
      /\ Len(content) \in Nat /\ Len(file) \in Nat /\ Behind \in Nat /\ last <= Behind
      /\ Behind = Len(content) - Len(file)
  BY GrepBounds
<1>2. line_start <= last
  BY <1>1 DEF GrepInv
<1>3. /\ e \in line_start .. last /\ (e = last \/ data[e] = "NL")
      /\ \A i \in line_start .. e - 1 : data[i] # "NL"
  BY <1>1, <1>2, LineEndFound
<1>4. LineFrom = line_start /\ Dealt = Behind - last + line_start
  BY DEF LineFrom, Dealt
<1>5. \A i \in line_start .. last - 1 : data[i] = content[Behind - last + 1 + i]
  BY <1>4 DEF GrepInv, BufferHolds
<1>6. Terminated = [data EXCEPT ![e] = "NUL"]
  BY DEF Terminated
<1> HIDE DEF e
<1>7. /\ e \in Nat /\ line_start <= e /\ e <= last /\ k \in Nat
      /\ Dealt \in Nat /\ Dealt + k = Behind - last + e /\ Dealt + k <= Len(content)
  BY <1>1, <1>3, <1>4
<1>8. ASSUME NEW i \in 1 .. k
      PROVE  data[line_start + i - 1] = content[Dealt + i] /\ content[Dealt + i] # "NL"
  <2>1. /\ line_start + i - 1 \in line_start .. e - 1
        /\ line_start + i - 1 \in line_start .. last - 1
        /\ Behind - last + 1 + (line_start + i - 1) = Dealt + i
    BY <1>1, <1>4, <1>7
  <2>2. data[line_start + i - 1] # "NL"
    BY <1>3, <2>1 DEF e
  <2>3. data[line_start + i - 1] = content[Dealt + i]
    BY <1>5, <2>1
  <2> QED
    BY <2>2, <2>3
<1>9. ASSUME e < last PROVE data[e] = content[Dealt + k + 1]
  <2>1. e \in line_start .. last - 1 /\ Behind - last + 1 + e = Dealt + k + 1
    BY <1>1, <1>4, <1>7, <1>9
  <2> QED
    BY <1>5, <2>1
<1>10. /\ Terminated \in [Buffer -> FileBytes \cup Junk] /\ Terminated[BufSize] # "NL"
       /\ Terminated[e] = "NUL"
       /\ \A i \in Buffer : i # e => Terminated[i] = data[i]
  <2>1. data \in [Buffer -> FileBytes \cup Junk] /\ data[BufSize] # "NL"
    BY DEF GrepInv
  <2>2. e \in Buffer /\ BufSize \in Buffer /\ "NUL" \in FileBytes
    BY <1>1, <1>7 DEF Buffer, FileBytes
  <2> QED
    BY <1>6, <2>1, <2>2
<1> QED
  BY <1>3, <1>7, <1>8, <1>9, <1>10 DEF e

(* Of a line that is not printed yet, the buffer holds what Grepped says.  *)
LEMMA LineIsString ==
    ASSUME FileIsRest, GrepInv, step = "line", Grepped(content)[Dealt].line = <<>>
    PROVE  LET k == LineEnd - line_start
               m == Printable(content, Dealt, k)
           IN /\ m \in Nat /\ m <= k /\ k <= m + 1
              /\ m # k => content[Dealt + k] = "NUL"
              /\ IsString(Terminated, line_start, m)
              /\ Grepped(content)[Dealt + k].lines = Grepped(content)[Dealt].lines
              /\ Grepped(content)[Dealt + k].line = StringAt(Terminated, line_start, m)
<1> DEFINE q == Dealt
           e == LineEnd
           ls == line_start
           k == e - ls
           m == Printable(content, q, k)
<1>1. /\ BufSize \in Nat /\ last \in Nat /\ last <= BufSize /\ ls \in Nat
  BY GrepBounds
<1>2. /\ e \in Nat /\ ls <= e /\ e <= last /\ k \in Nat /\ q \in Nat /\ q + k <= Len(content)
      /\ \A i \in 1 .. k : data[ls + i - 1] = content[q + i] /\ content[q + i] # "NL"
      /\ Terminated[e] = "NUL"
      /\ \A i \in Buffer : i # e => Terminated[i] = data[i]
  BY LineInBuffer
<1>3. IsText(content)
  BY DEF FileIsRest
<1> HIDE DEF q, e
<1>4. /\ m \in Nat /\ m <= k /\ k <= m + 1
      /\ \A i \in 1 .. m : content[q + i] # "NUL"
      /\ m # k => content[q + k] = "NUL"
      /\ Grepped(content)[q + k].lines = Grepped(content)[q].lines
      /\ Grepped(content)[q + k].line = Piece(content, q, m)
  <2>1. Grepped(content)[q].line = <<>> /\ \A i \in 1 .. k : content[q + i] # "NL"
    BY <1>2 DEF q
  <2>2. q \in Nat /\ k \in Nat /\ q + k <= Len(content)
    BY <1>2
  <2> HIDE DEF k
  <2>3. /\ m \in Nat /\ m <= k /\ k <= m + 1
        /\ \A i \in 1 .. m : content[q + i] # "NUL"
        /\ m # k => content[q + k] = "NUL" /\ q + k = Len(content)
        /\ Grepped(content)[q + k].lines = Grepped(content)[q].lines
        /\ Grepped(content)[q + k].line = Piece(content, q, m)
    BY <1>3, <2>1, <2>2, GreppedLine
  <2> QED
    BY <2>3, Zenon
<1> HIDE DEF m
<1>5. \A i \in 1 .. k : Terminated[ls + i - 1] = content[q + i]
  <2> SUFFICES ASSUME NEW i \in 1 .. k PROVE Terminated[ls + i - 1] = content[q + i]
    OBVIOUS
  <2>1. ls + i - 1 \in Buffer /\ ls + i - 1 # e
    BY <1>1, <1>2 DEF Buffer
  <2> QED
    BY <1>2, <2>1
<1>6. IsString(Terminated, ls, m)
  <2>1. ls \in Nat /\ m \in Nat /\ ls + m <= BufSize
    BY <1>1, <1>2, <1>4
  <2>2. Terminated[ls + m] = "NUL"
    <3>1. CASE m = k
      <4>1. ls + m = e
        BY <1>1, <1>2, <3>1
      <4> QED
        BY <1>2, <4>1
    <3>2. CASE m # k
      <4>1. k \in 1 .. k /\ ls + m = ls + k - 1
        BY <1>1, <1>2, <1>4, <3>2
      <4> QED
        BY <1>4, <1>5, <3>2, <4>1
    <3> QED
      BY <3>1, <3>2
  <2>3. ASSUME NEW i \in ls .. ls + m - 1 PROVE Terminated[i] # "NUL"
    <3> DEFINE j == i - ls + 1
    <3>1. j \in 1 .. m /\ j \in 1 .. k /\ ls + j - 1 = i
      BY <1>1, <1>2, <1>4
    <3> HIDE DEF j
    <3> QED
      BY <1>4, <1>5, <3>1
  <2> QED
    BY <2>1, <2>2, <2>3 DEF IsString
<1>7. StringAt(Terminated, ls, m) = Piece(content, q, m)
  <2>1. \A i \in 1 .. m : i \in 1 .. k
    BY <1>2, <1>4
  <2> QED
    BY <1>5, <2>1 DEF StringAt, Piece
<1> QED
  BY <1>4, <1>6, <1>7 DEF m, q, e

(* What is left of a line goes to the front of the buffer.                 *)
LEMMA GrepCarrySteps ==
    ASSUME FileIsRest, GrepInv, GrepCarry
    PROVE  GrepInv'
<1> DEFINE q == Dealt
           e == LineEnd
           ls == line_start
           k == e - ls
           m == Printable(content, q, k)
           buf == Terminated
<1>1. /\ step = "line" /\ step' = "read" /\ data' = StrCpy(buf, ls) /\ last' = last - ls
      /\ data[e] # "NL" /\ ls # 0
      /\ UNCHANGED <<file, junk, cnt, line_start, printed, content>>
  BY DEF GrepCarry, Unfinished
<1>2. /\ BufSize \in Nat /\ last \in Nat /\ last <= BufSize /\ ls \in Nat
      /\ Len(content) \in Nat /\ Behind \in Nat /\ last <= Behind /\ Behind <= Len(content)
  BY GrepBounds
<1>3. /\ e = last /\ k \in Nat /\ q \in Nat /\ q + k = Behind
      /\ \A i \in 1 .. k : data[ls + i - 1] = content[q + i]
      /\ buf \in [Buffer -> FileBytes \cup Junk] /\ buf[BufSize] # "NL"
      /\ \A i \in Buffer : i # e => buf[i] = data[i]
  <2>1. /\ e \in Nat /\ (e = last \/ data[e] = "NL") /\ k \in Nat /\ q \in Nat
        /\ q + k = Behind - last + e
        /\ \A i \in 1 .. k : data[ls + i - 1] = content[q + i]
        /\ buf \in [Buffer -> FileBytes \cup Junk] /\ buf[BufSize] # "NL"
        /\ \A i \in Buffer : i # e => buf[i] = data[i]
    BY <1>1, LineInBuffer
  <2>2. e = last
    BY <1>1, <2>1
  <2>3. q + k = Behind
    BY <1>2, <2>1, <2>2
  <2> QED
    BY <2>1, <2>2, <2>3
<1>4. ls < last /\ k = last - ls /\ k < BufSize
  <2>1. ls < last
    BY <1>1 DEF GrepInv
  <2> QED
    BY <1>1, <1>2, <1>3, <2>1
<1>5. Grepped(content)[q].line = <<>> /\ printed = Grepped(content)[q].lines
  <2>1. LinesPrinted
    BY <1>1 DEF GrepInv
  <2>2. ~ (q = Len(content) \/ content[q + 1] = "NL")
    <3>1. q # Len(content) /\ 1 \in 1 .. k
      BY <1>2, <1>3, <1>4
    <3>2. content[q + 1] # "NL"
      BY <1>1, <3>1, LineInBuffer
    <3> QED
      BY <3>1, <3>2
  <2> QED
    BY <2>1, <2>2 DEF LinesPrinted
<1>6. /\ m \in Nat /\ m <= k /\ k <= m + 1 /\ (m # k => content[q + k] = "NUL")
      /\ IsString(buf, ls, m)
  BY <1>1, <1>5, LineIsString
<1> HIDE DEF q, e, buf
<1>7. Len(CString(buf, ls)) = m
  <2> HIDE DEF m
  <2>1. CString(buf, ls) = StringAt(buf, ls, m)
    BY <1>6, StringEnds
  <2> QED
    BY <1>6, <2>1 DEF StringAt
<1> HIDE DEF m
<1>8. data' = [i \in Buffer |-> IF i < m THEN buf[ls + i]
                                ELSE IF i = m THEN "NUL" ELSE buf[i]]
  BY <1>1, <1>7 DEF StrCpy
<1>9. data' \in [Buffer -> FileBytes \cup Junk] /\ data'[BufSize] # "NL"
  <2>1. \A i \in Buffer : i < m => ls + i \in Buffer
    BY <1>2, <1>4, <1>6 DEF Buffer
  <2>2. "NUL" \in FileBytes
    BY DEF FileBytes
  <2>3. BufSize \in Buffer /\ ~ (BufSize < m)
    BY <1>2, <1>4, <1>6 DEF Buffer
  <2> QED
    BY <1>3, <1>8, <2>1, <2>2, <2>3
<1>10. LineFrom' = 0 /\ Behind' = Behind /\ last' = k
  BY <1>1, <1>4 DEF LineFrom, Behind
<1>11. BufferHolds'
  <2> SUFFICES ASSUME NEW i \in 0 .. k - 1 PROVE data'[i] = content[Behind - k + 1 + i]
    BY <1>1, <1>10 DEF BufferHolds
  <2>1. i \in Buffer /\ Behind - k + 1 + i = q + (i + 1) /\ i + 1 \in 1 .. k
    BY <1>2, <1>3, <1>4 DEF Buffer
  <2>2. CASE i < m
    <3>1. data'[i] = buf[ls + i]
      BY <1>8, <2>1, <2>2
    <3>2. ls + i \in Buffer /\ ls + i # e /\ ls + i = ls + (i + 1) - 1
      BY <1>2, <1>3, <1>4, <1>6, <2>2 DEF Buffer
    <3>3. data[ls + (i + 1) - 1] = content[q + (i + 1)]
      BY <1>3, <2>1
    <3> QED
      BY <1>3, <2>1, <3>1, <3>2, <3>3
  <2>3. CASE i >= m
    <3>1. i = m /\ m # k /\ q + (i + 1) = q + k
      BY <1>2, <1>3, <1>4, <1>6, <2>3
    <3>2. data'[i] = "NUL"
      BY <1>8, <2>1, <3>1
    <3> QED
      BY <1>6, <2>1, <3>1, <3>2
  <2> QED
    BY <1>6, <2>2, <2>3
<1>12. LinesPrinted'
  <2>1. Dealt' = q
    BY <1>2, <1>3, <1>10 DEF Dealt
  <2> QED
    BY <1>1, <1>5, <2>1 DEF LinesPrinted
<1>13. k \in 0 .. BufSize /\ k <= Behind /\ k < BufSize /\ ls \in Nat
  BY <1>2, <1>3, <1>4
<1> QED
  BY <1>1, <1>9, <1>10, <1>11, <1>12, <1>13 DEF GrepInv


(* A line is printed if it matches, also when it was found in its end only *)
(* after it was printed: what is left of it is an empty line.              *)
LEMMA LinePrinted ==
    ASSUME FileIsRest, GrepInv, GrepLine
    PROVE  printed' = WithLine(Grepped(content)[Dealt + (LineEnd - line_start)])
<1> DEFINE q == Dealt
           e == LineEnd
           ls == line_start
           k == e - ls
           m == Printable(content, q, k)
           found == \E check \in ls .. e - 1 :
                        StartsWith(CString(Terminated, check), Search)
           text == Grepped(content)[q + k]
<1>1. /\ step = "line"
      /\ printed' = IF found THEN Append(printed, CString(Terminated, ls)) ELSE printed
  BY DEF GrepLine
<1>2. /\ BufSize \in Nat /\ last \in Nat /\ last <= BufSize /\ ls \in Nat
      /\ Len(content) \in Nat /\ Len(file) \in Nat /\ Behind \in Nat /\ last <= Behind
      /\ Behind = Len(content) - Len(file)
  BY GrepBounds
<1>3. /\ e \in Nat /\ ls <= e /\ e <= last /\ k \in Nat /\ q \in Nat
      /\ q + k = Behind - last + e
      /\ \A i \in 1 .. k : content[q + i] # "NL"
  BY <1>1, LineInBuffer
<1>4. LinesPrinted
  BY <1>1 DEF GrepInv
<1>5. CASE Grepped(content)[q].line = <<>> /\ printed = Grepped(content)[q].lines
  <2>1. /\ m \in Nat /\ m <= k /\ k <= m + 1
        /\ IsString(Terminated, ls, m)
        /\ text.lines = Grepped(content)[q].lines
        /\ text.line = StringAt(Terminated, ls, m)
    BY <1>1, <1>5, LineIsString
  <2> HIDE DEF q, e, m, text
  <2>2. e \in Nat /\ e <= BufSize /\ ls + m <= e /\ e <= ls + m + 1
    BY <1>2, <1>3, <2>1
  <2>3. CString(Terminated, ls) = text.line /\ (found <=> Matches(text.line))
    BY <2>1, <2>2, LineIsSearched
  <2> HIDE DEF found
  <2>4. printed' = WithLine(text)
    BY <1>1, <1>5, <2>1, <2>3 DEF WithLine
  <2> QED
    BY <2>4 DEF q, e, text
<1>6. CASE /\ q = Len(content) \/ content[q + 1] = "NL"
           /\ printed = WithLine(Grepped(content)[q])
  <2> HIDE DEF q, e
  <2>1. k = 0
    <3>1. CASE q = Len(content)
      BY <1>2, <1>3, <3>1
    <3>2. CASE content[q + 1] = "NL"
      <4>1. 1 \notin 1 .. k
        BY <1>3, <3>2
      <4> QED
        BY <1>3, <4>1
    <3> QED
      BY <1>6, <3>1, <3>2
  <2>2. q + k = q /\ ~found
    BY <1>2, <1>3, <2>1
  <2> HIDE DEF found
  <2>3. printed' = WithLine(Grepped(content)[q + k])
    BY <1>1, <1>6, <2>2
  <2> QED
    BY <2>3 DEF q, e
<1> QED
  BY <1>4, <1>5, <1>6 DEF LinesPrinted

(* The last line of what was read: it is whole, or nothing follows it but  *)
(* its end.                                                                *)
LEMMA LastLineIsWhole ==
    ASSUME FileIsRest, GrepInv, GrepLine, LinesFit, LineEnd = last
    PROVE  Behind = Len(content) \/ content[Behind + 1] = "NL"
<1>1. /\ BufSize \in Nat /\ last \in Nat /\ last <= BufSize /\ line_start \in Nat
      /\ Len(content) \in Nat /\ Len(file) \in Nat /\ Behind \in Nat /\ last <= Behind
      /\ Behind = Len(content) - Len(file)
  BY GrepBounds
<1>2. CASE file = <<>>
  BY <1>1, <1>2
<1>3. CASE file # <<>>
  <2>1. step = "line" /\ ~Unfinished
    BY DEF GrepLine
  <2>2. last = BufSize /\ cnt # 0
    BY <1>1, <1>3, <2>1 DEF GrepInv
  <2>3. line_start = 0
    BY <2>1, <2>2 DEF Unfinished, GrepInv
  <2> DEFINE q == Behind - BufSize
  <2>4. Dealt = q /\ q \in Nat /\ q + BufSize = Behind /\ Behind <= Len(content)
    BY <1>1, <2>1, <2>2, <2>3 DEF Dealt, LineFrom
  <2>5. \A i \in 1 .. BufSize : content[q + i] # "NL"
    <3>1. LineEnd - line_start = BufSize
      BY <1>1, <2>2, <2>3
    <3> QED
      BY <2>1, <2>4, <3>1, LineInBuffer
  <2> HIDE DEF q
  <2>6. q + BufSize <= Len(content)
    BY <2>4
  <2> QED
    BY <2>4, <2>5, <2>6, Fitting
<1> QED
  BY <1>2, <1>3

(* A line is searched and the next one begins, in the buffer or in a read. *)
LEMMA GrepLineSteps ==
    ASSUME FileIsRest, GrepInv, GrepLine, LinesFit
    PROVE  GrepInv'
<1> DEFINE e == LineEnd
           n == Dealt + (e - line_start)
<1>1. /\ step = "line" /\ data' = Terminated /\ line_start' = e + 1
      /\ IF e + 1 >= last
         THEN last' = 0 /\ step' = IF cnt = 0 THEN "done" ELSE "read"
         ELSE last' = last /\ step' = step
      /\ UNCHANGED <<program, file, junk, cnt, content>>
  BY DEF GrepLine
<1>2. /\ BufSize \in Nat /\ BufSize > 0 /\ last \in Nat /\ last <= BufSize /\ line_start \in Nat
      /\ Len(content) \in Nat /\ Len(file) \in Nat /\ Behind \in Nat /\ last <= Behind
      /\ Behind = Len(content) - Len(file)
  BY GrepBounds
<1>3. /\ e \in Nat /\ line_start <= e /\ e <= last /\ n \in Nat
      /\ n = Behind - last + e /\ n <= Len(content)
      /\ e = last \/ data[e] = "NL"
      /\ e < last => data[e] = content[n + 1]
      /\ data' \in [Buffer -> FileBytes \cup Junk] /\ data'[BufSize] # "NL"
      /\ \A i \in Buffer : i # e => data'[i] = data[i]
  <2>1. /\ e \in Nat /\ line_start <= e /\ e <= last /\ e - line_start \in Nat /\ Dealt \in Nat
        /\ n = Behind - last + e /\ n <= Len(content)
        /\ e = last \/ data[e] = "NL"
        /\ e < last => data[e] = content[n + 1]
        /\ Terminated \in [Buffer -> FileBytes \cup Junk] /\ Terminated[BufSize] # "NL"
        /\ \A i \in Buffer : i # e => Terminated[i] = data[i]
    BY <1>1, LineInBuffer
  <2>2. n \in Nat
    BY <2>1
  <2> HIDE DEF n, e
  <2> QED
    BY <1>1, <2>1, <2>2, Zenon
<1>4. printed' = WithLine(Grepped(content)[n])
  BY LinePrinted
<1>5. e = last => Behind = Len(content) \/ content[Behind + 1] = "NL"
  BY LastLineIsWhole
<1>6. LinesPrinted /\ (last < BufSize \/ cnt = 0 => file = <<>>)
  BY <1>1 DEF GrepInv
<1> HIDE DEF e, n
<1>7. Behind' = Behind
  BY <1>1 DEF Behind
(* What follows is n or, if the end was found, the byte behind it.         *)
<1>8. CASE e < last
  <2>1. content[n + 1] = "NL" /\ n + 1 <= Len(content)
    BY <1>2, <1>3, <1>8
  <2>2. Grepped(content)[n + 1].line = <<>> /\ Grepped(content)[n + 1].lines = printed'
    BY <1>2, <1>3, <1>4, <2>1, LineEnds
  <2>3. CASE e + 1 >= last
    <3>1. last' = 0 /\ step' \in {"done", "read"} /\ n + 1 = Behind /\ (step' = "done" => cnt = 0)
      BY <1>1, <1>2, <1>3, <1>8, <2>3
    <3>2. LineFrom' = 0 /\ Dealt' = n + 1
      <4>1. LineFrom' = 0
        BY <3>1 DEF LineFrom
      <4> QED
        BY <1>2, <1>7, <3>1, <4>1 DEF Dealt
    <3>3. LinesPrinted'
      BY <1>1, <2>2, <3>2 DEF LinesPrinted
    <3>4. BufferHolds'
      BY <3>1, <3>2 DEF BufferHolds
    <3>5. ASSUME step' = "done" PROVE printed' = Matching(content)
      <4>1. n + 1 = Len(content)
        BY <1>2, <1>6, <3>1, <3>5
      <4>2. printed' = WithLine(Grepped(content)[n + 1])
        BY <2>2, EmptyLine
      <4> QED
        BY <4>1, <4>2 DEF Matching
    <3>6. line_start' \in Nat /\ last' \in 0 .. BufSize /\ last' <= Behind /\ last' < BufSize
      BY <1>1, <1>2, <1>3, <3>1
    <3> QED
      BY <1>1, <1>3, <1>7, <3>1, <3>3, <3>4, <3>5, <3>6 DEF GrepInv
  <2>4. CASE ~ (e + 1 >= last)
    <3>1. last' = last /\ step' = "line" /\ LineFrom' = e + 1 /\ e + 1 < last
      BY <1>1, <1>2, <1>3, <2>4 DEF LineFrom
    <3>2. Dealt' = n + 1
      BY <1>2, <1>3, <1>7, <3>1 DEF Dealt
    <3>3. LinesPrinted'
      BY <1>1, <2>2, <3>2 DEF LinesPrinted
    <3>4. BufferHolds'
      <4> SUFFICES ASSUME NEW i \in e + 1 .. last - 1
                   PROVE  data'[i] = content[Behind - last + 1 + i]
        BY <1>1, <1>7, <3>1 DEF BufferHolds
      <4>1. i \in Buffer /\ i # e /\ i \in LineFrom .. last - 1
        BY <1>1, <1>2, <1>3 DEF Buffer, LineFrom
      <4>2. data[i] = content[Behind - last + 1 + i]
        BY <4>1 DEF GrepInv, BufferHolds
      <4> QED
        BY <1>3, <4>1, <4>2
    <3>5. line_start' \in Nat /\ last' \in 0 .. BufSize /\ last' <= Behind /\ line_start' < last'
      BY <1>1, <1>2, <1>3, <3>1
    <3> QED
      BY <1>1, <1>3, <1>6, <1>7, <3>1, <3>3, <3>4, <3>5 DEF GrepInv
  <2> QED
    BY <2>3, <2>4
<1>9. CASE e = last
  <2>1. n = Behind /\ last' = 0 /\ step' \in {"done", "read"} /\ (step' = "done" => cnt = 0)
    BY <1>1, <1>2, <1>3, <1>9
  <2>2. LineFrom' = 0 /\ Dealt' = n
    <3>1. LineFrom' = 0
      BY <2>1 DEF LineFrom
    <3> QED
      BY <1>2, <1>7, <2>1, <3>1 DEF Dealt
  <2>3. LinesPrinted'
    BY <1>1, <1>4, <1>5, <1>9, <2>1, <2>2 DEF LinesPrinted
  <2>4. BufferHolds'
    BY <2>1, <2>2 DEF BufferHolds
  <2>5. ASSUME step' = "done" PROVE printed' = Matching(content)
    <3>1. n = Len(content)
      BY <1>2, <1>6, <2>1, <2>5
    <3> QED
      BY <1>4, <3>1 DEF Matching
  <2>6. line_start' \in Nat /\ last' \in 0 .. BufSize /\ last' <= Behind /\ last' < BufSize
    BY <1>1, <1>2, <1>3, <2>1
  <2> QED
    BY <1>1, <1>3, <1>7, <2>1, <2>3, <2>4, <2>5, <2>6 DEF GrepInv
<1> QED
  BY <1>2, <1>3, <1>8, <1>9


-----------------------------------------------------------------------------
(* cat, starts and ends.                                                   *)

(* What is joined has both parts.                                          *)
Joins(both, s, t) ==
    /\ Len(both) = Len(s) + Len(t)
    /\ \A i \in 1 .. Len(s) : both[i] = s[i]
    /\ \A i \in 1 .. Len(t) : both[Len(s) + i] = t[i]

(* \o joins.                                                               *)
LEMMA Joined ==
    ASSUME NEW T, NEW s \in Seq(T), NEW t \in Seq(T)
    PROVE  s \o t \in Seq(T) /\ Joins(s \o t, s, t)
<1>1. s \o t \in Seq(T) /\ Len(s \o t) = Len(s) + Len(t) /\ Len(s) \in Nat /\ Len(t) \in Nat
  OBVIOUS
<1>2. \A i \in 1 .. Len(s) + Len(t) :
         (s \o t)[i] = IF i <= Len(s) THEN s[i] ELSE t[i - Len(s)]
  OBVIOUS
<1> QED
  BY <1>1, <1>2 DEF Joins

(* What cat writes is what it reads.                                       *)
LEMMA CatSteps ==
    ASSUME FileIsRest, CatInv, CatCopy
    PROVE  FileIsRest' /\ CatInv'
<1> DEFINE n == Min({BufSize, Len(file)})
<1>1. /\ data' = Filled(0, n) /\ printed' = printed \o [i \in 1 .. n |-> data'[i - 1]]
      /\ file' = SubSeq(file, n + 1, Len(file)) /\ content' = content
      /\ step' = IF n = 0 THEN "done" ELSE "read"
  BY DEF CatCopy
<1>2. /\ BufSize \in Nat /\ BufSize > 0 /\ Len(file) \in Nat /\ file \in Seq(FileBytes)
      /\ \A i \in 1 .. Len(file) : file[i] = content[Behind + i]
  BY ProgramsAssumption DEF FileIsRest
<1>3. n \in Nat /\ n <= BufSize /\ n <= Len(file) /\ (n = BufSize \/ n = Len(file))
  BY <1>2, SmallerFits
<1> HIDE DEF n
<1>4. FileIsRest' /\ Behind' = Behind + n /\ Behind \in Nat /\ Len(file') = Len(file) - n
  BY <1>1, <1>3, FileShrinks
<1>5. ASSUME NEW i \in 1 .. n
      PROVE  data'[i - 1] = content[Behind + i] /\ data'[i - 1] \in FileBytes
  <2>1. i - 1 \in Buffer /\ i - 1 \in 0 .. 0 + n - 1 /\ i - 1 - 0 + 1 = i /\ i \in 1 .. Len(file)
    BY <1>2, <1>3 DEF Buffer
  <2>2. data'[i - 1] = file[i]
    BY <1>1, <2>1 DEF Filled
  <2> QED
    BY <1>2, <2>1, <2>2
<1> DEFINE new == [i \in 1 .. n |-> data'[i - 1]]
<1>6. new \in Seq(FileBytes) /\ Len(new) = n /\ \A i \in 1 .. n : new[i] = content[Behind + i]
  BY <1>3, <1>5
<1>7. printed' = printed \o new
  BY <1>1
<1> HIDE DEF new
<1>8. /\ printed' \in Seq(FileBytes) /\ Len(printed') = Behind + n
      /\ \A i \in 1 .. Behind : printed'[i] = printed[i]
      /\ \A i \in 1 .. n : printed'[Behind + i] = new[i]
  <2>1. /\ printed \in Seq(FileBytes) /\ Len(printed) = Behind
        /\ new \in Seq(FileBytes) /\ Len(new) = n
    BY <1>6 DEF CatInv
  <2>2. printed' \in Seq(FileBytes) /\ Joins(printed', printed, new)
    BY <1>7, <2>1, Joined
  <2> QED
    BY <2>1, <2>2 DEF Joins
<1>9. ASSUME NEW i \in 1 .. Behind + n PROVE printed'[i] = content[i]
  <2>1. CASE i <= Behind
    BY <1>4, <1>8, <2>1 DEF CatInv
  <2>2. CASE i > Behind
    <3>1. i - Behind \in 1 .. n /\ Behind + (i - Behind) = i
      BY <1>3, <1>4, <2>2
    <3> QED
      BY <1>6, <1>8, <3>1
  <2> QED
    BY <1>4, <2>1, <2>2
<1>10. ASSUME step' = "done" PROVE file' = <<>>
  <2>1. n = 0
    BY <1>1, <1>10
  <2>2. Len(file') = 0
    BY <1>2, <1>3, <1>4, <2>1
  <2> QED
    BY <1>4, <2>2 DEF FileIsRest
<1>11. content' = content
  BY <1>1
<1> QED
  BY <1>4, <1>8, <1>9, <1>10, <1>11 DEF CatInv

(* A program starts with a file that ends with one more byte.              *)
LEMMA ProgramStarts ==
    ASSUME OutputInv, Start
    PROVE  OutputInv'
<1>1. /\ program = "none" /\ program' \in {"grep", "cat"} /\ file' = content' /\ step' = "read"
      /\ UNCHANGED <<data, junk, last, cnt, line_start, printed>>
  BY DEF Start
<1>2. PICK text \in Files, byte \in LastBytes : content' = Append(text, byte)
  BY DEF Start
<1>3. /\ printed = <<>> /\ last = 0 /\ line_start = 0 /\ junk \in Junk
      /\ data = [i \in Buffer |-> junk]
  BY <1>1 DEF OutputInv
<1>4. BufSize \in Nat /\ BufSize > 0 /\ BufSize \in Buffer
  BY ProgramsAssumption DEF Buffer
<1>5. IsText(content')
  <2>1. PICK n \in 0 .. MaxFile : text \in [1 .. n -> TextBytes]
    BY DEF Files
  <2>2. n \in Nat /\ byte \in FileBytes
    BY ProgramsAssumption DEF FileBytes
  <2>3. text \in Seq(TextBytes) /\ Len(text) = n
    BY <2>1, <2>2
  <2>4. text \in Seq(FileBytes)
    BY <2>1, <2>2 DEF FileBytes
  <2>5. /\ content' \in Seq(FileBytes) /\ Len(content') = n + 1
        /\ \A i \in 1 .. n : content'[i] = text[i]
    BY <1>2, <2>2, <2>3, <2>4
  <2>6. \A i \in 1 .. n : content'[i] # "NUL"
    BY <2>1, <2>5, ProgramsAssumption
  <2>7. Len(content') - 1 = n
    BY <2>2, <2>5
  <2> QED
    BY <2>5, <2>6, <2>7 DEF IsText
<1>6. Len(content') \in Nat /\ Behind' = 0 /\ LineFrom' = 0 /\ Dealt' = 0
  <2>1. Len(content') \in Nat
    BY <1>5 DEF IsText
  <2>2. Behind' = 0
    BY <1>1, <2>1 DEF Behind
  <2> QED
    BY <1>1, <1>3, <2>1, <2>2 DEF LineFrom, Dealt
<1>7. FileIsRest'
  BY <1>1, <1>5, <1>6 DEF FileIsRest, IsText
<1>8. LinesPrinted'
  <2>1. Grepped(content')[0] = [lines |-> <<>>, line |-> <<>>]
    BY <1>6, GreppedSteps
  <2> QED
    BY <1>1, <1>3, <1>6, <2>1 DEF LinesPrinted
<1>9. ASSUME junk # "NL" PROVE GrepInv'
  <2>1. BufferHolds'
    BY <1>1, <1>3, <1>6 DEF BufferHolds
  <2>2. data' \in [Buffer -> FileBytes \cup Junk] /\ data'[BufSize] # "NL"
    BY <1>1, <1>3, <1>4, <1>9
  <2>3. last' \in 0 .. BufSize /\ last' <= Behind' /\ last' < BufSize /\ line_start' \in Nat
    BY <1>1, <1>3, <1>4, <1>6
  <2> QED
    BY <1>1, <1>8, <2>1, <2>2, <2>3 DEF GrepInv
<1>10. CatInv'
  BY <1>1, <1>3, <1>6 DEF CatInv
<1> QED
  BY <1>1, <1>3, <1>7, <1>9, <1>10 DEF OutputInv

(* A new stack, with nothing read or printed.                              *)
Fresh ==
    /\ program = "none" /\ step = "done"
    /\ file = <<>> /\ content = <<>> /\ printed = <<>>
    /\ junk \in Junk /\ data = [i \in Buffer |-> junk]
    /\ last = 0 /\ line_start = 0

(* Nothing is printed yet and nothing remains to be read.                  *)
LEMMA FreshIsRight == Fresh => OutputInv
<1> SUFFICES ASSUME Fresh PROVE OutputInv
  OBVIOUS
<1>1. Len(content) = 0 /\ Len(file) = 0 /\ <<>> \in Seq(FileBytes)
  BY DEF Fresh
<1>2. FileIsRest
  BY <1>1 DEF Fresh, FileIsRest, IsText, Behind
<1> QED
  BY <1>2 DEF Fresh, OutputInv

(* All steps together.                                                     *)
LEMMA OutputSteps == OutputInv /\ [ProgramsNext]_pvars => OutputInv'
<1> SUFFICES ASSUME OutputInv, [ProgramsNext]_pvars PROVE OutputInv'
  OBVIOUS
<1>1. CASE Start
  BY <1>1, ProgramStarts
<1>2. ASSUME GrepRead \/ GrepCarry \/ GrepLine PROVE OutputInv'
  <2>1. /\ program = "grep" /\ program' = "grep" /\ junk' = junk /\ content' = content
        /\ step' \in {"read", "line", "done"}
    BY <1>2 DEF GrepRead, GrepCarry, GrepLine
  <2>2. ASSUME LinesFit', junk' # "NL" PROVE FileIsRest' /\ GrepInv'
    <3>1. LinesFit /\ FileIsRest /\ GrepInv
      BY <2>1, <2>2 DEF LinesFit, OutputInv
    <3>2. CASE GrepRead
      BY <3>1, <3>2, GrepReadSteps
    <3>3. CASE GrepCarry \/ GrepLine
      <4>1. file' = file /\ content' = content
        BY <3>3 DEF GrepCarry, GrepLine
      <4>2. FileIsRest'
        BY <3>1, <4>1 DEF FileIsRest, IsText, Behind
      <4> QED
        BY <3>1, <3>3, <4>2, GrepCarrySteps, GrepLineSteps
    <3> QED
      BY <1>2, <3>2, <3>3
  <2> QED
    BY <2>1, <2>2 DEF OutputInv
<1>3. CASE CatCopy
  <2>1. /\ program = "cat" /\ program' = "cat" /\ junk' = junk /\ step' \in {"done", "read"}
    BY <1>3 DEF CatCopy
  <2>2. FileIsRest' /\ CatInv'
    BY <1>3, <2>1, CatSteps DEF OutputInv
  <2> QED
    BY <2>1, <2>2 DEF OutputInv
<1>4. CASE Exit
  <2>1. Fresh'
    BY <1>4 DEF Exit, Fresh
  <2> QED
    BY <2>1, FreshIsRight, PTL
<1>5. CASE UNCHANGED pvars
  BY <1>5 DEF pvars, OutputInv, FileIsRest, IsText, Behind, GrepInv, BufferHolds, LinesPrinted,
              LineFrom, Dealt, LinesFit, CatInv
<1> QED
  BY <1>1, <1>2, <1>3, <1>4, <1>5 DEF ProgramsNext

(* grep.c and cat.c: whatever the file, the size of the buffer and what is *)
(* looked for, grep prints the lines that match and cat the bytes.         *)
THEOREM ProgramsPrintFiles == ProgramsSpec => []ProgramOutput
<1>1. ProgramsInit => OutputInv
  BY FreshIsRight DEF ProgramsInit, Fresh
<1>2. OutputInv => ProgramOutput
  <2> SUFFICES ASSUME OutputInv, step = "done" PROVE ProgramOutput
    BY DEF ProgramOutput
  <2>1. ASSUME program = "cat" PROVE printed = content
    <3>1. FileIsRest /\ CatInv
      BY <2>1 DEF OutputInv
    <3>2. Len(file) = 0 /\ content \in Seq(FileBytes)
      BY <3>1 DEF CatInv, FileIsRest, IsText
    <3>3. Behind = Len(content)
      BY <3>2 DEF Behind
    <3> QED
      BY <3>1, <3>2, <3>3 DEF CatInv
  <2>2. ASSUME program = "grep", LinesFit, junk # "NL" PROVE printed = Matching(content)
    BY <2>2 DEF OutputInv, GrepInv
  <2> QED
    BY <2>1, <2>2 DEF ProgramOutput
<1> QED
  BY <1>1, <1>2, OutputSteps, PTL DEF ProgramsSpec

-----------------------------------------------------------------------------
(* The parts together.                                                     *)

(* The specification TLC explores is that of every part: a step of one of  *)
(* them leaves the others alone.  The theorems about the parts hold of it. *)
THEOREM PartsAreSpecified ==
    SvSpec => FsSpec /\ ScreenSpec /\ MachineSpec /\ PagingSpec /\ ProgramsSpec /\ PrintfSpec
<1> DEFINE vars == <<fsvars, scvars, mvars, pgvars, pvars, prvars>>
<1>1. SvInit => /\ FsInit /\ ScreenInit /\ MachineInit /\ PagingStart
                /\ ProgramsInit /\ PrintfInit
    BY Zenon DEF SvInit
<1>2. [SvNext]_vars => [FsNext]_fsvars
    BY Zenon DEF SvNext, FsRests
<1>3. [SvNext]_vars => [ScreenNext]_scvars
    BY Zenon DEF SvNext, ScreenRests
<1>4. [SvNext]_vars => [MachineNext]_mvars
    BY Zenon DEF SvNext, MachineRests
<1>5. [SvNext]_vars => [PagingNext]_pgvars
    BY Zenon DEF SvNext, PagingRests
<1>6. [SvNext]_vars => [ProgramsNext]_pvars
    BY Zenon DEF SvNext, ProgramsRests
<1>7. [SvNext]_vars => [PrintfNext]_prvars
    BY Zenon DEF SvNext, PrintfRests
<1> QED
    BY <1>1, <1>2, <1>3, <1>4, <1>5, <1>6, <1>7, PTL
       DEF SvSpec, FsSpec, ScreenSpec, MachineSpec, PagingSpec, ProgramsSpec, PrintfSpec

(* The machine's types: entry() goes through its steps to the end, and     *)
(* switch_task boots no shell when none is left.                           *)
LEMMA MachineTypes == MachineSpec => []MachineTypeOK
<1> DEFINE Inv == Serving /\ MachineTypeOK
           Steps == Len(BootOrder)
<1>1. Steps \in Nat /\ DOMAIN BootOrder = 1 .. Steps
    BY DEF BootOrder, InitWords
<1>2. MachineInit => Inv
    <2> SUFFICES ASSUME MachineInit PROVE Inv
        OBVIOUS
    <2>1. Serving
        BY MachineStarts
    <2>2. /\ pc = 1 /\ kb_full \in BOOLEAN /\ rtc \in [PIE : BOOLEAN, PF : BOOLEAN]
          /\ shells = Shells /\ harm = "no"
        <3>1. PICK masked \in BiosMasks, flag \in BOOLEAN,
                   loaded \in [good : BOOLEAN, module : BOOLEAN] : PowerOn(masked, flag, loaded)
            BY DEF MachineInit
        <3> QED
            BY <3>1 DEF PowerOn
    <2> HIDE DEF Steps
    <2> QED
        BY <1>1, <2>1, <2>2, MachineAssumption DEF MachineTypeOK, Serving, Steps
<1>3. Inv /\ [MachineNext]_mvars => Inv'
    <2> SUFFICES ASSUME Inv, [MachineNext]_mvars PROVE Inv'
        OBVIOUS
    <2>1. Serving'
        BY ServingSteps
    <2>2. pc' \in 0 .. Steps + 1
        <3>1. CASE BootStep
            <4>1. pc \in 1 .. Steps /\ pc' \in {0, pc + 1}
                <5> HIDE DEF Steps
                <5> QED
                    BY <1>1, <3>1 DEF BootStep, Checks, Prepare, Sti, Outb, Enable,
                                      InitializeRtc, At, InEntry
            <4> HIDE DEF Steps
            <4> QED
                BY <1>1, <4>1
        <3>2. CASE pc' = pc
            BY <3>2 DEF MachineTypeOK
        <3> QED
            BY <3>1, <3>2 DEF MachineNext, PitTick, KeyPress, RtcPeriod, OtherDevice, Deliver,
                              Handler, PitHandler, KeyboardHandler, RtcHandler, Spin, mvars
    <2>3. /\ kb_full' \in BOOLEAN /\ rtc' \in [PIE : BOOLEAN, PF : BOOLEAN]
          /\ harm' \in {"no", "exception", "unprepared", "triple_fault"}
        BY DEF MachineTypeOK, MachineNext, BootStep, Checks, Prepare, Sti, Outb, Enable,
               InitializeRtc, PitTick, KeyPress, RtcPeriod, OtherDevice, Deliver, Handler,
               PitHandler, KeyboardHandler, RtcHandler, Return, Spin, mvars
    <2>4. shells' \in 0 .. Shells
        <3>1. shells \in 0 .. Shells /\ Shells \in Nat
            BY MachineAssumption DEF MachineTypeOK
        <3>2. shells' = shells \/ (shells > 0 /\ shells' = shells - 1)
            BY DEF MachineNext, BootStep, Checks, Prepare, Sti, Outb, Enable,
                   InitializeRtc, PitTick, KeyPress, RtcPeriod, OtherDevice, Deliver, Handler,
                   PitHandler, KeyboardHandler, RtcHandler, Spin, mvars
        <3> QED
            BY <3>1, <3>2
    <2> HIDE DEF Steps
    <2> QED
        BY <2>1, <2>2, <2>3, <2>4 DEF MachineTypeOK, Serving, Steps
<1> QED
    BY <1>2, <1>3, PTL DEF MachineSpec

(* SvTypeOK: slots, cursors, controllers and page entries stay in their    *)
(* bounds, for any image, screen, devices and processes.                   *)
THEOREM ServicesTyping == SvSpec => []SvTypeOK
<1>1. PagingInv => PagingTypeOK
    BY DEF PagingInv
<1>2. PagingSpec => []PagingTypeOK
    BY <1>1, PagingStarts, PagingSteps, PTL DEF PagingSpec
<1> QED
    BY <1>2, PartsAreSpecified, FsTyping, BlankBehindCursor, MachineTypes, PTL DEF SvTypeOK

=============================================================================
