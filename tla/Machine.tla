------------------------------ MODULE Machine ------------------------------
(***************************************************************************)
(* From boot.S to the last shell: the steps of entry(), the interrupts     *)
(* that come between them, and the handlers of the timer, the keyboard and *)
(* the clock as far as controllers and devices go.                         *)
(*                                                                         *)
(* boot.S starts with interrupts off.  entry() turns them on as soon as it *)
(* has an IDT, before it programs the controllers: until both masks are    *)
(* set, interrupts find the vectors and masks the boot loader left, then   *)
(* none, then everything unmasked.  The model lets a controller answer     *)
(* between the words of its initialisation, as emulated ones do.           *)
(*                                                                         *)
(* After a hang nothing moves.  What handlers do to terminals, processes   *)
(* and flags is in Console and Process.                                    *)
(***************************************************************************)
EXTENDS Pic

CONSTANTS
    Devices,   \* the IRQs of devices that interrupt: 0, 1, 8 and others
    Shells,    \* how many shells switch_task boots
    BiosMasks  \* the IRQs the boot loader may have left masked

ASSUME MachineAssumption ==
    /\ {0, 1, 8} \subseteq Devices /\ Devices \subseteq 0 .. 15 \ {2}
    /\ Shells \in Nat \ {0}
    /\ BiosMasks \subseteq SUBSET Devices

VARIABLES
    pc,        \* the next step of entry(); 0 once it has returned
    iflag,     \* the CPU's interrupt flag
    handling,  \* the handler that runs, or "none"
    pics,      \* the controllers
    kb_full,   \* the keyboard controller holds a scan code
    rtc,       \* [PIE, PF]: register B bit 6 and the flag in register C
    shells,    \* how many switch_task has still to boot
    multiboot, \* [good, module]: magic and flags are accepted; there is a module
    harm,      \* how the machine hung: "no", "exception", "unprepared", "triple_fault"
    early_key  \* history: a key came before ICW1, which forgets its edge

mvars == <<pc, iflag, handling, pics, kb_full, rtc, shells, multiboot, harm, early_key>>

Entry(name) == <<"entry", name>>

(* Mutant: the timer starts before there are terminals.                    *)
BootOrder_EarlyPit ==
    <<Entry("checks"), Entry("descriptors"), Entry("initialize_idt"), Entry("sti")>>
    \o InitWords
    \o <<Entry("enable_slave"), Entry("initialize_rtc"), Entry("filesys_init"),
         Entry("paging_init"), Entry("keyboard_init"), Entry("initialize_pit"),
         Entry("terminals_init"), Entry("sti")>>

(* entry() in its order; i8259_init is the words and enable_irq(2).        *)
BootOrder ==
    <<Entry("checks"), Entry("descriptors"), Entry("initialize_idt"), Entry("sti")>>
    \o InitWords
    \o <<Entry("enable_slave"), Entry("initialize_rtc"), Entry("filesys_init"),
         Entry("paging_init"), Entry("keyboard_init"), Entry("terminals_init"),
         Entry("initialize_pit"), Entry("sti")>>

Done(step) == \E i \in DOMAIN BootOrder : i < pc /\ BootOrder[i] = step

(* The gates marked present for devices; 0 .. 31 are the exceptions, and   *)
(* any other vector raises one of them, SEGMENT_NOT_PRESENT.               *)
Gate == [vector \in {32, 33, 40} |->
           IF vector = 32 THEN "pit" ELSE IF vector = 33 THEN "keyboard" ELSE "rtc"]

(* What differs between starts: the IRQs the boot loader left masked, the  *)
(* clock's flag, what it says of itself.                                   *)
PowerOn(masked, flag, loaded) ==
    /\ pc = 1
    /\ iflag = FALSE
    /\ handling = "none"
    /\ pics = [chip \in Chips |->
           [base |-> IF chip = "master" THEN 8 ELSE 112,
            imr |-> {LineOf(d) : d \in {e \in masked : ChipOf(e) = chip}},
            irr |-> {}, isr |-> {}]]
    /\ kb_full = FALSE
    /\ rtc = [PIE |-> FALSE, PF |-> flag]
    /\ shells = Shells
    /\ multiboot = loaded
    /\ harm = "no"
    /\ early_key = FALSE

MachineInit ==
    \E masked \in BiosMasks, flag \in BOOLEAN, loaded \in [good : BOOLEAN, module : BOOLEAN] :
        PowerOn(masked, flag, loaded)

Runs == harm = "no" /\ pc # 0

-----------------------------------------------------------------------------
(* The steps of entry().  Its stack is given up for good when the first    *)
(* shell starts: execute does not return.                                  *)

InEntry == Runs /\ handling = "none" /\ shells = Shells /\ pc \in DOMAIN BootOrder

At(step) == InEntry /\ BootOrder[pc] = step

(* With a wrong magic, or bits 4 and 5 both set, entry returns to boot.S,  *)
(* which halts with interrupts off.                                        *)
Checks ==
    /\ At(Entry("checks"))
    /\ pc' = IF multiboot.good THEN pc + 1 ELSE 0
    /\ UNCHANGED <<iflag, handling, pics, kb_full, rtc, shells, multiboot, harm, early_key>>

(* LDT and TSS, IDT, file system, page tables, terminals: what is done is  *)
(* told by pc.                                                             *)
Prepare ==
    /\ \E name \in {"descriptors", "initialize_idt", "filesys_init", "paging_init",
                    "terminals_init"} : At(Entry(name))
    /\ pc' = pc + 1
    /\ UNCHANGED <<iflag, handling, pics, kb_full, rtc, shells, multiboot, harm, early_key>>

Sti ==
    /\ At(Entry("sti"))
    /\ pc' = pc + 1
    /\ iflag' = TRUE
    /\ UNCHANGED <<handling, pics, kb_full, rtc, shells, multiboot, harm, early_key>>

Outb ==
    /\ \E i \in DOMAIN InitWords :
           /\ At(InitWords[i])
           /\ pics' = Write(pics, InitWords[i][1], InitWords[i][2])
    /\ pc' = pc + 1
    /\ UNCHANGED <<iflag, handling, kb_full, rtc, shells, multiboot, harm, early_key>>

(* The slave's line; keyboard_init and initialize_pit are an enable_irq    *)
(* each (the timer's rate is set before).                                  *)
Enabled == [name \in {"enable_slave", "keyboard_init", "initialize_pit"} |->
              IF name = "enable_slave" THEN 2 ELSE IF name = "keyboard_init" THEN 1 ELSE 0]

Enable ==
    /\ \E name \in DOMAIN Enabled :
           /\ At(Entry(name))
           /\ pics' = EnableIrq(pics, Enabled[name])
    /\ pc' = pc + 1
    /\ UNCHANGED <<iflag, handling, kb_full, rtc, shells, multiboot, harm, early_key>>

(* If the flag is set already the clock interrupts at once; IRQ 8 is       *)
(* enabled afterwards.                                                     *)
InitializeRtc ==
    /\ At(Entry("initialize_rtc"))
    /\ rtc' = [rtc EXCEPT !.PIE = TRUE]
    /\ pics' = EnableIrq(IF rtc.PF THEN Raise(pics, 8) ELSE pics, 8)
    /\ pc' = pc + 1
    /\ UNCHANGED <<iflag, handling, kb_full, shells, multiboot, harm, early_key>>

BootStep == Checks \/ Prepare \/ Sti \/ Outb \/ Enable \/ InitializeRtc

-----------------------------------------------------------------------------
(* Devices.  Timer and clock take longer between two interrupts than a     *)
(* handler takes.                                                          *)

PitTick ==
    /\ Runs /\ handling = "none"
    /\ pics' = Raise(pics, 0)
    /\ UNCHANGED <<pc, iflag, handling, kb_full, rtc, shells, multiboot, harm, early_key>>

(* The keyboard controller takes no other key before its code is read.     *)
KeyPress ==
    /\ Runs /\ ~kb_full
    /\ kb_full' = TRUE
    /\ pics' = Raise(pics, 1)
    /\ early_key' = (early_key \/ ~Done(<<"master", "ICW1">>))
    /\ UNCHANGED <<pc, iflag, handling, rtc, shells, multiboot, harm>>

(* The clock's line rises with PF and falls when register C is read.       *)
RtcPeriod ==
    /\ Runs /\ handling = "none" /\ ~rtc.PF
    /\ rtc' = [rtc EXCEPT !.PF = TRUE]
    /\ pics' = IF rtc.PIE THEN Raise(pics, 8) ELSE pics
    /\ UNCHANGED <<pc, iflag, handling, kb_full, shells, multiboot, harm, early_key>>

OtherDevice ==
    /\ Runs
    /\ \E irq \in Devices \ {0, 1, 8} : pics' = Raise(pics, irq)
    /\ UNCHANGED <<pc, iflag, handling, kb_full, rtc, shells, multiboot, harm, early_key>>

-----------------------------------------------------------------------------
(* Interrupts.  All gates are interrupt gates: they clear the flag.        *)

Deliver(irq) ==
    /\ Runs /\ iflag
    /\ Selected(pics, irq)
    /\ pics' = Acknowledge(pics, irq)
    /\ iflag' = FALSE
    /\ LET vector == Vector(pics, irq) IN
          \/ /\ Done(Entry("initialize_idt")) /\ vector \in DOMAIN Gate
             /\ handling' = Gate[vector]
             /\ harm' = harm
          \/ /\ Done(Entry("initialize_idt")) /\ vector \notin DOMAIN Gate
             /\ harm' = "exception"
             /\ handling' = handling
          \/ /\ ~Done(Entry("initialize_idt"))
             /\ harm' = "triple_fault"
             /\ handling' = handling
    /\ UNCHANGED <<pc, kb_full, rtc, shells, multiboot, early_key>>

Return == handling' = "none" /\ iflag' = TRUE   \* iret

(* What executing a shell needs.                                           *)
Prepared ==
    \A name \in {"descriptors", "filesys_init", "paging_init", "terminals_init"} :
        Done(Entry(name))

(* Mutant: the EOI comes after switch_task, which need not return.         *)
PitHandler_EoiLast ==
    /\ handling = "pit"
    /\ pics' = IF shells > 0 /\ multiboot.module THEN pics ELSE SendEoi(pics, 0)
    /\ shells' = IF multiboot.module /\ shells > 0 THEN shells - 1 ELSE shells
    /\ Return
    /\ UNCHANGED <<pc, kb_full, rtc, multiboot, harm, early_key>>

(* The EOI comes first, since executing a shell does not return here; the  *)
(* shell runs with interrupts on.  Without a module mods_addr is anything   *)
(* and so is the file system execute looks into: it returns -1, on every   *)
(* tick, or faults.                                                        *)
PitHandler ==
    /\ handling = "pit"
    /\ pics' = SendEoi(pics, 0)
    /\ \/ /\ shells > 0 /\ ~Prepared
          /\ harm' = "unprepared"
          /\ UNCHANGED <<shells, handling, iflag>>
       \/ /\ shells > 0 /\ Prepared /\ multiboot.module
          /\ shells' = shells - 1
          /\ Return
          /\ UNCHANGED harm
       \/ /\ shells > 0 /\ Prepared /\ ~multiboot.module
          /\ harm' = "exception"
          /\ UNCHANGED <<shells, handling, iflag>>
       \/ /\ shells = 0 \/ (Prepared /\ ~multiboot.module)
          /\ Return
          /\ UNCHANGED <<shells, harm>>
    /\ UNCHANGED <<pc, kb_full, rtc, multiboot, early_key>>

KeyboardHandler_NoEoi ==   \* mutant: the keyboard's line stays in service
    /\ handling = "keyboard"
    /\ kb_full' = FALSE
    /\ Return
    /\ UNCHANGED <<pc, pics, rtc, shells, multiboot, harm, early_key>>

KeyboardHandler ==
    /\ handling = "keyboard"
    /\ kb_full' = FALSE
    /\ pics' = SendEoi(pics, 1)
    /\ Return
    /\ UNCHANGED <<pc, rtc, shells, multiboot, harm, early_key>>

RtcHandler_Unread ==   \* mutant: register C is not read
    /\ handling = "rtc"
    /\ pics' = SendEoi(pics, 8)
    /\ Return
    /\ UNCHANGED <<pc, kb_full, rtc, shells, multiboot, harm, early_key>>

(* Reading register C clears the flag.                                     *)
RtcHandler ==
    /\ handling = "rtc"
    /\ rtc' = [rtc EXCEPT !.PF = FALSE]
    /\ pics' = SendEoi(pics, 8)
    /\ Return
    /\ UNCHANGED <<pc, kb_full, shells, multiboot, harm, early_key>>

Handler == Runs /\ (PitHandler \/ KeyboardHandler \/ RtcHandler)

(* while(1) of the exception handlers, hlt of boot.S.                      *)
Spin == ~Runs /\ UNCHANGED mvars

MachineNext ==
    \/ BootStep \/ PitTick \/ KeyPress \/ RtcPeriod \/ OtherDevice
    \/ (\E irq \in Devices : Deliver(irq)) \/ Handler \/ Spin

(* Code that was interrupted goes on between interrupts, a handler runs to *)
(* its end, timer and clock do not stop, and an interrupt that can be      *)
(* delivered again and again is: handlers leave the CPU idle most of the   *)
(* time.                                                                   *)
MachineFairness ==
    /\ SF_mvars(BootStep) /\ WF_mvars(Handler)
    /\ SF_mvars(PitTick) /\ SF_mvars(RtcPeriod)
    /\ \A irq \in {0, 1, 8} : SF_mvars(Deliver(irq))

MachineSpec == MachineInit /\ [][MachineNext]_mvars /\ MachineFairness

-----------------------------------------------------------------------------
(* Properties.                                                             *)

MachineTypeOK ==
    /\ pc \in 0 .. Len(BootOrder) + 1
    /\ iflag \in BOOLEAN
    /\ handling \in {"none", "pit", "keyboard", "rtc"}
    /\ pics \in [Chips -> ChipStates]
    /\ kb_full \in BOOLEAN /\ rtc \in [PIE : BOOLEAN, PF : BOOLEAN]
    /\ shells \in 0 .. Shells
    /\ harm \in {"no", "exception", "unprepared", "triple_fault"}

(* If the boot loader gave a module, interrupts come to harm only in the   *)
(* window between sti and the second mask of i8259_init, never before      *)
(* there is an IDT and never later: no device is let through whose handler *)
(* or vector lacks something, also if its request is older than that.      *)
HarmOnlyInWindow ==
    harm # "no" /\ multiboot.module =>
        /\ harm # "triple_fault"
        /\ Done(Entry("sti")) /\ ~Done(<<"slave", "MASK">>)

(* When no handler runs no line is in service, on either controller, even  *)
(* though the handler that starts a shell never returns: otherwise that    *)
(* line and all below it would be silent for good.                         *)
NothingLeftInService ==
    Runs /\ handling = "none" => \A chip \in Chips : pics[chip].isr = {}

(* Once the timer runs, every terminal gets its shell.                     *)
ShellsStart ==
    (Done(Entry("initialize_pit")) /\ multiboot.module) ~> shells = 0

(* Every period of the clock is answered, for ever.                        *)
ClockKeepsTicking == (rtc.PIE /\ rtc.PF) ~> (~rtc.PF \/ harm # "no")

(* A key is answered, unless one came before the controllers were reset,   *)
(* which forgets its edge: then the controller of the keyboard stays full  *)
(* and the keyboard is dead, since nobody reads it at the start.           *)
KeysAnswered == (kb_full /\ ~early_key) ~> (~kb_full \/ ~Runs)

=============================================================================
