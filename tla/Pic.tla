-------------------------------- MODULE Pic --------------------------------
(***************************************************************************)
(* The two 8259 interrupt controllers and what i8259.c writes to them.     *)
(*                                                                         *)
(* The controllers themselves are external: an edge on a line sets a bit   *)
(* of irr, the lowest bit that is not masked and below every bit of isr is *)
(* offered to the CPU, and stays in isr until an EOI names it.  A line of  *)
(* the slave also needs line 2 of the master.                              *)
(***************************************************************************)
EXTENDS Integers, Sequences

Lines == 0 .. 7
Chips == {"master", "slave"}

ChipStates ==
    [base : Nat, imr : SUBSET Lines, irr : SUBSET Lines, isr : SUBSET Lines]

-----------------------------------------------------------------------------
(* What the code does with an IRQ number: irq_num -= MAX_MASTER_DEVICES.   *)

ChipOf(irq) == IF irq < 8 THEN "master" ELSE "slave"
LineOf(irq) == IF irq < 8 THEN irq ELSE irq - 8

EnableIrq(pics, irq) == [pics EXCEPT ![ChipOf(irq)].imr = @ \ {LineOf(irq)}]

SendEoi_OneChip(pics, irq) ==   \* mutant: the master is forgotten
    [pics EXCEPT ![ChipOf(irq)].isr = @ \ {LineOf(irq)}]

(* An EOI names its line; one to the slave is followed by one for line 2.  *)
SendEoi(pics, irq) ==
    LET served == [pics EXCEPT ![ChipOf(irq)].isr = @ \ {LineOf(irq)}]
    IN IF irq < 8 THEN served ELSE [served EXCEPT !["master"].isr = @ \ {2}]

(* i8259_init, one write after the other.                                  *)
InitWords ==
    <<<<"master", "ICW1">>, <<"slave", "ICW1">>,
      <<"master", "ICW2">>, <<"slave", "ICW2">>,
      <<"master", "ICW3">>, <<"slave", "ICW3">>,
      <<"master", "ICW4">>, <<"slave", "ICW4">>,
      <<"master", "MASK">>, <<"slave", "MASK">>>>

(* ICW1 resets a controller, which also unmasks every line; ICW2 gives its *)
(* vectors.  ICW3 and ICW4 say what the model takes for granted: how the   *)
(* two are wired, and that EOIs are sent.                                  *)
Write(pics, chip, word) ==
    IF word = "ICW1"
    THEN [pics EXCEPT ![chip].imr = {}, ![chip].irr = {}, ![chip].isr = {}]
    ELSE IF word = "ICW2"
    THEN [pics EXCEPT ![chip].base = IF chip = "master" THEN 32 ELSE 40]
    ELSE IF word = "MASK" THEN [pics EXCEPT ![chip].imr = Lines] ELSE pics

-----------------------------------------------------------------------------
(* The controllers at work.                                                *)

Raise(pics, irq) == [pics EXCEPT ![ChipOf(irq)].irr = @ \cup {LineOf(irq)}]

Offers(chip, requests, line) ==
    /\ line \in requests \ chip.imr
    /\ \A other \in requests \ chip.imr : line <= other
    /\ \A other \in chip.isr : line < other

(* The slave's request is line 2 of the master.                            *)
SlaveAsks(pics) == \E line \in Lines : Offers(pics["slave"], pics["slave"].irr, line)
MasterRequests(pics) ==
    pics["master"].irr \cup (IF SlaveAsks(pics) THEN {2} ELSE {})

Selected(pics, irq) ==
    IF irq < 8 THEN Offers(pics["master"], MasterRequests(pics), irq)
    ELSE /\ Offers(pics["master"], MasterRequests(pics), 2)
         /\ Offers(pics["slave"], pics["slave"].irr, LineOf(irq))

Acknowledge(pics, irq) ==
    LET taken == [pics EXCEPT ![ChipOf(irq)].irr = @ \ {LineOf(irq)},
                              ![ChipOf(irq)].isr = @ \cup {LineOf(irq)}]
    IN IF irq < 8 THEN taken ELSE [taken EXCEPT !["master"].isr = @ \cup {2}]

Vector(pics, irq) == pics[ChipOf(irq)].base + LineOf(irq)

=============================================================================
