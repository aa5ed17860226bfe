-------------------------- MODULE Arm7DIProperties --------------------------
(***************************************************************************)
(* What the core model promises its bus and its programs, beyond types.     *)
(***************************************************************************)
EXTENDS Arm7DI

(* The stages hold consecutive words and R15 runs two words ahead of the     *)
(* execute stage at every boundary out of reset, whichever sequence, refill  *)
(* or exception entry came before (arm7di.h: "R15 ... = executing address +  *)
(* 8").                                                                      *)
BoundaryCoherent ==
  (AtBoundary /\ ~in_reset /\ ~reset_exit)
     => de.addr = Inc(ex.addr) /\ pc = Inc(de.addr)

(* Between the cycles of an instruction the stages still hold it and its     *)
(* successors, and R15 reads as its address + 12, which is what register     *)
(* shifts (4.4.5) and stores of R15 (4.7.4) see.                             *)
OperandCoherent ==
  (seq \in {"DP", "MUL", "SWP", "SDT", "BDT"})
     => /\ ex.addr = x.at /\ de.addr = Inc(x.at)
        /\ f1.addr = Inc(de.addr) /\ pc = Inc(f1.addr)

PipelineCoherent == BoundaryCoherent /\ OperandCoherent

(* A cycle announced as S (nMREQ low, SEQ high) goes to the address of the   *)
(* cycle before it or to the next word, over every boundary, refill, reset   *)
(* and exception entry: the type was announced a cycle early, before the     *)
(* boundary knew what would come.                                            *)
SequentialCycles ==
  [][bus'.type = "S" => bus'.addr \in {bus.addr, Inc(bus.addr)}]_vars

(* c_exc(): R14 lets the handler resume. Interrupts and prefetch aborts: the *)
(* instruction about to execute + 4; SWI and undefined: the one after it.    *)
ReturnAddress ==
  [][/\ \A e \in {"fiq", "irq", "pabt"} :
          Exception(e) => gpr'[Phys("r14", Entry[e].mode)] = Inc(ex.addr)
     /\ UndefinedEntry => gpr'[Phys("r14", "UND")] = Inc(x.at)
     /\ \A op \in Insns : Swi(op) => gpr'[Phys("r14", "SVC")] = Inc(ex.addr)
    ]_vars

(* c_exc(): "data abort -> aborted + 8 (the execute stage then holds the     *)
(* instruction after the aborted one)".                                      *)
AbortReturn ==
  [][Exception("dabt") => gpr'[Phys("r14", "ABT")] = Inc(Inc(x.at))]_vars

(* An aborted transfer can be restarted: its base register ends with the     *)
(* written-back value if the instruction writes back and with the original   *)
(* value if not, even when the list or Rd includes the base (4.7.6, 4.8.7).  *)
AbortedBase ==
  [][ (~dabort_pending /\ dabort_pending' /\ x.op.rn # "pc")
      => LET now == gpr'[Phys(x.op.rn, CurBank)] IN
           /\ x.op.cls = "SDT"
                => now = IF "P" \in x.op.bits /\ "W" \notin x.op.bits
                        THEN x.base ELSE x.wbv
           /\ x.op.cls = "BDT"
                => now = IF "W" \in x.op.bits THEN x.wbv ELSE x.base ]_vars

(* User mode is left only through an exception entry that saves the user's   *)
(* CPSR, masks IRQ and goes to that exception's own vector: MSR, returns     *)
(* with S and LDM with S and R15 keep a user in user mode.                   *)
UserSealed ==
  [][ (cpsr.mode = "USR" /\ cpsr'.mode # "USR")
      => /\ seq' = "REFILL" /\ cpsr'.i /\ spsr'[cpsr'.mode] = cpsr
         /\ <<x'.target, cpsr'.mode>> \in
              {<<Entry[e].vector, Entry[e].mode>> : e \in DOMAIN Entry}
                \cup {<<1, "UND">>} ]_vars

(* A step changes only registers of the mode it runs in, R14 and SPSR of the *)
(* mode it enters, or, in a user-bank transfer, the user's: an interrupted   *)
(* handler finds its own R14 and SPSR untouched.                             *)
BankIsolation ==
  [][ /\ \A p \in PhysReg :
           gpr'[p] # gpr[p]
             => \/ \E r \in Reg : p = Phys(r, CurBank)
                \/ p = Phys("r14", BankOf(cpsr'.mode)) /\ spsr'[p[2]] = cpsr
                \/ seq = "BDT" /\ UserBank(x.op) /\ p[2] = "USR"
      /\ \A b \in Bank :
           spsr'[b] # spsr[b]
             => b # "USR" /\ (b = CurBank \/ b = BankOf(cpsr'.mode)) ]_vars

=============================================================================
