--------------------------- MODULE MTVUInterrupts ---------------------------
(***************************************************************************)
(* The interrupts a VU1 program raises when it runs on its own thread: GS  *)
(* SIGNAL, FINISH and LABEL out of its GIF packets (Gif_HandlerAD_MTVU),   *)
(* and the E and T bits.  They go through three atomics, without a lock:   *)
(* the flags mtvuInterrupts, and the values gsSignal and gsLabel.  The EE  *)
(* thread picks them up in Get_MTVUChanges whenever it gets there.         *)
(*                                                                         *)
(* One step is one access to an atomic.  What a SIGNAL carries, and with   *)
(* it SIGID, is left out: whether it was seen is what matters.  A LABEL    *)
(* writes some bits of LBLID and keeps the others, so a label maps each    *)
(* bit to "0", "1" or "keep"; no label (a mask of 0) keeps all.  The EE    *)
(* thread writes LBLID itself, too: for a LABEL of PATH2 or PATH3, and for *)
(* a reset of the GS.  What FINISH, the E bit and the T bit do to the EE's *)
(* registers is left out.                                                  *)
(***************************************************************************)
EXTENDS Integers

CONSTANT
    Bits   \* the bits of LBLID

VARIABLES
    mtvuInterrupts,              \* the InterruptFlags that are set
    gsLabel,
    CSR_SIGNAL, queued, LBLID,   \* the EE's registers; queued is gsSIGNAL.queued
    ee_pc, interrupts,           \* the EE thread: place, the flags it has still to handle
    vu_pc, value, existing,      \* the VU thread: place, its label, the label it expects to replace
    labels,   \* ghost: LBLID if every label were written to it at once, whoever raised it
    overtaken,  \* ghost: bits the EE wrote while an older label of the VU was pending for them
    orphan,   \* ghost: a reset took the flag of the label that is pending
    warned,   \* ghost: the VU thread reported the SIGNAL it is raising as a double
    unread    \* ghost: gsSignal holds a signal that was not reported and that the EE has not loaded

atomics   == <<mtvuInterrupts, gsLabel>>
registers == <<CSR_SIGNAL, queued, LBLID>>
ee        == <<ee_pc, interrupts>>
vu        == <<vu_pc, value, existing>>
ghosts    == <<labels, overtaken, orphan, unread, warned>>

interruptVars == <<atomics, registers, ee, vu, ghosts>>

Flags == {"signal", "finish", "label", "ebit", "tbit"}

Labels == [Bits -> {"0", "1", "keep"}]

noLabel == [b \in Bits |-> "keep"]

(* What label m makes of o, a register or an earlier label.                *)
Override(o, m) == [b \in Bits |-> IF m[b] = "keep" THEN o[b] ELSE m[b]]

(* The bits a label writes.                                                *)
Written(m) == {b \in Bits : m[b] # "keep"}

zero == [b \in Bits |-> "0"]

InterruptInit ==
    /\ mtvuInterrupts = {} /\ gsLabel = noLabel
    /\ CSR_SIGNAL = FALSE /\ queued = FALSE /\ LBLID = zero
    /\ ee_pc = "run" /\ interrupts = {}
    /\ vu_pc = "run" /\ value = noLabel /\ existing = noLabel
    /\ labels = LBLID /\ overtaken = {} /\ orphan = FALSE /\ unread = FALSE /\ warned = FALSE

-----------------------------------------------------------------------------
(* The VU thread.                                                          *)

(* FINISH, the E bit and the T bit are a flag each.                        *)
RaiseFlag(f) ==
    /\ vu_pc = "run"
    /\ mtvuInterrupts' = mtvuInterrupts \cup {f}
    /\ UNCHANGED <<gsLabel, registers, ee, vu, ghosts>>

(* SIGNAL: is the last one still to be picked up?                          *)
SignalCheck ==
    /\ vu_pc = "run" /\ vu_pc' = "sig_store"
    /\ warned' = ("signal" \in mtvuInterrupts)
    /\ UNCHANGED <<atomics, registers, ee, value, existing, labels, overtaken, orphan, unread>>

SignalStore ==
    /\ vu_pc = "sig_store" /\ vu_pc' = "sig_flag"
    /\ unread' = ~warned /\ warned' = FALSE
    /\ UNCHANGED <<atomics, registers, ee, value, existing, labels, overtaken, orphan>>

(* LABEL: a compare-exchange that expects no label at first, and merges    *)
(* with the one it finds.  compare_exchange_weak may fail for nothing.     *)
LabelBegin(l) ==
    /\ vu_pc = "run" /\ vu_pc' = "lbl_cas"
    /\ value' = l /\ existing' = noLabel
    /\ UNCHANGED <<atomics, registers, ee, ghosts>>

(* Mutant: the new label replaces the one that is pending.                 *)
LabelReplaces ==
    /\ vu_pc = "lbl_cas" /\ vu_pc' = "lbl_flag"
    /\ gsLabel' = value
    /\ labels' = Override(labels, value)
    /\ overtaken' = overtaken \ Written(value) /\ orphan' = FALSE
    /\ value' = noLabel /\ existing' = noLabel
    /\ UNCHANGED <<mtvuInterrupts, registers, ee, unread, warned>>

LabelExchange ==
    /\ vu_pc = "lbl_cas"
    /\ \/ /\ gsLabel = existing
          /\ gsLabel' = Override(existing, value)
          /\ labels' = Override(labels, value)
          /\ overtaken' = overtaken \ Written(value) /\ orphan' = FALSE
          /\ vu_pc' = "lbl_flag" /\ value' = noLabel /\ existing' = noLabel
       \/ /\ existing' = gsLabel
          /\ UNCHANGED <<gsLabel, labels, overtaken, orphan, vu_pc, value>>
    /\ UNCHANGED <<mtvuInterrupts, registers, ee, unread, warned>>

SetFlag ==
    /\ \/ vu_pc = "sig_flag" /\ mtvuInterrupts' = mtvuInterrupts \cup {"signal"}
       \/ vu_pc = "lbl_flag" /\ mtvuInterrupts' = mtvuInterrupts \cup {"label"}
    /\ vu_pc' = "run"
    /\ UNCHANGED <<gsLabel, registers, ee, value, existing, ghosts>>

-----------------------------------------------------------------------------
(* The EE thread: Get_MTVUChanges, one part after the other, each if its   *)
(* flag was set when it began.                                             *)

Parts == <<"signal", "finish", "label", "ebit", "tbit">>

(* The first part whose flag is in flags.                                  *)
FirstOf(flags) ==
    LET todo == {i \in 1 .. 5 : Parts[i] \in flags}
    IN  IF todo = {} THEN "run" ELSE Parts[CHOOSE i \in todo : \A j \in todo : i <= j]

GetChanges ==
    /\ ee_pc = "run" /\ mtvuInterrupts # {}
    /\ interrupts' = mtvuInterrupts
    /\ ee_pc' = FirstOf(mtvuInterrupts)
    /\ UNCHANGED <<atomics, registers, vu, ghosts>>

(* The part of flag f ends at here.                                        *)
PartDone(f, here) ==
    /\ ee_pc = here
    /\ interrupts' = interrupts \ {f}
    /\ ee_pc' = FirstOf(interrupts \ {f})

(* Mutant: the value is loaded after its flag was cleared.                 *)
SignalLoadLast ==
    \/ /\ ee_pc = "signal" /\ ee_pc' = "sig_clear"
       /\ mtvuInterrupts' = mtvuInterrupts \ {"signal"}
       /\ UNCHANGED <<gsLabel, registers, interrupts, vu, ghosts>>
    \/ /\ PartDone("signal", "sig_clear")
       /\ unread' = FALSE
       /\ UNCHANGED <<atomics, registers, vu, labels, overtaken, orphan, warned>>

SignalLoad ==
    /\ ee_pc = "signal" /\ ee_pc' = "sig_clear"
    /\ unread' = FALSE
    /\ UNCHANGED <<atomics, registers, interrupts, vu, labels, overtaken, orphan, warned>>

(* The signal fires, or is queued behind one the EE has not acknowledged.  *)
SignalClear ==
    /\ PartDone("signal", "sig_clear")
    /\ mtvuInterrupts' = mtvuInterrupts \ {"signal"}
    /\ CSR_SIGNAL' = TRUE
    /\ queued' = (CSR_SIGNAL \/ queued)
    /\ UNCHANGED <<gsLabel, LBLID, vu, ghosts>>

(* Mutant: the label is taken before the flag is cleared.                  *)
LabelTakeFirst ==
    \/ /\ ee_pc = "label" /\ ee_pc' = "lbl_take"
       /\ LBLID' = Override(LBLID, gsLabel) /\ gsLabel' = noLabel
       /\ UNCHANGED <<mtvuInterrupts, CSR_SIGNAL, queued, interrupts, vu, ghosts>>
    \/ /\ PartDone("label", "lbl_take")
       /\ mtvuInterrupts' = mtvuInterrupts \ {"label"}
       /\ UNCHANGED <<gsLabel, registers, vu, ghosts>>

(* Mutant: the label's mask is ignored.                                    *)
LabelTakeUnmasked ==
    \/ /\ ee_pc = "label" /\ ee_pc' = "lbl_take"
       /\ mtvuInterrupts' = mtvuInterrupts \ {"label"}
       /\ UNCHANGED <<gsLabel, registers, interrupts, vu, ghosts>>
    \/ /\ PartDone("label", "lbl_take")
       /\ LBLID' = gsLabel /\ gsLabel' = noLabel
       /\ UNCHANGED <<mtvuInterrupts, CSR_SIGNAL, queued, vu, ghosts>>

(* The flag is cleared, then the label is exchanged for none.              *)
LabelTake ==
    \/ /\ ee_pc = "label" /\ ee_pc' = "lbl_take"
       /\ mtvuInterrupts' = mtvuInterrupts \ {"label"}
       /\ UNCHANGED <<gsLabel, registers, interrupts, vu, ghosts>>
    \/ /\ PartDone("label", "lbl_take")
       /\ LBLID' = Override(LBLID, gsLabel) /\ gsLabel' = noLabel
       /\ UNCHANGED <<mtvuInterrupts, CSR_SIGNAL, queued, vu, ghosts>>

FlagChange(f) ==
    /\ PartDone(f, f)
    /\ mtvuInterrupts' = mtvuInterrupts \ {f}
    /\ UNCHANGED <<gsLabel, registers, vu, ghosts>>

(* The EE's own part of the protocol: a SIGNAL of a PATH2 or PATH3 packet  *)
(* (Gif_HandlerAD), and the write to CSR that acknowledges one.            *)
PathSignal ==
    /\ ee_pc = "run"
    /\ CSR_SIGNAL' = TRUE
    /\ queued' = (CSR_SIGNAL \/ queued)
    /\ UNCHANGED <<atomics, LBLID, ee, vu, ghosts>>

AckSignal ==
    /\ ee_pc = "run"
    /\ CSR_SIGNAL' = queued
    /\ queued' = FALSE
    /\ UNCHANGED <<atomics, LBLID, ee, vu, ghosts>>

(* A write of the EE thread to LBLID while a label of the VU waits to be   *)
(* taken: that older label will be written over the bits they share.       *)
EEWrites(label) ==
    /\ LBLID' = Override(LBLID, label)
    /\ labels' = Override(labels, label)
    /\ overtaken' = (overtaken \ Written(label)) \cup (Written(gsLabel) \cap Written(label))

(* A LABEL of a PATH2 or PATH3 packet goes to the register at once.        *)
PathLabel(l) ==
    /\ ee_pc = "run"
    /\ EEWrites(l)
    /\ UNCHANGED <<atomics, CSR_SIGNAL, queued, ee, vu, orphan, unread, warned>>

(* CSR.RESET clears the GS registers; the atomics stay.                    *)
CSRReset ==
    /\ ee_pc = "run"
    /\ CSR_SIGNAL' = FALSE /\ queued' = FALSE
    /\ EEWrites(zero)
    /\ UNCHANGED <<atomics, ee, vu, orphan, unread, warned>>

(* A reset of the VM: WaitVU, VU_Thread::Reset, and the GS registers with  *)
(* hwReset.  gsLabel is not cleared: what is pending loses its flag, and   *)
(* comes back with the first label after the reset.                        *)
ResetInterrupts ==
    /\ ee_pc = "run" /\ vu_pc = "run"
    /\ mtvuInterrupts' = {}
    /\ CSR_SIGNAL' = FALSE /\ queued' = FALSE
    /\ EEWrites(zero)
    /\ orphan' = (gsLabel # noLabel) /\ unread' = FALSE
    /\ UNCHANGED <<gsLabel, ee, vu, warned>>

-----------------------------------------------------------------------------
VUCall ==
    \/ \E f \in {"finish", "ebit", "tbit"} : RaiseFlag(f)
    \/ SignalCheck
    \/ \E l \in Labels \ {noLabel} : LabelBegin(l)

VUInterruptStep == SignalStore \/ LabelExchange \/ SetFlag

EEInterruptCall ==
    \/ PathSignal \/ AckSignal
    \/ \E l \in Labels \ {noLabel} : PathLabel(l)
    \/ CSRReset \/ ResetInterrupts

EEInterruptStep == SignalLoad \/ SignalClear \/ LabelTake \/ (\E f \in {"finish", "ebit", "tbit"} : FlagChange(f))

InterruptNext == VUCall \/ VUInterruptStep \/ EEInterruptCall \/ GetChanges \/ EEInterruptStep

InterruptSpec == InterruptInit /\ [][InterruptNext]_interruptVars

-----------------------------------------------------------------------------
(* The types.                                                              *)
InterruptTypeOK ==
    /\ mtvuInterrupts \subseteq Flags /\ interrupts \subseteq Flags
    /\ gsLabel \in Labels /\ value \in Labels /\ existing \in Labels
    /\ LBLID \in [Bits -> {"0", "1"}] /\ labels \in [Bits -> {"0", "1"}]
    /\ {CSR_SIGNAL, queued, orphan, unread, warned} \subseteq BOOLEAN /\ overtaken \subseteq Bits
    /\ ee_pc \in Flags \cup {"run", "sig_clear", "lbl_take"}
    /\ vu_pc \in {"run", "sig_store", "sig_flag", "lbl_cas", "lbl_flag"}

(* "It's okay to coalesce label updates": LBLID with the pending label     *)
(* applied is what all the labels give one after the other, the VU's and   *)
(* the EE's in the order they were raised.  The one exception, bit by bit, *)
(* is a write of the EE between a label of the VU and its taking.          *)
LabelsPreserved == \A b \in Bits \ overtaken : Override(LBLID, gsLabel)[b] = labels[b]

(* A pending label has its flag set, or one of the threads is on its way   *)
(* to set it or to take the label ("resulting in an update with the flag   *)
(* unset" is what must not happen).  A reset alone leaves a label behind.  *)
LabelFlagged ==
    gsLabel # noLabel => "label" \in mtvuInterrupts \/ vu_pc = "lbl_flag" \/ ee_pc = "lbl_take" \/ orphan

(* A signal that was not reported as a double is flagged, or about to be,  *)
(* until the EE has loaded it.                                             *)
SignalFlagged == unread => "signal" \in mtvuInterrupts \/ vu_pc = "sig_flag"

(* Neither a pending label nor a pending signal stays behind unflagged, so *)
(* the next Get_MTVUChanges finds them.                                    *)
PendingFlagged == LabelFlagged /\ SignalFlagged

(* "the other thread could write a new value before we load without        *)
(* noticing the double signal" does not happen: a signal is stored over    *)
(* one the EE has not loaded only after a report.                          *)
OverwriteReported == [][vu_pc = "sig_store" /\ vu_pc' = "sig_flag" => (unread => warned)]_interruptVars

=============================================================================
