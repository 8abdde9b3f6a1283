-------------------------------- MODULE CallABI --------------------------------
(***************************************************************************)
(* What the DCPU16 calling conventions promise to the code that a function *)
(* or an interrupt handler returns to: the abstract specification of one   *)
(* activation.  From the outside a call is a single step.  It resumes at   *)
(* the return address with the stack pointer above what the entry pushed,  *)
(* the preserved registers as they were (getCalleeSavedRegs, and A, which  *)
(* RFI restores for a handler) and the caller's frame untouched, except    *)
(* for the words of the arguments, which belong to the callee.             *)
(***************************************************************************)
EXTENDS Integers

VARIABLES
    convention, \* [preserved, popped, args] of the function called
    status,     \* "called" or "returned"
    sp,         \* stack pointer the outside sees
    regs,       \* register file the outside sees
    stack,      \* memory the outside sees
    resume      \* the word control resumes at once returned

abiVars == <<convention, status, sp, regs, stack, resume>>

\* The words pushed on entry sit at the entry stack pointer: the return
\* address is the highest of them.
ReturnWord == stack[sp + convention.popped - 1]

CallerFrame == {a \in DOMAIN stack : a >= sp + convention.popped + convention.args}

Called == status = "called"

Return ==
    /\ Called
    /\ status' = "returned"
    /\ sp' = sp + convention.popped
    /\ resume' = ReturnWord
    /\ \A r \in convention.preserved : regs'[r] = regs[r]
    /\ \A a \in CallerFrame : stack'[a] = stack[a]
    /\ UNCHANGED convention

Spec == Called /\ [][Return]_abiVars
=============================================================================
