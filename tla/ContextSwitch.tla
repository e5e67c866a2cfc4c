----------------------------- MODULE ContextSwitch -----------------------------
(***************************************************************************)
(* How a core enters an application and gets out of it again (the assembly  *)
(* of loader.rs), on the registers and the memory of that core.  Addresses   *)
(* count words.  Each operator is the effect of a straight piece of code;    *)
(* what runs between them is the application.                                *)
(*                                                                          *)
(* rbx, rbp, rsp and r12 to r15 belong to the caller of a function.  The     *)
(* assembly saves four of them; r12 and r13 it names as operands, so the     *)
(* compiler saves them on entry to switch_stack_and_execute.                 *)
(***************************************************************************)
EXTENDS Integers

CONSTANTS
    Addr,                \* the words of memory that play a role
    saved_stack_pointer, \* addresses of the fields of RunningApplicationCLD
    abort_addr,
    new_rsp,             \* where the application's stack starts
    function_pointers,   \* FUNCTION_POINTERS
    after_call,          \* the instruction after "call {sip}"
    in_sip               \* the instruction after "call rsi"

ASSUME SwitchAssumption ==
    /\ Addr \subseteq Int /\ {saved_stack_pointer, abort_addr, new_rsp - 1, new_rsp - 2} \subseteq Addr
    /\ new_rsp \in Int /\ function_pointers \in Int /\ after_call \in Int /\ in_sip \in Int
    /\ saved_stack_pointer # abort_addr
    /\ {saved_stack_pointer, abort_addr} \cap {new_rsp - 1, new_rsp - 2} = {}

Preserved == {"rbx", "rbp", "rsp", "r12", "r13", "r14", "r15"}
Scratch == {"rax", "rcx", "rdx", "rsi", "rdi", "r8"}
Reg == Preserved \cup Scratch \cup {"rip"}
Machine == [reg : [Reg -> Int], mem : [Addr -> Int]]

\* the words switch_stack_and_execute pushes onto the kernel stack
Pushed(m) == {m.reg["rsp"] - i : i \in 1..6}

\* the stack of the caller has room, apart from the other words
HasRoom(m) ==
    /\ Pushed(m) \subseteq Addr
    /\ Pushed(m) \cap {saved_stack_pointer, abort_addr, new_rsp - 1, new_rsp - 2} = {}
--------------------------------------------------------------------------------
\* The prologue, the assembly up to "call {sip}", and save_instruction_pointer up to
\* "call rsi": six pushes, the stack pointer saved, the stack switched, two calls
execute(m, entry_point) ==
    LET sp == m.reg["rsp"]
    IN  [reg |-> [r \in Reg |->
                    CASE r = "rsp" -> new_rsp - 2
                      [] r = "rbp" -> new_rsp
                      [] r = "rax" -> after_call
                      [] r \in {"rdx", "r15"} -> saved_stack_pointer
                      [] r \in {"rsi", "rip"} -> entry_point
                      [] r = "rdi" -> function_pointers
                      [] OTHER -> m.reg[r]],
         mem |-> [a \in Addr |->
                    CASE a = sp - 1 -> m.reg["r12"]
                      [] a = sp - 2 -> m.reg["r13"]
                      [] a = sp - 3 -> m.reg["rbx"]
                      [] a = sp - 4 -> m.reg["rbp"]
                      [] a = sp - 5 -> m.reg["r14"]
                      [] a = sp - 6 -> m.reg["r15"]
                      [] a = saved_stack_pointer -> sp - 6
                      [] a \in {abort_addr, new_rsp - 1} -> after_call
                      [] a = new_rsp - 2 -> in_sip
                      [] OTHER -> m.mem[a]]]

\* The application returns to save_instruction_pointer, with the registers it may use
\* as in regs, and that returns in turn
save_instruction_pointer_returns(m, exit_code, regs) ==
    [m EXCEPT !.reg = [r \in Reg |->
        CASE r = "rax" -> exit_code
          [] r = "rdx" -> m.reg["r15"]
          [] r = "rsp" -> m.reg["rsp"] + 2
          [] r = "rip" -> m.mem[m.reg["rsp"] + 1]
          [] r \in Preserved \ {"rsp"} -> m.reg[r]
          [] OTHER -> regs[r]]]

\* abort, called anywhere in the application: all registers are as in regs, but for
\* the three operands
abort_jumps(m, exit_code, regs) ==
    [m EXCEPT !.reg = [r \in Reg |->
        CASE r = "rax" -> exit_code
          [] r = "rdx" -> saved_stack_pointer
          [] r = "r8" -> abort_addr
          [] r = "rip" -> m.mem[abort_addr]
          [] OTHER -> regs[r]]]

\* Mutant: the registers are popped in the order in which they were pushed
resume_pops_unreversed(m) ==
    LET sp == m.mem[m.reg["rdx"]]
    IN  [m EXCEPT !.reg = [r \in Reg |->
            CASE r = "rbx" -> m.mem[sp] [] r = "rbp" -> m.mem[sp + 1]
              [] r = "r14" -> m.mem[sp + 2] [] r = "r15" -> m.mem[sp + 3]
              [] r = "r13" -> m.mem[sp + 4] [] r = "r12" -> m.mem[sp + 5]
              [] r = "rsp" -> sp + 6
              [] OTHER -> m.reg[r]]]

\* The assembly after "call {sip}", and the epilogue
resume(m) ==
    LET sp == m.mem[m.reg["rdx"]]
    IN  [m EXCEPT !.reg = [r \in Reg |->
            CASE r = "r15" -> m.mem[sp] [] r = "r14" -> m.mem[sp + 1]
              [] r = "rbp" -> m.mem[sp + 2] [] r = "rbx" -> m.mem[sp + 3]
              [] r = "r13" -> m.mem[sp + 4] [] r = "r12" -> m.mem[sp + 5]
              [] r = "rsp" -> sp + 6
              [] OTHER -> m.reg[r]]]

\* what the caller of switch_stack_and_execute finds afterwards
Restored(before, after, exit_code) ==
    after.reg["rax"] = exit_code /\ \A r \in Preserved : after.reg[r] = before.reg[r]
================================================================================
