----------------------------- MODULE MCPrograms -----------------------------
(***************************************************************************)
(* What the library does for a program, for TLC: spawn starts it (Spawn),   *)
(* elf_load_seg lays it out (ElfLoad), fork copies it (ForkCow) and         *)
(* vprintfmt prints for it (PrintFmt).  They share no state; a behaviour is *)
(* about one of them, and the variables of the others keep one value.       *)
(***************************************************************************)
EXTENDS Spawn, ElfLoad, ForkCow, TLC

VARIABLES about,       \* the part this behaviour is about
          how, items, fmt, pos, args, pending, print_pc, buf, ret, shown, writes

\* Words of four bits: both signs, two decimal digits, hexadecimal letters; texts
\* shorter and longer than the buffer.
Pf == INSTANCE PrintFmt WITH W <- 4, BUF_LEN <- 5, Widths <- {0, 4, 10}, MaxText <- 1,
           Convs <- {"b", "d", "o", "u", "x", "X", "c", "s", "%"}, pc <- print_pc

ASSUME PartsAssumption == Pf!ConstantsOK

printVars == <<how, items, fmt, pos, args, pending, print_pc, buf, ret, shown, writes>>

NoElf ==
    /\ segs = [n \in 1..NPhdr |-> [va |-> 0, filesz |-> 0, memsz |-> 0]]
    /\ seg = 1 /\ phase = "first" /\ elf_i = 0 /\ mem = [p \in VPage |-> NULL]
NoPrint ==
    /\ how = "none" /\ items = <<>> /\ fmt = <<>> /\ pos = 1 /\ args = <<>> /\ pending = <<>>
    /\ print_pc = "none" /\ buf = <<>> /\ ret = 0 /\ shown = <<>> /\ writes = 0

ProgramsInit ==
    /\ Init /\ ForkInit
    /\ \/ about \in {"spawn", "fork"} /\ NoElf /\ NoPrint
       \/ about = "elf" /\ ElfInit /\ NoPrint
       \/ about = "print" /\ NoElf /\ Pf!Init

ProgramsNext ==
    \/ about = "spawn" /\ Next /\ UNCHANGED <<about, elfVars, forkVars, printVars>>
    \/ about = "elf" /\ ElfNext /\ UNCHANGED <<about, vars, forkVars, printVars>>
    \/ about = "fork" /\ ForkNext /\ UNCHANGED <<about, vars, elfVars, printVars>>
    \/ about = "print" /\ Pf!Next /\ UNCHANGED <<about, vars, elfVars, forkVars>>

ProgramsSpec ==
    ProgramsInit /\ [][ProgramsNext]_<<about, vars, elfVars, forkVars, printVars>>

\* No action of ForkCow tells two environments apart.
Symmetry == Permutations(Env)

-----------------------------------------------------------------------------
\* PrintFmt: what has been put out is what the items mean, digits, padding, sign and
\* buffer included; a message that fits debugf's buffer goes out in one system call;
\* printf tells how many characters were written, and after a failed write reports it
\* and writes no more (print.c, debugf.c:25, fprintf.c:11-19).
PrintsRight ==
    /\ [](about = "print" => Pf!TypeOK /\ Pf!OutputRight /\ Pf!DebugInOnePiece)
    /\ Pf!PrintfTold

=============================================================================
