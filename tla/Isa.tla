--------------------------------- MODULE Isa ---------------------------------
(***************************************************************************)
(* The program that the cpu runs, as far as the pipeline tells             *)
(* instructions apart (src/mips.def, src/fetch.c).  The text is a ring, so *)
(* that runs do not end: the last instruction is followed by the first.    *)
(* One more address stands for everything outside of the text.             *)
(***************************************************************************)
EXTENDS Integers, FiniteSets

CONSTANT Programs  \* texts, their sizes, and where their taken branches go
VARIABLE program   \* the one that runs

Kinds == {"alu", "load", "store", "branch", "jump_reg", "likely", "syscall"}
Controls == {"branch", "jump_reg", "likely"}

Target == program.target
Outside == program.size
PCs == 0 .. Outside
Kind(pc) == IF pc < Outside THEN program.text[pc] ELSE "bogus"

Plus(pc, k) == IF pc = Outside THEN pc ELSE (pc + k) % Outside

IsCtrl(pc) == Kind(pc) \in Controls
IsLikely(pc) == Kind(pc) = "likely"

\* A delay slot holds neither a branch nor a trap, and no branch goes to its own
\* delay slot: predicted to fall through it would not be found out when it is
\* taken, for only the addresses are compared.
ProgramAssumption ==
  \A p \in Programs :
    LET Lines == 0 .. p.size - 1 IN
      /\ p.size \in Nat \ {0}
      /\ p.text \in [Lines -> Kinds]
      /\ p.target \in [Lines -> Lines]
      /\ \A pc \in Lines : p.text[pc] \in Controls =>
           /\ p.text[(pc + 1) % p.size] \notin Controls \cup {"syscall"}
           /\ p.target[pc] # (pc + 1) % p.size
ASSUME ProgramAssumption

\* Directions that executing the instruction may turn out to take.
Outcomes(pc) == CASE Kind(pc) \in {"branch", "likely"} -> BOOLEAN
                  [] Kind(pc) = "jump_reg" -> {TRUE}
                  [] OTHER -> {FALSE}

\* The program counter after the branch and its delay slot; a branch likely
\* that is not taken has no delay slot.
AfterBranch(pc, taken) == IF taken THEN Target[pc] ELSE Plus(pc, 2)
=============================================================================
