------------------------------ MODULE CtilCode ------------------------------
(***************************************************************************)
(* The code that ctil compiles and executes, read the way the inner        *)
(* interpreter reads it: a cell at a time, with nothing that says where    *)
(* the next instruction begins but the words that take operands.           *)
(***************************************************************************)
EXTENDS Ctil

\* The entries of the dictionary.
Entries ==
    LET from[e \in Int] == IF Holds(e, HeaderSize) THEN {e} \cup from[CellAt(mem, e)] ELSE {}
    IN  from[latest]
\* The entry whose code holds address a: the latest that lies before it.
EntryOf(a) ==
    LET from[e \in Int] == IF e = -1 \/ e < a THEN e ELSE from[CellAt(mem, e)]
    IN  from[latest]

IsCalled(e, words) == \E w \in words : NameIs(mem, e, WordName(w))
Jumping  == {"BRANCH", "0BRANCH", "_DOQIMPL", "_LOOPIMPL", "_PLOOPIMPL", "_LEAVEIMPL"}
Threaded == Jumping \cup {"LITNUMBER", "'", "LITSTRING"}

\* The cells of a definition's code that are instructions, the final -1 too.
Instructions(e) ==
    LET from[a \in Int] ==
            IF ~ Holds(a, 2 * CellSize) \/ ~ Holds(CellAt(mem, a), HeaderSize) THEN {a}
            ELSE LET c == CellAt(mem, a) IN
                 {a} \cup from[a + CellSize
                               + (IF IsCalled(c, Threaded) THEN CellSize ELSE 0)
                               + (IF IsCalled(c, {"LITSTRING"}) THEN CellAt(mem, a + CellSize)
                                                                ELSE 0)]
    IN  from[CodeAddr(e)]

\* A definition "is a sequence of memory addresses for the words in the
\* definition, terminated by -1" (state.h:75), operands in between; every
\* operand of a jump, patched when the construct was closed, is the way to
\* one of these.  The inner interpreter relies on it and checks nothing.
CodeIsWellFormed ==
    status = "running" /\ stream = "stdin" /\ ~ compiling /\ ~ executing =>
        LET entries == Entries IN
        \A e \in {f \in entries : ~ IsBuiltin(f)} :
           LET code == Instructions(e) IN
           \A a \in code :
              /\ Holds(a, CellSize) /\ EntryOf(a) = e
              /\ \/ CellAt(mem, a) = -1 /\ \A b \in code : b <= a
                 \/ CellAt(mem, a) \in entries
              /\ IsCalled(CellAt(mem, a), Jumping)
                    => a + CellSize + CellAt(mem, a + CellSize) \in code

\* Offsets that were patched in when a loop, an IF or a LEAVE was closed lead
\* to an instruction of the definition they are compiled in: pc leaves it only
\* by a call and by the -1 at its end.
JumpsStayInDefinition ==
    [][executing /\ executing'
         /\ CellAt(mem, pc) # -1 /\ IsBuiltin(CellAt(mem, pc))
            => pc' \in Instructions(EntryOf(pc))]_vars

\* Compiled code and texts are not overwritten, whatever the program is: a step
\* changes a byte below here only by a store at the address it pops, by setting
\* the flag of the latest entry (builtins.c:497), or in an operand that was noted
\* in the innermost loop, when it closes that loop (builtins.c:562).
WritesBelowHere ==
    [][\A a \in Address : a < here /\ mem'[a] # mem[a] =>
          \/ Depth >= 2 /\ a \in Top .. Top + CellSize - 1 /\ stack' = Rest(2)
          \/ a = latest + CellSize /\ mem'[a] = mem[a] + F_IMMEDIATE
          \/ /\ loops # <<>> /\ loops' = SubSeq(loops, 1, Len(loops) - 1)
             /\ \E i \in DOMAIN loops[Len(loops)].patches :
                   a - loops[Len(loops)].patches[i] \in 0 .. CellSize - 1]_vars
=============================================================================
