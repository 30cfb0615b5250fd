-------------------------- MODULE CtilDictionaryMC --------------------------
(***************************************************************************)
(* CtilDictionary for TLC: every sequence of at most MaxWords definitions, *)
(* compiled cells and memory words, from the registration of LITNUMBER on; *)
(* and the refinement of Vocabulary.                                       *)
(***************************************************************************)
EXTENDS CtilDictionary, FiniteSets

CONSTANTS Names,     \* the names words are given
          Literals,  \* the numbers on the stack
          MaxWords   \* bound on the words a program executes

ASSUME MCNamesAssumption == Names \subseteq Seq(Byte \ {0}) /\ Literals \subseteq Cell

VARIABLES given,     \* the names in the order they were given
          words,     \* the definitions that are found in memory
          executed

mcVars == <<dictVars, given, words, executed>>

MCCode == [c \in {"LITNUMBER", "A", "B"} |-> CASE c = "A" -> 1 [] c = "B" -> 2
                                               [] OTHER -> 3]
(* The definitions, read off the links.                                    *)

\* The entries, the oldest first; links that leave memory or go round in circles
\* are cut.
EntriesOf(d) ==
    LET chain[links \in Nat] ==
            [e \in Int |-> IF links = 0 \/ ~ Holds(e, CellSize) THEN <<>>
                           ELSE Append(chain[links - 1][CellAt(d.mem, e)], e)]
    IN  chain[MemSize][d.latest]
Entries == EntriesOf(Dict)

Stored(m, a, b) == LET end == IF b > MemSize THEN MemSize ELSE b
                   IN  [i \in 1 .. end - a |-> m[a + i - 1]]
NameOf(m, e) ==
    LET zero == CHOOSE z \in NameAddr(e) .. MemSize - 1 :
                   m[z] = 0 /\ \A a \in NameAddr(e) .. z - 1 : m[a] # 0
    IN  Stored(m, NameAddr(e), zero)

DefinitionsOf(d) ==
    LET es      == EntriesOf(d)
        next(i) == IF i = Len(es) THEN d.here ELSE es[i + 1]
    IN  [i \in 1 .. Len(es) |-> [name      |-> NameOf(d.mem, es[i]),
                                 immediate |-> HasFlag(d.mem, es[i], F_IMMEDIATE),
                                 body      |-> Stored(d.mem, CodeIn(d.mem, es[i]), next(i))]]
Definitions == DefinitionsOf(Dict)

MCInit == WordsInit /\ latest = -1 /\ given = <<>> /\ words = <<>> /\ executed = 0

Defines(name, Act) == Act /\ given' = Append(given, name)

DictNext ==
    \/ latest = -1 /\ Defines(WordName("LITNUMBER"),
          Becomes(Register(Dict, WordName("LITNUMBER"), 0, 1)) /\ UNCHANGED stack)
    \/ /\ latest # -1
       /\ \/ \E name \in Names :
                \/ Defines(name, Create(name))
                \/ Defines(name, Constant(name))
                \/ Defines(name, Colon(name))
          \/ /\ UNCHANGED given
             /\ \/ Compile(latest) \/ Semicolon \/ Immediate
                \/ /\ UNCHANGED latest
                   /\ \/ Comma \/ Allot
                      \/ Depth = 0 /\ \E v \in Literals : Push(v)

MCNext == /\ status = "running" /\ executed < MaxWords
          /\ executed' = executed + 1
          /\ DictNext /\ words' = Definitions'
MCSpec == MCInit /\ [][MCNext]_mcVars

-----------------------------------------------------------------------------
\* The dictionary is only ever extended: entries keep their names, flags and
\* code, and find_word_in_dict passes them all.
Vocab == INSTANCE Vocabulary
KeepsDefinitions == Vocab!Spec

\* "Find a word in the dictionary by its name" (state.c:156): the newest of
\* the words of that name is found, and none if there is none.
FindsTheNewest ==
    \A name \in Names :
       LET same == {i \in DOMAIN given : given[i] = name} IN
       status = "running" =>
          \/ same = {} /\ Find(name) = NotFound
          \/ \E i \in same : /\ \A j \in same : j <= i
                             /\ Find(name) = Entries[i]

\* A definition does not disturb what lies below here: the bytes there change
\* only in the flags of the latest entry.
WritesOnlyAtHere ==
    [][\A a \in 0 .. here - 1 : a \in Address =>
          mem'[a] = mem[a] \/ a = latest + CellSize]_mcVars

\* "This length is stored in the previous byte" (state.h:71), padding and all:
\* the code of a word begins behind its name.
CodeFollowsName ==
    latest # -1 => CodeAddr(latest) > NameAddr(latest)

-----------------------------------------------------------------------------
As(n) == [i \in 1 .. n |-> Code["A"]]
MCNames == {As(1), As(2), As(3)}
LongNames == {As(6)}
MCLiterals   == {2, 5}
=============================================================================
