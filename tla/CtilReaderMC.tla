---------------------------- MODULE CtilReaderMC ----------------------------
(***************************************************************************)
(* CtilReader for TLC: every text of up to five characters.                *)
(***************************************************************************)
EXTENDS CtilReader, TLC

Characters == {"x", " ", "\n", ")", "\""}
MCUpper == "x" :> "X" @@ [ch \in Characters |-> ch]
MCTexts == UNION {[1 .. n -> Characters] : n \in 0 .. 5}
             \cup {Append([i \in 1 .. n |-> "x"], "\"") : n \in {4 * 3 - 1, 4 * 3}}
=============================================================================
