--------------------------- MODULE MCContentLocal ---------------------------
(***************************************************************************)
(* Every file of up to three characters, every one of four without blanks, *)
(* and four longer ones whose lines span three buffers of two characters,  *)
(* end with a full buffer, end with blanks, or hold carriage returns.      *)
(***************************************************************************)
EXTENDS ContentLocal

ShortFiles == UNION {[1 .. n -> Chars] : n \in 0 .. 3}
              \cup [1 .. 4 -> {"nl", "char"}]
LongFiles == { <<"char", "char", "char", "blank", "char", "nl">>,
               <<"nl", "char", "blank", "blank", "char">>,
               <<"char", "nl", "blank", "blank", "blank", "blank">>,
               <<"cr", "nl", "char", "cr", "char", "nl", "char", "cr", "nl">> }
AllFiles == ShortFiles \cup LongFiles
=============================================================================
