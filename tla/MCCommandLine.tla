---------------------------- MODULE MCCommandLine -----------------------------
(* Words for the runs of CommandLine: every option, an unknown one, the end *)
(* of options, and operands and numbers on either side of each limit.       *)
EXTENDS CommandLine

Option(o) == [text |-> "-" \o o, opt |-> o, number |-> NoNumber]
Operand(t, n) == [text |-> t, opt |-> None, number |-> n]

Common == {Option(o) : o \in {"p", "h", "v", "x"}}
            \cup {[text |-> "--", opt |-> "--", number |-> NoNumber],
                  [text |-> "-5", opt |-> "5", number |-> -5],
                  Operand("", NoNumber), Operand("envhost", NoNumber),
                  Operand("0", 0), Operand("65535", 65535), Operand("65536", 65536)}

MCWords ==
  [server |-> Common \cup {Option(o) : o \in {"t", "i", "d"}}
                \cup {Operand("1st", 1), Operand("99", 99), Operand("100", 100),
                      Operand("60000", 60000)},
   client |-> Common \cup {Option(o) : o \in {"H", "t", "u", "r", "a"}}]
===============================================================================
