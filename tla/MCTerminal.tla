----------------------------- MODULE MCTerminal -----------------------------
(***************************************************************************)
(* A small instance of Displays for TLC: what is written to the terminal.  *)
(***************************************************************************)
EXTENDS Displays

Given(n) == [value |-> n, present |-> TRUE, more |-> FALSE]
Sub(n) == [value |-> n, present |-> TRUE, more |-> TRUE]
Omitted == [value |-> 0, present |-> FALSE, more |-> FALSE]

Rune(r) == [kind |-> "print", rune |-> r]
Control(c) == [kind |-> "execute", control |-> c]
Esc(final) == [kind |-> "escape", intermediate |-> "", final |-> final]
Designate(set, final) == [kind |-> "escape", intermediate |-> set, final |-> final]
Csi(final, ps) ==
  [kind |-> "csi", prefix |-> "", intermediate |-> "", final |-> final, parameters |-> ps]
Dec(mode, final) ==
  [kind |-> "csi", prefix |-> "?", intermediate |-> "", final |-> final,
   parameters |-> <<Given(mode)>>]

Screen3x3 == [width |-> 3, height |-> 3]
SomeSizes == {Screen3x3, [width |-> 2, height |-> 2], [width |-> 0, height |-> 3]}

Drawing ==
  {<<Rune("a")>>, <<Rune("w")>>, <<Rune("m")>>, <<Rune("a"), Rune("w")>>,
   <<Control("SO"), Rune("q")>>, <<Rune("a"), Rune("a"), Rune("a")>>}
Moving ==
  {<<Control(c)>> : c \in {"BS", "HT", "LF", "CR"}}
  \cup {<<Esc(f)>> : f \in {"7", "8", "D", "E", "M", "c"}}
  \cup {<<Csi("H", <<Omitted, Given(2)>>)>>, <<Csi("f", <<Given(3), Given(3)>>)>>,
        <<Csi("A", <<>>)>>, <<Csi("B", <<Given(9)>>)>>, <<Csi("C", <<>>)>>,
        <<Csi("D", <<Given(0)>>)>>, <<Csi("G", <<Given(3)>>)>>}
Editing ==
  {<<Csi(f, <<>>)>> : f \in {"@", "J", "K", "L", "M", "P", "X"}}
  \cup {<<Csi("J", <<Given(n)>>)>> : n \in 1..4} \cup {<<Csi("K", <<Given(n)>>)>> : n \in 1..3}
Modes ==
  {<<Dec(m, f)>> : m \in {7, 25, 47, 1047, 1049, 2004, 9}, f \in {"h", "l"}}
  \cup {<<Csi("h", <<Given(4)>>)>>, <<Csi("l", <<Given(4), Omitted, Given(20)>>)>>,
        <<Csi("r", <<Given(2)>>)>>, <<Csi("r", <<Given(1), Given(2)>>)>>,
        <<Csi("r", <<Given(3), Given(1)>>)>>, <<Dec(1, "h")>>,
        <<Designate(")", "0"), Designate("(", "B")>>}
Renditions ==
  {<<Csi("m", ps)>> : ps \in {<<>>, <<Given(7), Given(27), Given(1), Given(32)>>,
                              <<Given(38), Given(5), Given(9), Given(101)>>,
                              <<Given(48), Given(2), Given(1), Given(4), Given(5), Given(4)>>,
                              <<Sub(38), Sub(2), Sub(1), Given(4)>>}}
Reporting ==
  {<<Control("ENQ"), Control("BEL")>>, <<Control("NUL"), Control("C1"), Control("SI")>>,
   <<Designate("#", "8"), Esc("=")>>, <<[kind |-> "string"]>>,
   <<[kind |-> "osc", command |-> 2, data |-> "MENU"]>>,
   <<[kind |-> "osc", command |-> 1, data |-> "icon"],
     [kind |-> "osc", command |-> -1, data |-> ""]>>,
   <<[kind |-> "csi", prefix |-> ">", intermediate |-> "", final |-> "c", parameters |-> <<>>]>>}

(* All that is written. *)
AllWrites == Drawing \cup Moving \cup Editing \cup Modes \cup Renditions \cup Reporting
=============================================================================
