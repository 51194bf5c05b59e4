----------------------------- MODULE MCUserLib -----------------------------
(* Values of the constants for checking the user library. *)
EXTENDS UserLib

Specification(convs, flags, widths, precs, longs) ==
    [conv : convs, flags : SUBSET flags, zero : BOOLEAN, width : widths,
     prec : precs, long : longs]

AllFlags == {"#", "-", "+", " "}
MCFormats ==
    Specification({"d", "z", "u", "o", "x", "p"}, AllFlags, {0, 4, -3}, {-1}, {0})
      \cup Specification({"s"}, {"-"}, {0, 4, -3}, {-1, 0, 2}, {0})
      \cup Specification({"t"}, {"#", "-"}, {0, 6, 21, -8}, {-1}, {0, 1})
      \cup Specification({"c", "b"}, {}, {0, 3}, {-1}, {0})

(* Two bits, and between them a field of LONG_BITS - 2 bits. *)
MCItems == << [bit |-> LONG_BITS, last |-> 0, name |-> <<71>>],
              [bit |-> LONG_BITS - 1, last |-> 2, name |-> <<72>>],
              [bit |-> 1, last |-> 0, name |-> <<73>>] >>

MCArgs(conv) ==
    CASE conv \in {"d", "z"}           -> Long
      [] conv \in {"u", "o", "x", "p"} -> ULong
      [] conv = "c" -> {97, 10, 0}
      [] conv = "s" -> {Times(n, 97) : n \in 0 .. 3} \cup {<<97, 10, 98>>}
      [] conv = "b" -> [u : ULong, base : {8, 16}, items : {MCItems}]
      [] conv = "t" -> [task : {3, 31, 300}, lthread : {3, 31},
                        high : {0, 4660}, low : {171}]

MCSizes == {UNLIMITED, 0, 3}
MCTexts == {<<>>, <<97>>, <<97, 98>>, <<97, 10>>, <<97, 98, 97, 98, 97>>}
=============================================================================
