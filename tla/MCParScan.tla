----------------------------- MODULE MCParScan -----------------------------
(***************************************************************************)
(* Documents with up to two bytes that end runs, anywhere in clean ones,   *)
(* and strings of every shape of character, cut and whole.                 *)
(***************************************************************************)
EXTENDS ParScan

Marked(n, marks) ==
  UNION {[1..n -> {"a"}],
         {[[k \in 1..n |-> "a"] EXCEPT ![i] = x] : i \in 1..n, x \in marks},
         {[[k \in 1..n |-> "a"] EXCEPT ![i] = x, ![j] = y] :
            i \in 1..n, j \in 1..n, x \in marks, y \in marks}}
Texts(n) == [1..n -> {"a", "80", "E2"}]

SmallInputs == Marked(8, {"-", "]", "<"})
SmallTexts == Texts(5) \cup {<<"F0", "80", "80", "80", "a", "C3", "80">>,
                             <<"a", "F0", "80", "80", "80", "80", "C3">>}
AllInputs == SmallInputs \cup SmallTexts
=============================================================================
