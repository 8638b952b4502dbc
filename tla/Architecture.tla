---------------------------- MODULE Architecture ----------------------------
(***************************************************************************)
(* What a processor promises, whatever it does inside: its instructions    *)
(* retire one after the other as the program has them, and their stores    *)
(* reach memory one after the other as the program has them, none before   *)
(* its instruction has retired.                                            *)
(***************************************************************************)
EXTENDS Naturals, Sequences

CONSTANTS RetireWidth, StoreWidth

VARIABLES
  program,    \* a sequence of instructions, each with the addresses it stores to
  retired,    \* the places in the program of those that have retired
  stored      \* the stores that have left, each with the place of its instruction

vars == <<program, retired, stored>>

\* The stores of the first n instructions, in order.
StoresUpTo(n) ==
  LET upTo[i \in 0 .. Len(program)] ==
        IF i = 0 THEN << >>
        ELSE upTo[i - 1] \o [k \in 1 .. Len(program[i].stores) |-> <<i, program[i].stores[k]>>]
  IN  upTo[n]

Init == retired = << >> /\ stored = << >>

Retire(n) ==
  /\ Len(retired) + n <= Len(program)
  /\ retired' = retired \o [k \in 1 .. n |-> Len(retired) + k]

Store(n) ==
  LET due == StoresUpTo(Len(retired'))
  IN  /\ Len(stored) + n <= Len(due)
      /\ stored' = stored \o SubSeq(due, Len(stored) + 1, Len(stored) + n)

Step ==
  \E n \in 0 .. RetireWidth, m \in 0 .. StoreWidth :
    Retire(n) /\ Store(m) /\ UNCHANGED program

Spec == Init /\ [][Step]_vars
=============================================================================
