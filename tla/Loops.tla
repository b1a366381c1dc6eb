------------------------------- MODULE Loops -------------------------------
(***************************************************************************)
(* Facts about loops.  A loop of the code over 1..n is a recursive         *)
(* function in the models: its value at 0 is the state before the loop,    *)
(* its value at k the state after k rounds.                                *)
(***************************************************************************)
EXTENDS Integers, WellFoundedInduction, TLAPS

\* What holds before the loop and is kept by every round holds all along.
LEMMA UpTo ==
  ASSUME NEW n \in Nat, NEW P, 0 \in P, \A k \in 1..n : k - 1 \in P => k \in P
  PROVE  0..n \subseteq P
<1> SUFFICES ASSUME (0..n) \ P # {} PROVE FALSE
  OBVIOUS
<1> DEFINE T == (0..n) \ P
<1>1. T # {} /\ T \subseteq Nat
  OBVIOUS
<1> HIDE DEF T
<1>2. PICK m \in T : \A i \in T : ~(<<i, m>> \in OpToRel(<, Nat))
  BY <1>1, NatLessThanWellFounded, WFMin, Zenon
<1>3. \A i \in T : <<i, m>> \in Nat \X Nat /\ <<i, m>>[1] = i /\ <<i, m>>[2] = m
  BY <1>1
<1>4. \A i \in T : ~(i < m)
  BY <1>2, <1>3, Zenon DEF OpToRel
<1>5. m \in 1..n /\ m - 1 \in P
  BY <1>1, <1>4 DEF T
<1> QED BY <1>5 DEF T

\* The rounds of a loop over 1..n whose states are in S, and the states it goes through.
Rounds(n, S) == [(1..n) \X S -> S]
IsLoop(f, n, S, base, step) ==
  f \in [0..n -> S] /\ f[0] = base /\ \A k \in 1..n : f[k] = step[<<k, f[k - 1]>>]

\* Every loop whose rounds stay within S goes through some states of S.
LEMMA Loop ==
  ASSUME NEW n \in Nat, NEW S, NEW base \in S, NEW step \in Rounds(n, S)
  PROVE  \E f : IsLoop(f, n, S, base, step)
<1> USE DEF Rounds
<1> DEFINE Ok(m, f) == f[0] = base /\ \A k \in 1..m : f[k] = step[<<k, f[k - 1]>>]
           P == {m \in 0..n : \E f \in [0..m -> S] : Ok(m, f)}
<1>1. 0 \in P
  <2>1. [i \in 0..0 |-> base] \in [0..0 -> S] /\ Ok(0, [i \in 0..0 |-> base])
    OBVIOUS
  <2>2. \E f \in [0..0 -> S] : Ok(0, f)
    <3> HIDE DEF Ok
    <3> QED BY <2>1
  <2> QED BY <2>2
<1>2. ASSUME NEW m \in 1..n, m - 1 \in P PROVE m \in P
  <2>1. PICK f \in [0..(m - 1) -> S] : Ok(m - 1, f)
    BY <1>2
  <2> DEFINE g == [i \in 0..m |-> IF i = m THEN step[<<m, f[m - 1]>>] ELSE f[i]]
  <2>2. <<m, f[m - 1]>> \in (1..n) \X S
    OBVIOUS
  <2>3. g \in [0..m -> S]
    BY <2>2
  <2>4. g[0] = base
    BY <2>1
  <2>5. ASSUME NEW k \in 1..m PROVE g[k] = step[<<k, g[k - 1]>>]
    <3>1. CASE k = m
      <4>1. m \in 0..m /\ m - 1 \in 0..m /\ m - 1 # m
        OBVIOUS
      <4>2. g[m] = step[<<m, f[m - 1]>>] /\ g[m - 1] = f[m - 1]
        BY <4>1
      <4> QED BY <3>1, <4>2
    <3>2. CASE k # m
      <4>1. k \in 1..(m - 1) /\ k \in 0..m /\ k - 1 \in 0..m /\ k - 1 # m
        BY <3>2
      <4>2. f[k] = step[<<k, f[k - 1]>>]
        BY <2>1, <4>1
      <4> QED BY <3>2, <4>1, <4>2
    <3> QED BY <3>1, <3>2
  <2>6. Ok(m, g)
    BY <2>4, <2>5
  <2> HIDE DEF g, Ok
  <2> QED BY <2>3, <2>6
<1>3. 0..n \subseteq P
  <2> HIDE DEF P
  <2> QED BY <1>1, <1>2, UpTo
<1>4. n \in P
  BY <1>3
<1>5. PICK f \in [0..n -> S] : Ok(n, f)
  BY <1>4
<1> QED BY <1>5 DEF IsLoop
=============================================================================
