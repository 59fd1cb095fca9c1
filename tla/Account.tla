------------------------------ MODULE Account ------------------------------
(***************************************************************************)
(* What the simulator promises of an account (backtest/engine.py's         *)
(* docstring): long-only, no borrowing, and shares that settle SETTLE      *)
(* sessions after they were bought before they may be sold, oldest first.  *)
(***************************************************************************)
EXTENDS Integers

CONSTANTS Instruments, Sessions, SETTLE, Capital

VARIABLES
    session,
    cash,
    held       \* held[j][d]: shares of j bought in session d and not yet sold

avars == <<session, cash, held>>

Init ==
    /\ session = 0 /\ cash = Capital
    /\ held = [j \in Instruments |-> [d \in Sessions |-> 0]]

\* Shares of today, paid in cash.
Buy(j) ==
    /\ 0 <= cash' /\ cash' < cash
    /\ held'[j][session] > held[j][session]
    /\ held' = [held EXCEPT ![j][session] = held'[j][session]]
    /\ UNCHANGED session

\* Settled shares of one instrument, the oldest first, for more than nothing.
Sell(j) ==
    /\ cash' > cash
    /\ held'[j] # held[j]
    /\ held' = [held EXCEPT ![j] = held'[j]]
    /\ \A d \in Sessions :
        /\ 0 <= held'[j][d] /\ held'[j][d] <= held[j][d]
        /\ held'[j][d] < held[j][d] =>
              /\ d + SETTLE <= session
              /\ \A e \in Sessions : e < d => held'[j][e] = 0
    /\ UNCHANGED session

NextSession == session' = session + 1 /\ UNCHANGED <<cash, held>>

Next == NextSession \/ \E j \in Instruments : Buy(j) \/ Sell(j)

Spec == Init /\ [][Next]_avars
=============================================================================
