--------------------------- MODULE MCUniverseSync ---------------------------
(***************************************************************************)
(* Snapshot files for TLC, over two tickers.                               *)
(***************************************************************************)
EXTENDS UniverseSync, TLC

CONSTANTS u, v, A, B, hose, hnx, w1, w2

Plain(t) == [symbol |-> t, prev |-> None, exchange |-> None, weight |-> None,
             status |-> "active", from |-> None]

Both == <<Plain(A), Plain(B)>>
OnlyA == <<Plain(A)>>
OnlyB == <<Plain(B)>>
Weighted == <<[Plain(A) EXCEPT !.weight = w1, !.exchange = hose]>>
Moved == <<[Plain(A) EXCEPT !.weight = w2, !.exchange = hnx]>>
Halted == <<[Plain(A) EXCEPT !.status = "suspended"], Plain(B)>>
Delisted == <<[Plain(A) EXCEPT !.status = "delisted"], Plain(B)>>
Renamed == <<[Plain(B) EXCEPT !.prev = A]>>
Backfill == <<[Plain(A) EXCEPT !.from = 1]>>

FilesTrade == {Both, OnlyB, Weighted, Moved, Halted, Delisted, Renamed, Backfill}
FilesOne == {OnlyA}

\* What the theorem on the record asks of the files.
ASSUME FilesAreTidy == \A f \in FilesTrade \union FilesOne : Tidy(f)

\* FilesOne names neither a universe nor an exchange.
MCSymmetry == Permutations(Universes) \union Permutations(Exchanges)
=============================================================================
