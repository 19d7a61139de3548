----------------------------- MODULE MCBacktest -----------------------------
(* The replay of every file of 6 rows at two times, whose texts sort the   *)
(* other way round, with windows of 2 and 3 trades, as in the tests and on *)
(* the page, prices that produce equal, higher and lower averages, and a   *)
(* page that forgets its oldest trades.                                    *)
EXTENDS CsvReplay

MCPrice == {0, 1, 3}
MCTime == {2, 10}
=============================================================================
