--------------------------- MODULE MCRecordTimer ---------------------------
(* Small instances of RecordTimer for TLC: two timers, seconds as ticks     *)
(* unless a configuration says otherwise.                                   *)
EXTENDS RecordTimer

CONSTANTS e1, e2

Once(b, f) == [begin |-> b, end |-> f, repeated |-> {}, justplay |-> FALSE,
               deepstandby |-> FALSE]
Deep(b, f) == [Once(b, f) EXCEPT !.deepstandby = TRUE]
ZapAt(b)   == [Once(b, b) EXCEPT !.justplay = TRUE]
Weekly(b, f, days) == [Once(b, f) EXCEPT !.repeated = days]

MCTimers  == {e1, e2}
Symmetric == Permutations(Timers)

OneShot  == {Once(3, 5), Deep(2, 3)}
BackToBack == {Deep(3, 4), Once(5, 6)}
Repeats  == {Weekly(3, 5, {0}), Weekly(2, 3, {0, 1})}
Mixed    == {Deep(2, 4), ZapAt(3), Weekly(2, 3, {0, 1})}
RepeatsAndZap == Repeats \cup {ZapAt(3)}
Steps    == {-2, 3}
=============================================================================
