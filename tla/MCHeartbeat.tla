---------------------------- MODULE MCHeartbeat ----------------------------
(* Small numbers for TLC: ints from -16 to 15, so that an interval of 6    *)
(* overflows when tripled and one of 20 is negative; 0 and 2 are too short *)
(* for answers, 3 is the shortest sane one, 4 a longer one.                *)
EXTENDS Heartbeat

MCIntervals == {0, 2, 3, 4, 6, 20}
=============================================================================
