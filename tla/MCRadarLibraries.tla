------------------------- MODULE MCRadarLibraries ---------------------------
(* The radar libraries for TLC.  The data manager has a task more than     *)
(* slots and one fill level; the algorithms get frames of sixteen chirps   *)
(* and eight bins, two frames one after the other.                         *)
EXTENDS RadarLibraries

MCTasks    == {"a", "b", "c"}
OneLevel   == {2}
WholeLevel == {2}

-----------------------------------------------------------------------------
(* Scenes for the slim algorithms.  With the floor of the configuration    *)
(* sizes from 6 on are loud and sizes up to 2 faint.                       *)

SlimFrame == [n_channels |-> 3, n_chirps |-> 16, n_samples |-> 16, n_range_bins |-> 8]

TargetAt(b, z, v) == [bin |-> b, size |-> z, velocity |-> v]
TargetSets ==
    {{}, {TargetAt(4, 9, 0)},                               \* nothing, or a wall
     {TargetAt(0, 9, 1)},                                   \* too close
     {TargetAt(1, 6, 2)}, {TargetAt(7, 6, 1)},              \* alone at a border
     {TargetAt(3, 6, 1), TargetAt(4, 9, 0)},                \* in front of a wall
     {TargetAt(2, 6, 1), TargetAt(6, 9, -1)},               \* the farther one is stronger
     {TargetAt(5, 6, 2), TargetAt(0, 9, 1), TargetAt(1, 9, 0)},
     {TargetAt(2, 1, 1), TargetAt(6, 2, -1)},               \* the same, and faint
     {TargetAt(4, 1, 2), TargetAt(5, 1, 1), TargetAt(1, 9, 0)}}
Direction  == [ch \in 0 .. 2 |-> <<3, 1, 0>>[ch + 1]]

Scene(ts, d, s) == [targets |-> ts, direction |-> d, silent |-> s]
MCScenes == {Scene(ts, Direction, {}) : ts \in TargetSets}
    \cup {Scene({TargetAt(3, 6, 1)}, [ch \in 0 .. 2 |-> 2], s) : s \in {{}, {1}}}

-----------------------------------------------------------------------------
(* Images for the detection of a hand: a person at one of three bins, up   *)
(* to four cells that stand out, and a floor that differs by velocity.     *)

HandFrame == [n_channels |-> 3, n_chirps |-> 16, n_samples |-> 16, n_range_bins |-> 8]

Hot(row, col, size) == [row |-> row, col |-> col, size |-> size]
HotCells ==
    {{}, {Hot(3, 2, 90)},
     {Hot(3, 2, 90), Hot(5, 3, 80), Hot(4, 2, 70)},     \* the last joins the others
     {Hot(3, 6, 90), Hot(12, 5, 80)},
     {Hot(9, 4, 70), Hot(0, 6, 90)},                    \* the first within the mask
     {Hot(2, 1, 90), Hot(12, 3, 90)},                   \* equal ones
     {Hot(2, 3, 90), Hot(5, 2, 80), Hot(10, 1, 70), Hot(14, 4, 60)}} \* one too many

RdiImage(person, cells, silent) ==
    [i \in 0 .. 383 |->
        LET ch == i \div 128  row == (i % 128) \div 8  col == i % 8
            hot == {c \in cells : c.row = row /\ c.col = col}
        IN  CASE ch \in silent -> Zero
              [] ch \notin silent /\ hot # {} ->
                    Scale((CHOOSE c \in hot : TRUE).size, Quarter(<<3, 1, 0>>[ch + 1]))
              [] ch \notin silent /\ hot = {} ->
                    IF row \in 7 .. 9 /\ col = person THEN <<100, 0>>
                    ELSE <<1 + ((row * 5) % 16), 0>>]

MCRdiImages == {RdiImage(p, c, {}) : p \in {2, 5, 7}, c \in HotCells}
                   \cup {RdiImage(5, {Hot(3, 2, 90)}, {1})}
=============================================================================
