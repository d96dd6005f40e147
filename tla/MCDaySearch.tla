---------------------------- MODULE MCDaySearch ----------------------------
(***************************************************************************)
(* Days with three places on a line: a node is a position, a leg takes as  *)
(* long as it is far, and short legs are walked.  One leg may be missing.  *)
(***************************************************************************)
EXTENDS DaySearch, TLC

CONSTANTS Pos, Raw, Hours, Missing, Zips, TopK

Far(a, b) == IF a > b THEN a - b ELSE b - a

Traf(pos, gone) ==
    [l \in Node \X Node |->
        IF l = gone THEN NULL
        ELSE LET d == Far(pos[l[1]], pos[l[2]]) IN [dist |-> d, time |-> d, walk |-> d < 2]]

All == [open |-> 0, close |-> 20]
Lunch == [open |-> 4, close |-> 6]
Supper == [open |-> 8, close |-> 10]

\* The hours of a place: a restaurant has a lunch and a supper window.
Win(raw, h) ==
    [i \in Place |->
        IF raw[i] # {} THEN <<IF "lunch" \in raw[i] THEN Lunch ELSE NULL,
                              IF "supper" \in raw[i] THEN Supper ELSE NULL>>
        ELSE h[i]]

\* Only a place that is no restaurant may lack a duration.
Zip(raw, zip) == [i \in Place |-> IF raw[i] # {} /\ zip[i] = -1 THEN 1 ELSE zip[i]]

MCDay ==
    {[start |-> 0, stop |-> stop, traf |-> Traf(0 :> 0 @@ End :> 1 @@ pos, gone), type |-> raw,
      win |-> Win(raw, h), zip |-> Zip(raw, zip), topK |-> k] :
        pos \in [Place -> Pos], gone \in Missing, raw \in Raw, h \in Hours,
        stop \in {7, 12}, zip \in Zips, k \in TopK}

MCPenalty == [nonWalk |-> 2, maxWalk |-> 2, firstL |-> 1]
MCPos == {0, 1, 3}

V == {}
L == {"lunch"}
B == {"lunch", "supper"}
MCRaw == {<<V, V, V>>, <<V, L, V>>, <<V, L, L>>, <<B, V, B>>, <<B, L, V>>, <<B, B, L>>}

Day1 == <<All>>
Day2 == <<[open |-> 0, close |-> 2], [open |-> 9, close |-> 11]>>
MCHours == {<<Day1, Day1, Day1>>, <<Day2, Day1, Day2>>}
MCZips == {<<1, 2, 1>>, <<1, 1, -1>>}
MCMissing == {<<0, 0>>, <<1, 2>>}

=============================================================================
