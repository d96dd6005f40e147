------------------------------ MODULE DaySearch ------------------------------
(***************************************************************************)
(* DFS: the depth-first search over the orders in which the places of one  *)
(* day (one block) can be visited.  It prunes with the best path found so  *)
(* far, undoes its running totals on the way back, and gives up when the   *)
(* request has run out of time.  Node 0 is the key node the day starts     *)
(* from, End the one it ends at, the others are the places.               *)
(***************************************************************************)
EXTENDS PathHeap, Sequences

CONSTANTS
    Day,        \* the days to search: what DFS::Init and Init4Clash read from the plan,
                \* and topK, BagParam::m_dfsDayHeapLimit
    Mid,        \* the number of places of a day
    Penalty,    \* [nonWalk, maxWalk, firstL]: PathEval's parameters of the score
    Hour,       \* an hour, in the time unit of the days
    CheckEvery, \* the calls of Search between two looks at the clock (20000)
    NULL        \* no traffic for a leg, no window for a meal

End == Mid + 1
Node == 0..End
Place == 1..Mid

Meals == {"lunch", "supper"}
Traffic == [dist : Nat, time : Nat, walk : BOOLEAN]
OpenClose == [open : Int, close : Int]

\* The plan of a day.  Only a restaurant may have no window for a meal.
ASSUME DayAssumption ==
    /\ Mid \in Nat /\ CheckEvery \in Nat /\ Hour \in Nat
    /\ Penalty \in [nonWalk : Nat, maxWalk : Nat, firstL : Nat]
    /\ \A d \in Day :
          /\ d.start \in Int /\ d.stop \in Int /\ d.topK \in Nat \ {0}
          /\ d.traf \in [Node \X Node -> Traffic \union {NULL}]
          /\ d.type \in [Place -> SUBSET Meals] /\ d.zip \in [Place -> Int]
          /\ d.win \in [Place -> Seq(OpenClose \union {NULL})]
          /\ \A i \in Place : d.type[i] = {} => d.win[i] \in Seq(OpenClose)

VARIABLES
    day,        \* the inputs: start, stop, traf, win, zip, type, topK
    path,       \* m_path[0 .. m_len - 1]
    need,       \* m_leftRestNeed
    totDist, nonWalk, walkDist, \* the running totals
    frames,     \* a record [idx, need] per active loop of Search: the loop
                \* variable, and oriRNeed of the SearchRest it has called
    sCnt,       \* m_sCnt
    late,       \* whether IsDFSTimeOut() has answered true
    heap,       \* m_heap
    dfsPc

totals == <<totDist, nonWalk, walkDist>>
dfsVars == <<day, path, need, totals, frames, sCnt, late, heap, dfsPc>>

-----------------------------------------------------------------------------
(* Init *)

IsRest(t) == t # {}

\* DFS::Init: m_vType, the meals that a place serves, {} for a view.  Of the
\* restaurants of a day, the first and the last one (if there are two) are made
\* to serve different meals where one of them serves only one.
Types(d) ==
    LET raw == d.type
        rests == {i \in Place : IsRest(raw[i])}
        first == CHOOSE i \in rests : \A k \in rests : i <= k
        last == CHOOSE i \in rests : \A k \in rests : k <= i
    IN IF Cardinality(rests) < 2 THEN raw
       ELSE IF Cardinality(raw[first]) = 1 THEN [raw EXCEPT ![last] = Meals \ raw[first]]
       ELSE IF Cardinality(raw[last]) = 1 THEN [raw EXCEPT ![first] = Meals \ raw[last]]
       ELSE raw

\* DFS::Init: m_blockRestNeed, the meals of the first and the last restaurant.
BlockNeed(d) ==
    LET rests == {i \in Place : IsRest(Types(d)[i])}
    IN UNION {Types(d)[i] : i \in {r \in rests : (\A k \in rests : r <= k) \/ (\A k \in rests : k <= r)}}

DFSInit ==
    /\ day \in Day
    /\ need = BlockNeed(day)
    /\ path = <<0>>
    /\ totDist = 0 /\ nonWalk = 0 /\ walkDist = 0
    /\ frames = <<>> /\ sCnt = 0 /\ late = FALSE
    /\ heap = EmptyHeap /\ dfsPc = "search"

-----------------------------------------------------------------------------
(* What a path is worth. *)

\* The traffic from a to b.
Item(d, a, b) == d.traf[<<a, b>>]

Over(a, b) == IF a > b THEN a - b ELSE 0

\* DFS::GetScore
GetScore(dist, non, walk, firstL) ==
    -(dist + Over(non, 1) * Penalty.nonWalk + Over(walk, Penalty.maxWalk)
        + firstL * Penalty.firstL)

\* DFS::CalClash: the windows of place i that count.  A restaurant has two,
\* for lunch and for supper, which may be NULL, and uses only the one of a
\* meal that is still needed.
MealOf(j) == IF j = 1 THEN "lunch" ELSE "supper"
Windows(d, i, left) ==
    {j \in 1..Len(d.win[i]) :
        IsRest(Types(d)[i]) => d.win[i][j] # NULL /\ MealOf(j) \in left}

\* Mutant: a visit before the opening does not wait.
Begin_NoWait(d, i, j, arv) == arv

\* The later one of the arrival and the opening.
Begin(d, i, j, arv) == IF arv < d.win[i][j].open THEN d.win[i][j].open ELSE arv

\* DFS::CalClash, one place: the first window that fits is taken, unless
\* the visit would end after the day.  A place without a duration is an
\* error.
Visit(d, acc, s, k) ==
    LET i == s[k]
        arv == acc.offset + Item(d, s[k - 1], i).time
        fits == {w \in Windows(d, i, acc.left) : Begin(d, i, w, arv) + d.zip[i] <= d.win[i][w].close}
        j == CHOOSE x \in fits : \A y \in fits : x <= y
    IN IF acc.fail \/ acc.clash = 1 THEN acc
       ELSE IF d.zip[i] = -1 /\ Windows(d, i, acc.left) # {} THEN [acc EXCEPT !.fail = TRUE]
       ELSE IF fits = {} \/ Begin(d, i, j, arv) + d.zip[i] > d.stop THEN [acc EXCEPT !.clash = 1]
       ELSE [acc EXCEPT
               !.offset = Begin(d, i, j, arv) + d.zip[i],
               !.left = IF IsRest(Types(d)[i]) THEN @ \ {MealOf(j)} ELSE @,
               !.firstL = IF k = 2 /\ IsRest(Types(d)[i]) /\ Begin(d, i, j, arv) - arv > Hour THEN 1 ELSE @]

\* DFS::CalClash of a whole path s, key nodes included.
CalClash(d, s) ==
    LET at[k \in 1..(Len(s) - 1)] ==
            IF k = 1
            THEN [offset |-> d.start, left |-> BlockNeed(d), clash |-> 0, firstL |-> 0, fail |-> FALSE]
            ELSE Visit(d, at[k - 1], s, k)
        last == at[Len(s) - 1]
    IN IF ~last.fail /\ last.clash = 0 /\ last.offset + Item(d, s[Len(s) - 1], s[Len(s)]).time > d.stop
       THEN [last EXCEPT !.clash = 1] ELSE last

\* CalHashPointOrder, without its collisions: a number per order, which does
\* not grow in the order in which the search meets them.
Hash(s) ==
    LET code[k \in 1..Len(s)] ==
            IF k = 1 THEN s[Len(s)] ELSE code[k - 1] * (End + 1) + s[Len(s) + 1 - k]
    IN code[Len(s)]

\* DFS::PushPath: the path of a whole order, with the score of its totals.
SPath(d, s, dist, non, walk) ==
    LET c == CalClash(d, s)
    IN [miss |-> 0, clash |-> c.clash, score |-> GetScore(dist, non, walk, c.firstL),
        hash |-> Hash(s), order |-> s]

-----------------------------------------------------------------------------
(* The search. *)

Here == path[Len(path)]

\* Mutant: the legs that are not walked are not undone.
Totals_NonWalk(item, sign) ==
    /\ totDist' = totDist + sign * item.dist
    /\ nonWalk' = nonWalk + (IF item.walk THEN 0 ELSE 1)
    /\ walkDist' = walkDist + sign * (IF item.walk THEN item.dist ELSE 0)

\* SearchView and SearchRest go on to node i; undoing is the same with -1.
Totals(item, sign) ==
    /\ totDist' = totDist + sign * item.dist
    /\ nonWalk' = nonWalk + sign * (IF item.walk THEN 0 ELSE 1)
    /\ walkDist' = walkDist + sign * (IF item.walk THEN item.dist ELSE 0)

\* Search: at every CheckEvery-th call, IsDFSTimeOut() ends it; from then
\* on time is up and m_sCnt over its limit.
GiveUp ==
    /\ dfsPc = "search" /\ sCnt + 1 > CheckEvery
    /\ late' = TRUE
    /\ sCnt' = sCnt + 1
    /\ dfsPc' = "return"
    /\ UNCHANGED <<day, path, need, totals, frames, heap>>

\* Search: the call is counted and goes on.
Counted ==
    /\ dfsPc = "search"
    /\ sCnt + 1 > CheckEvery => ~late
    /\ sCnt' = IF sCnt + 1 > CheckEvery THEN 0 ELSE sCnt + 1

\* Search, at the end of a path, with PushPath.
Complete ==
    /\ Counted
    /\ Len(path) = Mid + 1
    /\ LET item == Item(day, Here, End)
           non == nonWalk + (IF item.walk THEN 0 ELSE 1)
           walk == walkDist + (IF item.walk THEN item.dist ELSE 0)
           p == SPath(day, path \o <<End>>, totDist + item.dist, non, walk)
       IN heap' = IF /\ item # NULL /\ ~CalClash(day, path \o <<End>>).fail
                     /\ CanPush(heap, day.topK, GetScore(totDist + item.dist, non, walk, 0), 0, 0)
                  THEN Push(heap, day.topK, p) ELSE heap
    /\ dfsPc' = "return"
    /\ UNCHANGED <<day, path, need, totals, frames, late>>

\* Search: the totals so far are worse than the worst path of a full heap.
Prune ==
    /\ Counted
    /\ Len(path) <= Mid
    /\ ~CanPush(heap, day.topK, GetScore(totDist, nonWalk, walkDist, 0), 0, 0)
    /\ dfsPc' = "return"
    /\ UNCHANGED <<day, path, need, totals, frames, late, heap>>

\* Search: the loop over the places begins.
Expand ==
    /\ Counted
    /\ Len(path) <= Mid
    /\ CanPush(heap, day.topK, GetScore(totDist, nonWalk, walkDist, 0), 0, 0)
    /\ frames' = Append(frames, [idx |-> 1, need |-> need])
    /\ dfsPc' = "loop"
    /\ UNCHANGED <<day, path, need, totals, late, heap>>

Idx == frames[Len(frames)].idx
NextIdx == [frames EXCEPT ![Len(frames)].idx = @ + 1]

\* Search: whether SearchView or SearchRest goes on to place i.  The lunch
\* comes first.
CanVisit(i) ==
    /\ \A k \in 1..Len(path) : path[k] # i
    /\ Item(day, Here, i) # NULL
    /\ IsRest(Types(day)[i]) =>
          /\ need # {}
          /\ IF "lunch" \in need THEN "lunch" \in Types(day)[i] ELSE "supper" \in Types(day)[i]

\* SearchView, SearchRest: nothing to do for this place.
Skip ==
    /\ dfsPc = "loop" /\ Idx <= Mid /\ ~CanVisit(Idx)
    /\ frames' = NextIdx
    /\ UNCHANGED <<day, path, need, totals, sCnt, late, heap, dfsPc>>

\* The meal that a restaurant visited now is for.
Meal == IF "lunch" \in need THEN {"lunch"} ELSE {"supper"}

\* SearchView, SearchRest: up to the call of Search.
Descend ==
    /\ dfsPc = "loop" /\ Idx <= Mid /\ CanVisit(Idx)
    /\ path' = Append(path, Idx)
    /\ frames' = [frames EXCEPT ![Len(frames)].need = need]
    /\ need' = IF IsRest(Types(day)[Idx]) THEN need \ Meal ELSE need
    /\ Totals(Item(day, Here, Idx), 1)
    /\ dfsPc' = "search"
    /\ UNCHANGED <<day, sCnt, late, heap>>

\* Search: the loop is over.
LoopEnd ==
    /\ dfsPc = "loop" /\ Idx > Mid
    /\ frames' = SubSeq(frames, 1, Len(frames) - 1)
    /\ dfsPc' = "return"
    /\ UNCHANGED <<day, path, need, totals, sCnt, late, heap>>

\* Mutant: the loop goes on with the place it has just tried.
Undo_SameIdx ==
    /\ dfsPc = "return" /\ frames # <<>>
    /\ Totals(Item(day, path[Len(path) - 1], Here), -1)
    /\ path' = SubSeq(path, 1, Len(path) - 1)
    /\ need' = frames[Len(frames)].need
    /\ dfsPc' = "loop"
    /\ UNCHANGED <<day, frames, sCnt, late, heap>>

\* Mutant: SearchRest does not put the meal back.
Undo_KeepNeed ==
    /\ dfsPc = "return" /\ frames # <<>>
    /\ Totals(Item(day, path[Len(path) - 1], Here), -1)
    /\ path' = SubSeq(path, 1, Len(path) - 1)
    /\ frames' = NextIdx
    /\ dfsPc' = "loop"
    /\ UNCHANGED <<day, need, sCnt, late, heap>>

\* SearchView, SearchRest: after the call of Search.
Undo ==
    /\ dfsPc = "return" /\ frames # <<>>
    /\ Totals(Item(day, path[Len(path) - 1], Here), -1)
    /\ path' = SubSeq(path, 1, Len(path) - 1)
    /\ need' = frames[Len(frames)].need
    /\ frames' = NextIdx
    /\ dfsPc' = "loop"
    /\ UNCHANGED <<day, sCnt, late, heap>>

\* DoSearch: the result is what is in m_heap.
Done ==
    /\ dfsPc = "return" /\ frames = <<>>
    /\ dfsPc' = "done"
    /\ UNCHANGED <<day, path, need, totals, frames, sCnt, late, heap>>

Search == \/ GiveUp \/ Complete \/ Prune \/ Expand
          \/ Skip \/ Descend \/ LoopEnd \/ Undo \/ Done

DFSNext == Search \/ (dfsPc = "done" /\ UNCHANGED dfsVars)

DFSSpec == DFSInit /\ [][DFSNext]_dfsVars

-----------------------------------------------------------------------------
(* Reference: all the orders of the places, judged as a whole. *)

\* The orders of the places, between the key nodes.
Orders ==
    {s \in [1..(Mid + 2) -> Node] :
        /\ s[1] = 0 /\ s[Mid + 2] = End
        /\ \A k \in 2..(Mid + 1) : s[k] \in Place
        /\ \A k, l \in 2..(Mid + 1) : s[k] = s[l] => k = l}

\* The meals that the first, the second restaurant of an order are for: the
\* needed ones of lunch and supper, the lunch first.
Menu(d) ==
    IF BlockNeed(d) = Meals THEN <<"lunch", "supper">>
    ELSE IF "lunch" \in BlockNeed(d) THEN <<"lunch">>
    ELSE IF "supper" \in BlockNeed(d) THEN <<"supper">> ELSE <<>>

\* The restaurants among the first n nodes of s.
Rests(d, s, n) == {k \in 1..n : s[k] \in Place /\ IsRest(Types(d)[s[k]])}

MealOrder(d, s) ==
    \A k \in Rests(d, s, Len(s)) :
        LET n == Cardinality(Rests(d, s, k)) IN n <= Len(Menu(d)) /\ Menu(d)[n] \in Types(d)[s[k]]

\* An order is possible if there is traffic for every leg and every restaurant
\* serves the meal it is for.
Possible(d, s) ==
    /\ \A k \in 2..Len(s) : Item(d, s[k - 1], s[k]) # NULL
    /\ MealOrder(d, s)

\* The distance, the number of legs that are not walked and the distance that
\* is walked along s.
Sums(d, s) ==
    LET at[k \in 1..Len(s)] ==
            IF k = 1 THEN [dist |-> 0, non |-> 0, walk |-> 0]
            ELSE LET item == Item(d, s[k - 1], s[k])
                     sum == at[k - 1]
                 IN [dist |-> sum.dist + item.dist,
                     non |-> sum.non + (IF item.walk THEN 0 ELSE 1),
                     walk |-> sum.walk + (IF item.walk THEN item.dist ELSE 0)]
    IN at[Len(s)]

Judge(d, s) == LET sum == Sums(d, s) IN SPath(d, s, sum.dist, sum.non, sum.walk)

\* The orders that DFS::PushPath takes.
Good(d) == {s \in Orders : Possible(d, s) /\ ~CalClash(d, s).fail}
AllPaths(d) == {Judge(d, s) : s \in Good(d)}

\* A timetable for an order: a window for every place, a meal no more than
\* once, that can be kept.
Timetables(d, s) ==
    {w \in [2..(Len(s) - 1) -> UNION {DOMAIN d.win[i] : i \in Place}] :
        /\ \A k \in DOMAIN w : w[k] \in Windows(d, s[k], BlockNeed(d))
        /\ \A k, l \in DOMAIN w :
              k # l /\ IsRest(Types(d)[s[k]]) /\ IsRest(Types(d)[s[l]]) => w[k] # w[l]}

\* The hours of a day are in order: every view lists its windows by their time,
\* a restaurant has a duration and one window per meal, and every lunch is over
\* before any supper begins (BasePlan::m_lunchTime, m_supperTime).
InOrder(d) ==
    LET rests == {i \in Place : IsRest(d.type[i])} IN
    /\ \A i \in Place : d.zip[i] >= -1
    /\ \A i \in Place \ rests : \A j, k \in DOMAIN d.win[i] :
          j <= k => d.win[i][j].open <= d.win[i][k].open
    /\ \A i \in rests : d.zip[i] >= 0 /\ Len(d.win[i]) = 2
    /\ \A i, k \in rests :
          d.win[i][1] # NULL /\ d.win[k][2] # NULL => d.win[i][1].close < d.win[k][2].open

Keeps(d, s, w) ==
    LET Later(a, b) == IF a > b THEN a ELSE b
        leave[k \in 1..(Len(s) - 1)] ==
            IF k = 1 THEN d.start
            ELSE Later(d.win[s[k]][w[k]].open, leave[k - 1] + Item(d, s[k - 1], s[k]).time) + d.zip[s[k]]
    IN /\ \A k \in DOMAIN w : leave[k] <= d.win[s[k]][w[k]].close /\ leave[k] <= d.stop
       /\ leave[Len(s) - 1] + Item(d, s[Len(s) - 1], s[Len(s)]).time <= d.stop

-----------------------------------------------------------------------------

DFSTypeOK ==
    /\ day \in Day /\ path \in Seq(Node) /\ need \in SUBSET Meals
    /\ totDist \in Nat /\ nonWalk \in Nat /\ walkDist \in Nat
    /\ frames \in Seq([idx : 1..End, need : SUBSET Meals])
    /\ sCnt \in Nat /\ late \in BOOLEAN
    /\ dfsPc \in {"search", "loop", "return", "done"}

\* Whatever has been tried and undone, the running totals, the meals left
\* and the loops are those of the current path.
Consistent ==
    /\ [dist |-> totDist, non |-> nonWalk, walk |-> walkDist] = Sums(day, path)
    /\ need = {Menu(day)[n] : n \in Cardinality(Rests(day, path, Len(path))) + 1..Len(Menu(day))}
    /\ Len(frames) = Len(path) - (IF dfsPc = "loop" THEN 0 ELSE 1)

\* Pruning loses nothing: a search that was not cut short by the clock (which
\* leaves m_sCnt above its limit) returns the topK best of all possible
\* orders.
Optimal == dfsPc = "done" /\ sCnt <= CheckEvery => heap.q = Best(AllPaths(day), day.topK)

\* A search that is cut short still returns possible orders, with the score
\* and the clash they would have anyway.
Sound == dfsPc = "done" => heap.q \subseteq AllPaths(day)

\* CalClash takes the first window that fits and never reconsiders; on a day
\* with its hours in order it still reports a clash only for an order that has
\* no timetable at all, and misses none.
ClashExact ==
    dfsPc = "search" /\ path = <<0>> /\ InOrder(day) =>
        \A s \in Good(day) :
            CalClash(day, s).clash = 0 <=> \E w \in Timetables(day, s) : Keeps(day, s, w)

\* How far the search is: the loop variables from the outermost loop on,
\* each with what the loop is doing, as the digits of a number.
Digit(k) ==
    LET phase == CASE dfsPc = "loop" -> 0 [] dfsPc = "search" -> 1 [] dfsPc = "return" -> 2 [] dfsPc = "done" -> 3
        n == Len(frames)
        idx == IF k = 0 THEN 0 ELSE frames[k].idx
    IN IF k > n THEN 0 ELSE 4 * idx + (IF k = n THEN phase ELSE 1)

Number(digits) ==
    LET value[k \in 0..(Mid + 1)] ==
            IF k = 0 THEN digits[0] ELSE value[k - 1] * (4 * (End + 1)) + digits[k]
    IN value[Mid + 1]

Position == Number([k \in 0..(Mid + 1) |-> Digit(k)])

\* The search ends: every step takes it strictly further in a finite order,
\* whatever is skipped, pruned or undone.
Advances == [][Position' > Position]_dfsVars

=============================================================================
