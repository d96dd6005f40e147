-------------------------- MODULE HttpClientProofs --------------------------
(***************************************************************************)
(* doHttpRequest for any number of sessions and any sizes of requests,     *)
(* answers and buffers and whatever the servers do: the sessions are       *)
(* counted rightly, no edge of epoll is lost, and a result above 0 is all  *)
(* that the server sent before it closed the connection.                   *)
(***************************************************************************)
EXTENDS HttpClient, FiniteSetTheorems, TLAPS

TypeOK ==
    /\ timed \in BOOLEAN /\ server \in [Session -> {"answer", "hang", "break"}]
    /\ pc \in {"create", "failed", "open", "wait", "event", "write", "read", "done"}
    /\ i \in 1..N + 1 /\ rest \in Int
    /\ mask \in [Session -> SUBSET {"in", "out", "err"}]
    /\ socket \in [Session -> {"none", "open", "closed"}]
    /\ sendCnt \in [Session -> Nat] /\ got \in [Session -> Nat] /\ result \in [Session -> Int]
    /\ link \in [Session -> {"none", "connecting", "up", "refused", "reset"}]
    /\ sending \in [Session -> Nat] /\ asked \in [Session -> Nat]
    /\ answered \in [Session -> Nat] /\ unread \in [Session -> Nat]
    /\ fin \in [Session -> BOOLEAN] /\ full \in [Session -> BOOLEAN]
    /\ interest \in [Session -> SUBSET {"in", "out"}] /\ edge \subseteq Session

\* The session whose socket the thread is reading or writing.
Current(s) == pc \in {"read", "write"} /\ s = i

AllSent(s) == asked[s] + sending[s] = Parts
Wanted(s) == IF "out" \in interest[s] THEN "out" ELSE "in"

\* There is, or has been, something to read.
Heard(s) == answered[s] > 0 \/ fin[s] \/ Broken(s)

\* Before a session is opened.
Early == pc \in {"create", "failed", "open"}

\* Where the thread is: only the loop over the events has events to handle,
\* and the session it handles is unfinished.  It writes only while epoll
\* watches for room.
Phases ==
    /\ Early => \A s \in Session : s >= i => socket[s] = "none" /\ result[s] = Unfinished
    /\ pc \in {"create", "failed"} => i = 1
    /\ Early \/ pc \in {"wait", "done"} => \A s \in Session : mask[s] = {}
    /\ pc \in {"read", "write"} => i \in Session /\ socket[i] = "open" /\ mask[i] = {}
    /\ pc = "write" => "out" \in interest[i]
    /\ pc = "read" => Heard(i)

\* What the kernel and the server know of a session agrees with what the
\* thread has done for it.
Transfer(s) ==
    /\ socket[s] = "open" <=> link[s] # "none"
    /\ (socket[s] = "none" \/ link[s] = "connecting") =>
        /\ asked[s] = 0 /\ sending[s] = 0 /\ answered[s] = 0 /\ unread[s] = 0
        /\ ~fin[s] /\ sendCnt[s] = 0 /\ got[s] = 0
    /\ asked[s] + sending[s] <= Parts /\ sending[s] <= Room
    /\ answered[s] <= Pieces /\ got[s] + unread[s] = answered[s]
    /\ server[s] = "answer" => /\ answered[s] > 0 => asked[s] = Parts
                               /\ fin[s] => answered[s] = Pieces
    /\ (socket[s] = "open" /\ ~AllSent(s)) => sendCnt[s] = asked[s] + sending[s]

\* The results that closeSession and ALL_OVER leave.
Outcome(s) ==
    /\ Broken(s) \/ "err" \in mask[s] => server[s] = "break"
    /\ result[s] > 0 => result[s] = answered[s] /\ fin[s]
    /\ result[s] > 0 /\ server[s] = "answer" => result[s] = Pieces /\ asked[s] = Parts
    /\ (~timed /\ server[s] = "answer") =>
            result[s] \in {Unfinished, Pieces, NoSocket, BadAddress}

\* What epoll watches an open socket for and what it has reported of it.
\* Only an answer makes the thread drop EPOLLOUT before everything is sent.  A
\* socket that is neither on the ready list nor reported nor in the thread's
\* hands is not ready for what its session wants; and epoll will hear of the
\* room in a full buffer, because a write has failed on it.
Watched(s) ==
    IF socket[s] = "open"
    THEN /\ interest[s] \in {{"in"}, {"in", "out"}}
         /\ AllSent(s) => interest[s] = {"in"}
         /\ ~AllSent(s) /\ interest[s] = {"in"} => answered[s] > 0
         /\ "out" \in mask[s] => interest[s] = {"in", "out"}
         /\ "in" \in mask[s] => Heard(s)
         /\ (link[s] = "up" /\ sending[s] = Room /\ "out" \in interest[s] /\ ~Current(s)) =>
                full[s]
         /\ (s \notin edge /\ mask[s] = {} /\ ~Current(s)) => Wanted(s) \notin Ready(s)
    ELSE s \notin edge /\ mask[s] = {}

SessionInv(s) == Transfer(s) /\ Outcome(s) /\ Watched(s)

ClientInv == TypeOK /\ Phases /\ Accounted /\ \A s \in Session : SessionInv(s)

-----------------------------------------------------------------------------

\* A step that does not touch a session keeps what holds of it.
LEMMA Untouched ==
    ASSUME NEW s \in Session, SessionInv(s), timed' = timed,
           /\ server'[s] = server[s] /\ mask'[s] = mask[s] /\ socket'[s] = socket[s]
           /\ sendCnt'[s] = sendCnt[s] /\ got'[s] = got[s] /\ result'[s] = result[s]
           /\ link'[s] = link[s] /\ sending'[s] = sending[s] /\ asked'[s] = asked[s]
           /\ answered'[s] = answered[s] /\ unread'[s] = unread[s] /\ fin'[s] = fin[s]
           /\ full'[s] = full[s] /\ interest'[s] = interest[s],
           s \in edge' <=> s \in edge, Current(s)' <=> Current(s)
    PROVE  SessionInv(s)'
  <1>1. /\ AllSent(s)' <=> AllSent(s)
        /\ Wanted(s)' = Wanted(s) /\ Ready(s)' = Ready(s) /\ (Broken(s)' <=> Broken(s))
        /\ Heard(s)' <=> Heard(s)
    BY DEF AllSent, Wanted, Ready, Broken, Heard
  <1>2. Transfer(s)'
    BY <1>1 DEF SessionInv, Transfer
  <1>3. Outcome(s)'
    BY <1>1 DEF SessionInv, Outcome
  <1>4. Watched(s)'
    BY <1>1 DEF SessionInv, Watched
  <1> QED
    BY <1>2, <1>3, <1>4 DEF SessionInv

-----------------------------------------------------------------------------
(* The kernel and the server. *)

\* They leave the thread alone.
LEMMA NetKeeps ==
    ASSUME ClientInv, NEW x \in Session, netFrame,
           link' \in [Session -> {"none", "connecting", "up", "refused", "reset"}],
           /\ sending' \in [Session -> Nat] /\ asked' \in [Session -> Nat]
           /\ answered' \in [Session -> Nat] /\ unread' \in [Session -> Nat]
           /\ fin' \in [Session -> BOOLEAN] /\ full' \in [Session -> BOOLEAN],
           asked'[x] + sending'[x] = asked[x] + sending[x], Heard(x) => Heard(x)',
           edge' = edge \/ edge' = edge \union {x},
           \A s \in Session \ {x} :
               /\ link'[s] = link[s] /\ sending'[s] = sending[s] /\ asked'[s] = asked[s]
               /\ answered'[s] = answered[s] /\ unread'[s] = unread[s] /\ fin'[s] = fin[s]
               /\ full'[s] = full[s],
           SessionInv(x)'
    PROVE  ClientInv'
  <1>1. TypeOK'
    BY DEF ClientInv, TypeOK, netFrame, clientVars
  <1>2. \A s \in Session : Heard(s) => Heard(s)'
    BY DEF Heard, Broken
  <1>3. Phases'
    BY <1>2 DEF ClientInv, Phases, Early, netFrame, clientVars
  <1>4. Accounted'
    BY DEF ClientInv, Accounted, netFrame, clientVars
  <1>5. ASSUME NEW s \in Session, s # x
        PROVE  SessionInv(s)'
    <2>1. Current(s)' <=> Current(s)
      BY DEF Current, netFrame, clientVars
    <2> QED
      BY <1>5, <2>1, Untouched DEF ClientInv, netFrame, clientVars
  <1> QED
    BY <1>1, <1>3, <1>4, <1>5 DEF ClientInv

LEMMA ConnectedKeeps ==
    ASSUME ClientInv, NEW x \in Session, Connected(x)
    PROVE  ClientInv'
  <1> USE ClientAssumption
  <1>1. /\ SessionInv(x) /\ TypeOK /\ link[x] = "connecting" /\ link'[x] \in {"up", "refused"}
        /\ link'[x] = "refused" => server[x] = "break"
    BY DEF ClientInv, Connected, TypeOK
  <1>2. /\ socket[x] = "open" /\ asked[x] = 0 /\ sending[x] = 0 /\ unread[x] = 0 /\ ~fin[x]
        /\ answered[x] = 0 /\ got[x] = 0 /\ sendCnt[x] = 0 /\ ~AllSent(x)
    BY <1>1 DEF SessionInv, Transfer, AllSent
  <1>3. /\ UNCHANGED <<sending, asked, answered, unread, fin, full>> /\ netFrame
        /\ timed' = timed /\ server' = server /\ mask' = mask /\ socket' = socket
        /\ sendCnt' = sendCnt /\ got' = got /\ result' = result /\ interest' = interest
        /\ pc' = pc /\ i' = i
    BY DEF Connected, netFrame, clientVars
  <1>4. /\ ~AllSent(x)' /\ (Broken(x)' <=> link'[x] = "refused") /\ ~Broken(x)
        /\ (Current(x)' <=> Current(x)) /\ ~Heard(x)
    BY <1>1, <1>2, <1>3 DEF AllSent, Broken, Current, Heard
  <1>9. interest[x] = {"in", "out"} /\ "in" \notin mask[x]
    BY <1>1, <1>2, <1>4 DEF SessionInv, Watched
  <1>5. x \in edge'
    BY <1>9 DEF Connected, Wake
  <1>6. Transfer(x)'
    BY <1>1, <1>2, <1>3, <1>4 DEF SessionInv, Transfer
  <1>7. Outcome(x)'
    BY <1>1, <1>3, <1>4 DEF SessionInv, Outcome
  <1>8. Watched(x)'
    BY <1>1, <1>2, <1>3, <1>4, <1>5, <1>9 DEF SessionInv, Watched
  <1> QED
    BY <1>1, <1>3, <1>4, <1>6, <1>7, <1>8, NetKeeps DEF Connected, Wake, SessionInv, TypeOK

LEMMA TakeKeeps ==
    ASSUME ClientInv, NEW x \in Session, Take(x)
    PROVE  ClientInv'
  <1> USE ClientAssumption
  <1>1. /\ SessionInv(x) /\ TypeOK /\ link[x] = "up" /\ sending[x] > 0
        /\ sending'[x] = sending[x] - 1 /\ asked'[x] = asked[x] + 1 /\ ~full'[x]
        /\ sending[x] \in Nat /\ asked[x] \in Nat /\ answered[x] \in Nat
    BY DEF ClientInv, Take, TypeOK
  <1>2. /\ UNCHANGED <<link, answered, unread, fin>> /\ netFrame
        /\ timed' = timed /\ server' = server /\ mask' = mask /\ socket' = socket
        /\ sendCnt' = sendCnt /\ got' = got /\ result' = result /\ interest' = interest
        /\ pc' = pc /\ i' = i
    BY DEF Take, netFrame, clientVars
  <1>3. /\ AllSent(x)' <=> AllSent(x)
        /\ Broken(x)' <=> Broken(x)
        /\ Current(x)' <=> Current(x)
        /\ Heard(x)' <=> Heard(x)
        /\ asked'[x] + sending'[x] = asked[x] + sending[x]
        /\ socket[x] = "open" /\ ~Broken(x)
    BY <1>1, <1>2 DEF AllSent, Broken, Current, Heard, SessionInv, Transfer
  <1>4. Transfer(x)'
    BY <1>1, <1>2, <1>3 DEF SessionInv, Transfer
  <1>5. Outcome(x)'
    <2>1. result[x] > 0 /\ server[x] = "answer" => asked'[x] = Parts
      BY <1>1 DEF SessionInv, Outcome, Transfer
    <2> QED
      BY <1>1, <1>2, <1>3, <2>1 DEF SessionInv, Outcome
  <1>6. Watched(x)'
    <2>1. /\ Wanted(x)' = Wanted(x)
          /\ "in" \in Ready(x)' <=> "in" \in Ready(x)
      BY <1>2, <1>3 DEF Wanted, Ready
    <2>2. "out" \in interest[x] /\ ~Current(x) /\ "out" \notin Ready(x) => full[x]
      BY <1>1, <1>3 DEF Ready, SessionInv, Watched, Transfer, TypeOK
    <2>3. "out" \in interest[x] /\ full[x] => x \in edge'
      BY <1>1, <1>3 DEF Take, Wake, SessionInv, Watched
    <2>4. edge \subseteq edge'
      BY DEF Take, Wake
    <2>5. (x \notin edge' /\ mask[x] = {} /\ ~Current(x)) => Wanted(x)' \notin Ready(x)'
      <3>1. CASE "out" \notin interest[x]
        BY <1>1, <1>3, <2>1, <2>4, <3>1 DEF SessionInv, Watched, Wanted
      <3>2. CASE "out" \in interest[x]
        <4>1. "out" \notin Ready(x) /\ x \notin edge' => Current(x)
          BY <2>2, <2>3, <3>2
        <4>2. Wanted(x) = "out"
          BY <3>2 DEF Wanted
        <4>3. (x \notin edge /\ mask[x] = {} /\ ~Current(x)) => "out" \notin Ready(x)
          BY <1>1, <1>3, <4>2 DEF SessionInv, Watched
        <4> QED
          BY <2>4, <4>1, <4>3
      <3> QED
        BY <3>1, <3>2
    <2>6. sending'[x] # Room
      BY <1>1 DEF SessionInv, Transfer
    <2> QED
      BY <1>1, <1>2, <1>3, <2>5, <2>6 DEF SessionInv, Watched
  <1>7. SessionInv(x)'
    BY <1>4, <1>5, <1>6 DEF SessionInv
  <1>8. /\ sending' \in [Session -> Nat] /\ asked' \in [Session -> Nat] /\ full' \in [Session -> BOOLEAN]
        /\ \A s \in Session \ {x} :
               sending'[s] = sending[s] /\ asked'[s] = asked[s] /\ full'[s] = full[s]
    BY <1>1 DEF Take, TypeOK
  <1>9. edge' = edge \/ edge' = edge \union {x}
    BY DEF Take, Wake
  <1> QED
    BY <1>1, <1>2, <1>3, <1>7, <1>8, <1>9, NetKeeps DEF TypeOK

LEMMA AnswerKeeps ==
    ASSUME ClientInv, NEW x \in Session, Answer(x)
    PROVE  ClientInv'
  <1> USE ClientAssumption
  <1>1. /\ SessionInv(x) /\ TypeOK /\ link[x] = "up" /\ answered[x] < Pieces /\ ~fin[x]
        /\ server[x] = "answer" => asked[x] >= Parts
        /\ answered'[x] = answered[x] + 1 /\ unread'[x] = unread[x] + 1
        /\ answered[x] \in Nat /\ unread[x] \in Nat /\ asked[x] \in Nat /\ sending[x] \in Nat
        /\ got[x] \in Nat
    BY DEF ClientInv, Answer, TypeOK
  <1>2. /\ UNCHANGED <<link, sending, asked, fin, full>> /\ netFrame
        /\ timed' = timed /\ server' = server /\ mask' = mask /\ socket' = socket
        /\ sendCnt' = sendCnt /\ got' = got /\ result' = result /\ interest' = interest
        /\ pc' = pc /\ i' = i
    BY DEF Answer, netFrame, clientVars
  <1>3. /\ (AllSent(x)' <=> AllSent(x)) /\ (Broken(x)' <=> Broken(x)) /\ (Current(x)' <=> Current(x))
        /\ socket[x] = "open" /\ Heard(x)' /\ (server[x] = "answer" => asked[x] = Parts)
    BY <1>1, <1>2 DEF AllSent, Broken, Current, Heard, SessionInv, Transfer
  <1>10. result[x] = Unfinished
    BY <1>3 DEF ClientInv, Accounted
  <1>4. Transfer(x)'
    BY <1>1, <1>2, <1>3 DEF SessionInv, Transfer
  <1>5. Outcome(x)'
    BY <1>1, <1>2, <1>3, <1>10 DEF SessionInv, Outcome, Unfinished
  <1>6. Watched(x)'
    <2>1. x \in edge'
      BY <1>1, <1>3 DEF Answer, Wake, SessionInv, Watched
    <2> QED
      BY <1>1, <1>2, <1>3, <2>1 DEF SessionInv, Watched
  <1>7. SessionInv(x)'
    BY <1>4, <1>5, <1>6 DEF SessionInv
  <1>8. /\ answered' \in [Session -> Nat] /\ unread' \in [Session -> Nat]
        /\ \A s \in Session \ {x} : answered'[s] = answered[s] /\ unread'[s] = unread[s]
    BY <1>1 DEF Answer, TypeOK
  <1>9. edge' = edge \/ edge' = edge \union {x}
    BY DEF Answer, Wake
  <1> QED
    BY <1>1, <1>2, <1>3, <1>7, <1>8, <1>9, NetKeeps DEF TypeOK

LEMMA CloseKeeps ==
    ASSUME ClientInv, NEW x \in Session, Close(x)
    PROVE  ClientInv'
  <1> USE ClientAssumption
  <1>1. /\ SessionInv(x) /\ TypeOK /\ link[x] = "up" /\ fin'[x]
        /\ server[x] = "answer" => answered[x] = Pieces
    BY DEF ClientInv, Close, TypeOK
  <1>2. /\ UNCHANGED <<link, sending, asked, answered, unread, full>> /\ netFrame
        /\ timed' = timed /\ server' = server /\ mask' = mask /\ socket' = socket
        /\ sendCnt' = sendCnt /\ got' = got /\ result' = result /\ interest' = interest
        /\ pc' = pc /\ i' = i
    BY DEF Close, netFrame, clientVars
  <1>3. /\ (AllSent(x)' <=> AllSent(x)) /\ (Broken(x)' <=> Broken(x)) /\ (Current(x)' <=> Current(x))
        /\ socket[x] = "open" /\ ~Broken(x) /\ Heard(x)'
    BY <1>1, <1>2 DEF AllSent, Broken, Current, Heard, SessionInv, Transfer
  <1>4. Transfer(x)'
    BY <1>1, <1>2, <1>3 DEF SessionInv, Transfer, TypeOK
  <1>5. Outcome(x)'
    BY <1>1, <1>2, <1>3 DEF SessionInv, Outcome
  <1>6. Watched(x)'
    <2>1. x \in edge'
      BY <1>1, <1>3 DEF Close, Wake, SessionInv, Watched
    <2> QED
      BY <1>1, <1>2, <1>3, <2>1 DEF SessionInv, Watched
  <1>7. SessionInv(x)'
    BY <1>4, <1>5, <1>6 DEF SessionInv
  <1>8. fin' \in [Session -> BOOLEAN] /\ \A s \in Session \ {x} : fin'[s] = fin[s]
    BY <1>1 DEF Close, TypeOK
  <1>9. edge' = edge \/ edge' = edge \union {x}
    BY DEF Close, Wake
  <1> QED
    BY <1>1, <1>2, <1>3, <1>7, <1>8, <1>9, NetKeeps DEF TypeOK

LEMMA ResetKeeps ==
    ASSUME ClientInv, NEW x \in Session, Reset(x)
    PROVE  ClientInv'
  <1> USE ClientAssumption
  <1>1. /\ SessionInv(x) /\ TypeOK /\ link[x] = "up" /\ server[x] = "break"
        /\ link'[x] = "reset"
    BY DEF ClientInv, Reset, TypeOK
  <1>2. /\ UNCHANGED <<sending, asked, answered, unread, fin, full>> /\ netFrame
        /\ timed' = timed /\ server' = server /\ mask' = mask /\ socket' = socket
        /\ sendCnt' = sendCnt /\ got' = got /\ result' = result /\ interest' = interest
        /\ pc' = pc /\ i' = i
    BY DEF Reset, netFrame, clientVars
  <1>3. /\ (AllSent(x)' <=> AllSent(x)) /\ (Current(x)' <=> Current(x)) /\ socket[x] = "open"
        /\ Heard(x)'
    BY <1>1, <1>2 DEF AllSent, Current, Heard, Broken, SessionInv, Transfer
  <1>4. Transfer(x)'
    BY <1>1, <1>2, <1>3 DEF SessionInv, Transfer, TypeOK
  <1>5. Outcome(x)'
    BY <1>1, <1>2, <1>3 DEF SessionInv, Outcome
  <1>6. Watched(x)'
    <2>1. x \in edge'
      BY <1>1, <1>3 DEF Reset, Wake, SessionInv, Watched
    <2> QED
      BY <1>1, <1>2, <1>3, <2>1 DEF SessionInv, Watched
  <1>7. SessionInv(x)'
    BY <1>4, <1>5, <1>6 DEF SessionInv
  <1>8. /\ link' \in [Session -> {"none", "connecting", "up", "refused", "reset"}]
        /\ \A s \in Session \ {x} : link'[s] = link[s]
    BY <1>1 DEF Reset, TypeOK
  <1>9. edge' = edge \/ edge' = edge \union {x}
    BY DEF Reset, Wake
  <1> QED
    BY <1>1, <1>2, <1>3, <1>7, <1>8, <1>9, NetKeeps DEF TypeOK

-----------------------------------------------------------------------------
(* The thread. *)

LEMMA OneLess ==
    ASSUME NEW S \in SUBSET Session
    PROVE  /\ Cardinality(S) \in Nat /\ (Cardinality(S) = 0 <=> S = {})
           /\ \A x \in S : Cardinality(S \ {x}) = Cardinality(S) - 1
  <1>1. IsFiniteSet(Session)
    BY ClientAssumption, FS_Interval DEF Session
  <1>2. IsFiniteSet(S)
    BY <1>1, FS_Subset
  <1> QED
    BY <1>2, FS_CardinalityType, FS_EmptySet, FS_RemoveElement

\* closeSession takes the session out of the count and its socket out of epoll.
LEMMA CloseFacts ==
    ASSUME ClientInv, NEW x \in Session, result[x] = Unfinished,
           NEW stat \in {Unfinished, Failed, NoSocket, BadAddress}, closeSession(x, stat)
    PROVE  /\ socket' \in [Session -> {"none", "open", "closed"}] /\ result' \in [Session -> Int]
           /\ link' \in [Session -> {"none", "connecting", "up", "refused", "reset"}]
           /\ interest' \in [Session -> SUBSET {"in", "out"}] /\ edge' \subseteq Session
           /\ rest' \in Int
           /\ result'[x] = IF stat = Unfinished THEN got[x] ELSE stat
           /\ result'[x] # Unfinished
           /\ socket'[x] = (IF socket[x] = "none" THEN "none" ELSE "closed")
           /\ link'[x] = "none" /\ x \notin edge'
           /\ \A s \in Session \ {x} :
                /\ socket'[s] = socket[s] /\ result'[s] = result[s]
                /\ link'[s] = link[s] /\ interest'[s] = interest[s]
                /\ s \in edge' <=> s \in edge
           /\ rest' = Cardinality({s \in Session : result'[s] = Unfinished})
  <1> USE DEF Unfinished, Failed, NoSocket, BadAddress
  <1>1. /\ socket' \in [Session -> {"none", "open", "closed"}] /\ result' \in [Session -> Int]
        /\ result'[x] = IF stat = Unfinished THEN got[x] ELSE stat
        /\ result'[x] # Unfinished
        /\ socket'[x] = (IF socket[x] = "none" THEN "none" ELSE "closed")
        /\ \A s \in Session \ {x} : socket'[s] = socket[s] /\ result'[s] = result[s]
    BY DEF closeSession, ClientInv, TypeOK
  <1>2. /\ link' \in [Session -> {"none", "connecting", "up", "refused", "reset"}]
        /\ interest' \in [Session -> SUBSET {"in", "out"}] /\ edge' \subseteq Session
        /\ link'[x] = "none" /\ x \notin edge'
        /\ \A s \in Session \ {x} :
             link'[s] = link[s] /\ interest'[s] = interest[s] /\ (s \in edge' <=> s \in edge)
    BY DEF closeSession, CloseLinks, ClientInv, TypeOK
  <1> DEFINE S == {s \in Session : result[s] = Unfinished}
             T == {s \in Session : result'[s] = Unfinished}
  <1>3. T = S \ {x} /\ x \in S /\ S \subseteq Session
    BY <1>1
  <1>4. rest = Cardinality(S) /\ rest' = rest - 1
    BY DEF closeSession, ClientInv, Accounted
  <1> HIDE DEF S, T
  <1>5. rest' = Cardinality(T) /\ rest' \in Int
    BY <1>3, <1>4, OneLess
  <1> QED
    BY <1>1, <1>2, <1>5 DEF T

\* All that the server has sent has been read, and it has closed.
Complete(x) ==
    /\ got[x] = answered[x] /\ fin[x]
    /\ server[x] = "answer" => got[x] = Pieces /\ asked[x] = Parts

\* What closeSession leaves of a session satisfies the invariant of sessions.
LEMMA ClosedKeeps ==
    ASSUME ClientInv, NEW x \in Session, result[x] = Unfinished,
           NEW stat \in {Unfinished, Failed, NoSocket, BadAddress}, closeSession(x, stat),
           UNCHANGED <<timed, server, sendCnt, got, sending, asked, answered, unread, fin, full>>,
           mask'[x] = {}, \A s \in Session \ {x} : mask'[s] = mask[s],
           \A s \in Session \ {x} : Current(s)' <=> Current(s),
           stat = Unfinished => Complete(x),
           stat = Failed => server[x] = "break"
    PROVE  \A s \in Session : SessionInv(s)'
  <1>0. SessionInv(x) /\ TypeOK
    BY DEF ClientInv
  <1>1. ASSUME NEW s \in Session, s # x
        PROVE  SessionInv(s)'
    <2>1. SessionInv(s)
      BY DEF ClientInv
    <2> QED
      BY <1>1, <2>1, CloseFacts, Untouched
  <1>2. /\ result'[x] = IF stat = Unfinished THEN got[x] ELSE stat
        /\ socket'[x] = (IF socket[x] = "none" THEN "none" ELSE "closed")
        /\ link'[x] = "none" /\ x \notin edge'
    BY CloseFacts
  <1>3. Transfer(x)'
    BY <1>0, <1>2 DEF SessionInv, Transfer, AllSent
  <1>4. Outcome(x)'
    BY <1>0, <1>2 DEF SessionInv, Outcome, Complete, Broken, Failed, NoSocket, BadAddress, Unfinished
  <1>5. Watched(x)'
    BY <1>2 DEF Watched
  <1> QED
    BY <1>1, <1>3, <1>4, <1>5 DEF SessionInv

LEMMA OpenKeeps ==
    ASSUME ClientInv, Open, NEW x, x = i
    PROVE  ClientInv'
  <1> USE ClientAssumption
  <1>a. TypeOK /\ pc = "open" /\ i <= N /\ i \in 1..N + 1
    BY DEF ClientInv, TypeOK, Open
  <1>0. TypeOK /\ pc = "open" /\ i <= N /\ i \in Nat /\ x \in Session
    BY <1>a DEF Session
  <1>1. /\ socket[x] = "none" /\ result[x] = Unfinished /\ mask[x] = {}
        /\ SessionInv(x) /\ pc' = "open" /\ i' = x + 1
        /\ UNCHANGED <<timed, server, rest, mask, sendCnt, got, result,
                       sending, asked, answered, unread, fin, full, edge>>
    BY <1>0 DEF ClientInv, Phases, Early, Open
  <1>2. /\ socket' \in [Session -> {"none", "open", "closed"}]
        /\ link' \in [Session -> {"none", "connecting", "up", "refused", "reset"}]
        /\ interest' \in [Session -> SUBSET {"in", "out"}]
        /\ socket'[x] = "open" /\ link'[x] = "connecting" /\ interest'[x] = {"in", "out"}
        /\ \A s \in Session \ {x} :
             socket'[s] = socket[s] /\ link'[s] = link[s] /\ interest'[s] = interest[s]
    BY <1>0 DEF Open, TypeOK
  <1>3. TypeOK'
    <2>1. i' \in 1..N + 1
      BY <1>0, <1>1
    <2> QED
      BY <1>0, <1>1, <1>2, <2>1 DEF TypeOK
  <1>4. Phases'
    <2>1. \A s \in Session : s >= i' => s # x /\ s >= i
      BY <1>0, <1>1 DEF Session
    <2> QED
      BY <1>0, <1>1, <1>2, <2>1 DEF ClientInv, Phases, Early
  <1>5. Accounted'
    <2>1. \A s \in Session : s >= i' <=> s # x /\ s >= i
      BY <1>0, <1>1 DEF Session
    <2>2. {s \in Session : socket'[s] = "open"} = {s \in Session : socket[s] = "open"} \union {x}
      BY <1>0, <1>2
    <2> QED
      BY <1>0, <1>1, <2>1, <2>2 DEF ClientInv, Accounted
  <1>6. ASSUME NEW s \in Session, s # x
        PROVE  SessionInv(s)'
    <2>1. SessionInv(s) /\ (Current(s)' <=> Current(s))
      BY <1>0, <1>1 DEF ClientInv, Current
    <2> QED
      BY <1>1, <1>2, <1>6, <2>1, Untouched
  <1>7. SessionInv(x)'
    <2>1. /\ asked[x] = 0 /\ sending[x] = 0 /\ answered[x] = 0 /\ unread[x] = 0
          /\ ~fin[x] /\ sendCnt[x] = 0 /\ got[x] = 0
      BY <1>1 DEF SessionInv, Transfer
    <2>2. ~AllSent(x)' /\ ~Broken(x)' /\ "out" \notin Ready(x)'
      BY <1>1, <1>2, <2>1 DEF AllSent, Broken, Ready
    <2>3. Transfer(x)'
      BY <1>1, <1>2, <2>1, <2>2 DEF Transfer
    <2>4. Outcome(x)'
      BY <1>1, <2>2 DEF SessionInv, Outcome
    <2>5. Watched(x)'
      BY <1>1, <1>2, <2>1, <2>2 DEF Watched, Wanted
    <2> QED
      BY <2>3, <2>4, <2>5 DEF SessionInv
  <1> QED
    BY <1>3, <1>4, <1>5, <1>6, <1>7 DEF ClientInv

LEMMA OpenFailsKeeps ==
    ASSUME ClientInv, OpenFails, NEW x, x = i
    PROVE  ClientInv'
  <1> USE ClientAssumption
  <1>1. TypeOK /\ pc = "open" /\ i <= N /\ i \in 1..N + 1
    BY DEF ClientInv, TypeOK, OpenFails
  <1>2. i \in Nat /\ x \in Session
    BY <1>1 DEF Session
  <1>3. /\ socket[x] = "none" /\ result[x] = Unfinished /\ mask[x] = {}
        /\ pc' = "open" /\ i' = x + 1
        /\ UNCHANGED <<timed, server, mask, sendCnt, got, sending, asked, answered, unread, fin, full>>
    BY <1>1, <1>2 DEF ClientInv, Phases, Early, OpenFails
  <1>4. PICK stat \in {NoSocket, BadAddress} : closeSession(x, stat)
    BY DEF OpenFails
  <1>5. /\ socket' \in [Session -> {"none", "open", "closed"}] /\ result' \in [Session -> Int]
        /\ link' \in [Session -> {"none", "connecting", "up", "refused", "reset"}]
        /\ interest' \in [Session -> SUBSET {"in", "out"}] /\ edge' \subseteq Session
        /\ rest' \in Int /\ result'[x] # Unfinished /\ socket'[x] = "none"
        /\ \A s \in Session \ {x} : socket'[s] = socket[s] /\ result'[s] = result[s]
        /\ rest' = Cardinality({s \in Session : result'[s] = Unfinished})
    BY <1>2, <1>3, <1>4, CloseFacts
  <1>6. TypeOK'
    <2>1. i' \in 1..N + 1
      BY <1>1, <1>2, <1>3
    <2> QED
      BY <1>1, <1>3, <1>5, <2>1 DEF TypeOK
  <1>7. \A s \in Session : s >= i' <=> s # x /\ s >= i
    BY <1>2, <1>3 DEF Session
  <1>8. Phases'
    BY <1>1, <1>3, <1>5, <1>7 DEF ClientInv, Phases, Early
  <1>9. Accounted'
    <2>1. \A s \in Session : socket'[s] = "open" <=> socket[s] = "open"
      BY <1>3, <1>5
    <2>2. \A s \in Session : socket[s] = "open" <=> result[s] = Unfinished /\ ~(s >= i)
      BY <1>1 DEF ClientInv, Accounted
    <2>3. \A s \in Session : socket'[s] = "open" <=> result'[s] = Unfinished /\ ~(s >= i')
      BY <1>2, <1>3, <1>5, <1>7, <2>1, <2>2
    <2> QED
      BY <1>3, <1>5, <2>3 DEF Accounted
  <1>10. /\ stat \in {Unfinished, Failed, NoSocket, BadAddress}
         /\ stat # Unfinished /\ stat # Failed
    BY DEF Unfinished, Failed, NoSocket, BadAddress
  <1>11. \A s \in Session \ {x} : Current(s)' <=> Current(s)
    BY <1>1, <1>3 DEF Current
  <1>12. \A s \in Session : SessionInv(s)'
    BY <1>2, <1>3, <1>4, <1>10, <1>11, ClosedKeeps
  <1> QED
    BY <1>6, <1>8, <1>9, <1>12 DEF ClientInv

\* A session that the loop over the events closes.
LEMMA ClosedInLoop ==
    ASSUME ClientInv, NEW x \in Session, socket[x] = "open",
           NEW stat \in {Unfinished, Failed}, closeSession(x, stat),
           pc \in {"event", "read", "write"}, pc' = "event", i' \in 1..N + 1,
           UNCHANGED <<timed, server, sendCnt, got, sending, asked, answered, unread, fin, full>>,
           mask' \in [Session -> SUBSET {"in", "out", "err"}],
           mask'[x] = {}, \A s \in Session \ {x} : mask'[s] = mask[s],
           \A s \in Session \ {x} : ~Current(s),
           stat = Unfinished => Complete(x),
           stat = Failed => server[x] = "break"
    PROVE  ClientInv'
  <1>1. result[x] = Unfinished
    BY DEF ClientInv, Accounted
  <1>2. /\ socket' \in [Session -> {"none", "open", "closed"}] /\ result' \in [Session -> Int]
        /\ link' \in [Session -> {"none", "connecting", "up", "refused", "reset"}]
        /\ interest' \in [Session -> SUBSET {"in", "out"}] /\ edge' \subseteq Session
        /\ rest' \in Int /\ result'[x] # Unfinished /\ socket'[x] = "closed"
        /\ \A s \in Session \ {x} : socket'[s] = socket[s] /\ result'[s] = result[s]
        /\ rest' = Cardinality({s \in Session : result'[s] = Unfinished})
    BY <1>1, CloseFacts
  <1>3. TypeOK'
    BY <1>2 DEF ClientInv, TypeOK
  <1>4. Phases'
    BY DEF Phases, Early
  <1>5. Accounted'
    <2>1. \A s \in Session : socket[s] = "open" <=> result[s] = Unfinished
      BY DEF ClientInv, Accounted
    <2>2. \A s \in Session : socket'[s] = "open" <=> result'[s] = Unfinished
      BY <1>2, <2>1
    <2> QED
      BY <1>2, <2>2 DEF Accounted
  <1>6. \A s \in Session \ {x} : Current(s)' <=> Current(s)
    BY DEF Current
  <1>7. \A s \in Session : SessionInv(s)'
    BY <1>1, <1>6, ClosedKeeps
  <1> QED
    BY <1>3, <1>4, <1>5, <1>7 DEF ClientInv

LEMMA OpenedKeeps ==
    ASSUME ClientInv, Opened \/ HandledAll
    PROVE  ClientInv'
  <1>1. /\ pc \in {"open", "event"} /\ pc' = "wait" /\ (pc = "open" => i = N + 1)
        /\ \A s \in Session : mask[s] = {}
    BY DEF ClientInv, Phases, Early, Opened, HandledAll
  <1>2. UNCHANGED <<timed, server, i, rest, mask, socket, sendCnt, got, result, link, sending, asked,
                    answered, unread, fin, full, interest, edge>>
    BY DEF Opened, HandledAll, clientFrame, netVars
  <1>3. TypeOK'
    BY <1>1, <1>2 DEF ClientInv, TypeOK
  <1>4. Phases'
    BY <1>1, <1>2 DEF Phases, Early
  <1>5. Accounted'
    <2>1. \A s \in Session : ~(pc = "open" /\ s >= i)
      BY <1>1, ClientAssumption DEF Session
    <2> QED
      BY <1>1, <1>2, <2>1 DEF ClientInv, Accounted
  <1>6. ASSUME NEW s \in Session
        PROVE  SessionInv(s)'
    <2>1. SessionInv(s) /\ (Current(s)' <=> Current(s))
      BY <1>1 DEF ClientInv, Current
    <2> QED
      BY <1>2, <2>1, Untouched
  <1> QED
    BY <1>3, <1>4, <1>5, <1>6 DEF ClientInv

\* epoll_create: nothing has been opened yet.
LEMMA CreateKeeps ==
    ASSUME ClientInv, Create \/ CreateFails
    PROVE  ClientInv'
  <1>1. /\ pc = "create" /\ pc' \in {"open", "failed"} /\ i = 1
        /\ UNCHANGED <<timed, server, i, rest, mask, socket, sendCnt, got, result, link, sending,
                       asked, answered, unread, fin, full, interest, edge>>
    BY DEF ClientInv, Phases, Create, CreateFails, clientFrame, netVars
  <1>2. TypeOK'
    BY <1>1 DEF ClientInv, TypeOK
  <1>3. Phases'
    BY <1>1 DEF ClientInv, Phases, Early
  <1>4. Accounted'
    <2>1. \A s \in Session : s >= i
      BY <1>1 DEF Session
    <2>2. \A s \in Session : result[s] = Unfinished
      BY <1>1, <2>1 DEF ClientInv, Phases, Early
    <2> QED
      BY <1>1, <2>2 DEF ClientInv, Accounted
  <1>5. ASSUME NEW s \in Session
        PROVE  SessionInv(s)'
    <2>1. SessionInv(s) /\ (Current(s)' <=> Current(s))
      BY <1>1 DEF ClientInv, Current
    <2> QED
      BY <1>1, <2>1, Untouched
  <1> QED
    BY <1>2, <1>3, <1>4, <1>5 DEF ClientInv

\* What epoll_wait reports of a socket: nothing that it is not watched for.
LEMMA Reported ==
    ASSUME ClientInv, NEW s \in Session, socket[s] = "open", NEW m \in Reports(s)
    PROVE  /\ m \subseteq {"in", "out", "err"}
           /\ "out" \in m => interest[s] = {"in", "out"}
           /\ "in" \in m => Heard(s)
           /\ "err" \in m => server[s] = "break"
           /\ m = {} => Wanted(s) \notin Ready(s)
  <1>1. TypeOK /\ Transfer(s) /\ Outcome(s) /\ Watched(s)
    BY DEF ClientInv, SessionInv
  <1>2. interest[s] \in {{"in"}, {"in", "out"}}
    BY <1>1 DEF Watched
  <1>3. Ready(s) \subseteq {"in", "out"}
    BY DEF Ready
  <1>4. "err" \in m => Broken(s)
    BY <1>3 DEF Reports
  <1>5. "in" \in Ready(s) => Heard(s)
    BY <1>1 DEF Ready, Heard, Transfer, TypeOK
  <1>7. m \subseteq {"in", "out", "err"}
    BY <1>3 DEF Reports
  <1>8. "out" \in m => interest[s] = {"in", "out"}
    BY <1>2 DEF Reports
  <1>9. "in" \in m => Heard(s)
    BY <1>5 DEF Reports
  <1>10. m = {} => Wanted(s) \notin Ready(s)
    BY <1>2 DEF Reports, Wanted
  <1> QED
    BY <1>1, <1>4, <1>7, <1>8, <1>9, <1>10 DEF Outcome

LEMMA WaitKeeps ==
    ASSUME ClientInv, epoll_wait
    PROVE  ClientInv'
  <1>1. /\ pc = "wait" /\ edge' = {}
        /\ pc' = IF \E s \in Session : mask'[s] # {} THEN "event" ELSE "wait"
        /\ UNCHANGED <<timed, server, i, rest, socket, sendCnt, got, result, link, sending, asked,
                       answered, unread, fin, full, interest>>
    BY DEF epoll_wait, netVars
  <1>2. /\ mask' \in [Session -> SUBSET {"in", "out", "err"}]
        /\ \A s \in Session : IF s \in edge THEN mask'[s] \in Reports(s) ELSE mask'[s] = {}
    BY DEF epoll_wait
  <1>3. TypeOK'
    BY <1>1, <1>2 DEF ClientInv, TypeOK
  <1>4. Phases'
    BY <1>1 DEF Phases, Early
  <1>5. Accounted'
    BY <1>1 DEF ClientInv, Accounted
  <1>6. ASSUME NEW s \in Session
        PROVE  SessionInv(s)'
    <2>1. /\ SessionInv(s) /\ mask[s] = {} /\ ~Current(s) /\ ~Current(s)'
      BY <1>1 DEF ClientInv, Phases, Current
    <2>2. /\ AllSent(s)' <=> AllSent(s)
          /\ Wanted(s)' = Wanted(s) /\ Ready(s)' = Ready(s) /\ (Broken(s)' <=> Broken(s))
          /\ Heard(s)' <=> Heard(s)
      BY <1>1 DEF AllSent, Wanted, Ready, Broken, Heard
    <2>3. Transfer(s)'
      BY <1>1, <2>1, <2>2 DEF SessionInv, Transfer
    <2>4. socket[s] # "open" => s \notin edge
      BY <2>1 DEF SessionInv, Watched
    <2>5. Outcome(s)'
      <3>1. "err" \in mask'[s] => server[s] = "break"
        BY <1>2, <2>4, Reported
      <3> QED
        BY <1>1, <2>1, <2>2, <3>1 DEF SessionInv, Outcome
    <2>6. Watched(s)'
      <3>1. CASE socket[s] # "open"
        BY <1>1, <1>2, <2>4, <3>1 DEF Watched
      <3>2. CASE socket[s] = "open" /\ s \notin edge
        BY <1>1, <1>2, <2>1, <2>2, <3>2 DEF SessionInv, Watched
      <3>3. CASE socket[s] = "open" /\ s \in edge
        <4>1. /\ "out" \in mask'[s] => interest[s] = {"in", "out"}
              /\ "in" \in mask'[s] => Heard(s)
              /\ mask'[s] = {} => Wanted(s) \notin Ready(s)
          BY <1>2, <3>3, Reported
        <4> QED
          BY <1>1, <2>1, <2>2, <3>3, <4>1 DEF SessionInv, Watched
      <3> QED
        BY <3>1, <3>2, <3>3
    <2> QED
      BY <2>3, <2>5, <2>6 DEF SessionInv
  <1> QED
    BY <1>3, <1>4, <1>5, <1>6 DEF ClientInv

LEMMA HandleKeeps ==
    ASSUME ClientInv, NEW x \in Session, Handle(x)
    PROVE  ClientInv'
  <1>1. /\ TypeOK /\ SessionInv(x) /\ pc = "event" /\ mask[x] # {} /\ i' = x
        /\ mask' = [mask EXCEPT ![x] = {}]
        /\ UNCHANGED <<timed, server, sendCnt, got, sending, asked, answered, unread, fin, full>>
    BY DEF ClientInv, Handle
  <1>2. /\ socket[x] = "open" /\ i' \in 1..N + 1
        /\ mask' \in [Session -> SUBSET {"in", "out", "err"}]
        /\ mask'[x] = {} /\ \A s \in Session \ {x} : mask'[s] = mask[s]
    <2>1. i' \in 1..N + 1
      BY <1>1, ClientAssumption DEF Session
    <2> QED
      BY <1>1, <2>1 DEF SessionInv, Watched, TypeOK
  <1>3. \A s \in Session \ {x} : ~Current(s) /\ ~Current(s)'
    BY <1>1 DEF Current
  <1>4. CASE "out" \in mask[x] \/ "in" \in mask[x]
    <2>1. /\ pc' = IF "out" \in mask[x] THEN "write" ELSE "read"
          /\ UNCHANGED <<rest, socket, result, link, interest, edge>>
      BY <1>4 DEF Handle
    <2>2. TypeOK'
      BY <1>1, <1>2, <2>1 DEF TypeOK
    <2>3. /\ AllSent(x)' <=> AllSent(x)
          /\ Heard(x)' <=> Heard(x)
      BY <1>1, <2>1 DEF AllSent, Heard, Broken
    <2>4. pc' = "write" => "out" \in interest[x]
      BY <1>1, <1>2, <2>1 DEF SessionInv, Watched
    <2>5. pc' = "read" => Heard(x)
      BY <1>1, <1>2, <1>4, <2>1 DEF SessionInv, Watched
    <2>6. (pc' = "write" => "out" \in interest'[i']) /\ (pc' = "read" => Heard(i)')
      BY <1>1, <2>1, <2>3, <2>4, <2>5 DEF Heard, Broken
    <2>7. Phases'
      BY <1>1, <1>2, <2>1, <2>6 DEF Phases, Early
    <2>8. Accounted'
      BY <1>1, <2>1 DEF ClientInv, Accounted
    <2>9. ASSUME NEW s \in Session, s # x
          PROVE  SessionInv(s)'
      <3>1. SessionInv(s)
        BY DEF ClientInv
      <3> QED
        BY <1>1, <1>2, <1>3, <2>1, <2>9, <3>1, Untouched
    <2>10. Current(x)' /\ (Broken(x)' <=> Broken(x))
      BY <1>1, <2>1 DEF Current, Broken
    <2>11. Transfer(x)'
      BY <1>1, <2>1, <2>3 DEF SessionInv, Transfer
    <2>12. Outcome(x)'
      BY <1>1, <1>2, <2>1, <2>10 DEF SessionInv, Outcome
    <2>13. Watched(x)'
      BY <1>1, <1>2, <2>1, <2>3, <2>10 DEF SessionInv, Watched
    <2> QED
      BY <2>2, <2>7, <2>8, <2>9, <2>11, <2>12, <2>13 DEF ClientInv, SessionInv
  <1>5. CASE ~("out" \in mask[x] \/ "in" \in mask[x])
    <2>1. closeSession(x, Failed) /\ pc' = "event"
      BY <1>1, <1>5 DEF Handle
    <2>2. "err" \in mask[x]
      BY <1>1, <1>5 DEF TypeOK
    <2>3. server[x] = "break"
      BY <1>1, <2>2 DEF SessionInv, Outcome
    <2>4. Failed # Unfinished
      BY DEF Failed, Unfinished
    <2> QED
      BY <1>1, <1>2, <1>3, <2>1, <2>3, <2>4, ClosedInLoop
  <1> QED
    BY <1>4, <1>5

\* A read or a write that leaves the session unfinished touches no other one.
LEMMA InHand ==
    ASSUME ClientInv, NEW x, x = i, pc \in {"read", "write"},
           UNCHANGED <<timed, server, i, rest, mask, socket, result, link, asked, answered, fin>>,
           pc' \in {"event", pc},
           /\ sendCnt' \in [Session -> Nat] /\ got' \in [Session -> Nat]
           /\ sending' \in [Session -> Nat] /\ unread' \in [Session -> Nat]
           /\ full' \in [Session -> BOOLEAN]
           /\ interest' \in [Session -> SUBSET {"in", "out"}],
           edge' = edge \/ edge' = edge \union {x},
           \A s \in Session \ {x} :
               /\ sendCnt'[s] = sendCnt[s] /\ got'[s] = got[s] /\ sending'[s] = sending[s]
               /\ unread'[s] = unread[s] /\ full'[s] = full[s] /\ interest'[s] = interest[s],
           pc' = "write" => "out" \in interest'[x],
           Transfer(x)', Watched(x)'
    PROVE  ClientInv'
  <1>1. x \in Session /\ TypeOK /\ Phases
    BY DEF ClientInv, Phases
  <1>2. TypeOK'
    BY <1>1 DEF TypeOK
  <1>3. Phases'
    <2>1. Heard(i)' <=> Heard(i)
      BY DEF Heard, Broken
    <2> QED
      BY <1>1, <2>1 DEF Phases, Early
  <1>4. Accounted'
    BY DEF ClientInv, Accounted
  <1>5. ASSUME NEW s \in Session, s # x
        PROVE  SessionInv(s)'
    <2>1. SessionInv(s) /\ ~Current(s) /\ ~Current(s)'
      BY <1>5 DEF ClientInv, Current
    <2> QED
      BY <1>5, <2>1, Untouched
  <1>6. Outcome(x)'
    <2>1. Outcome(x)
      BY <1>1 DEF ClientInv, SessionInv
    <2> QED
      BY <2>1 DEF Outcome, Broken
  <1> QED
    BY <1>2, <1>3, <1>4, <1>5, <1>6 DEF ClientInv, SessionInv

LEMMA WriteKeeps ==
    ASSUME ClientInv, Write, NEW x, x = i
    PROVE  ClientInv'
  <1> USE ClientAssumption
  <1>0. /\ pc = "write" /\ x \in Session /\ socket[x] = "open" /\ mask[x] = {}
        /\ TypeOK /\ Transfer(x) /\ Watched(x) /\ link[x] = "up" /\ "out" \in interest[x]
    BY DEF ClientInv, Phases, SessionInv, Write
  <1>1. /\ pc = "write" /\ x \in Session /\ socket[x] = "open" /\ mask[x] = {} /\ ~AllSent(x)
        /\ TypeOK /\ Transfer(x) /\ Watched(x) /\ link[x] = "up"
        /\ interest[x] = {"in", "out"}
    BY <1>0 DEF Watched
  <1>2. /\ sendCnt[x] = asked[x] + sending[x] /\ sendCnt[x] \in Nat /\ asked[x] \in Nat
        /\ sending[x] \in Nat
    BY <1>1 DEF Transfer, TypeOK
  <1>3. PICK k \in 1..Parts - sendCnt[x] :
            /\ sending[x] + k <= Room
            /\ sending' = [sending EXCEPT ![x] = @ + k]
            /\ IF k = Parts - sendCnt[x]
               THEN modEpollIn(x) /\ pc' = "event" /\ UNCHANGED sendCnt
               ELSE /\ sendCnt' = [sendCnt EXCEPT ![x] = @ + k]
                    /\ pc' = "write"
                    /\ UNCHANGED <<interest, edge>>
    BY DEF Write, AfterPart
  <1>4. UNCHANGED <<timed, server, i, rest, mask, socket, got, result,
                    link, asked, answered, unread, fin, full>>
    BY DEF Write
  <1>5. /\ sending' \in [Session -> Nat] /\ sending'[x] = sending[x] + k /\ k \in Nat /\ k > 0
        /\ \A s \in Session \ {x} : sending'[s] = sending[s]
    BY <1>1, <1>2, <1>3 DEF TypeOK
  <1>6. CASE k = Parts - sendCnt[x]
    <2>1. /\ pc' = "event" /\ UNCHANGED sendCnt
          /\ interest' = [interest EXCEPT ![x] = {"in"}]
          /\ edge' = IF Broken(x) \/ Ready(x) \intersect {"in"} # {} THEN edge \union {x} ELSE edge
      BY <1>3, <1>6 DEF modEpollIn, Watch
    <2>2. AllSent(x)' /\ ~Current(x)' /\ (Heard(x)' <=> Heard(x))
      BY <1>2, <1>4, <1>5, <1>6, <2>1 DEF AllSent, Current, Heard, Broken
    <2>3. Transfer(x)'
      BY <1>1, <1>2, <1>3, <1>4, <1>5, <1>6, <2>1, <2>2 DEF Transfer
    <2>4. /\ interest'[x] = {"in"} /\ interest' \in [Session -> SUBSET {"in", "out"}]
          /\ \A s \in Session \ {x} : interest'[s] = interest[s]
      BY <1>1, <2>1 DEF TypeOK
    <2>5. x \notin edge' => "in" \notin Ready(x)'
      BY <1>4, <2>1 DEF Ready, Broken
    <2>6. Watched(x)'
      BY <1>1, <1>4, <2>2, <2>4, <2>5 DEF Watched, Wanted
    <2> QED
      BY <1>1, <1>4, <1>5, <2>1, <2>2, <2>3, <2>4, <2>6, InHand DEF TypeOK
  <1>7. CASE k # Parts - sendCnt[x]
    <2>1. /\ pc' = "write" /\ UNCHANGED <<interest, edge>>
          /\ sendCnt' \in [Session -> Nat] /\ sendCnt'[x] = sendCnt[x] + k
          /\ \A s \in Session \ {x} : sendCnt'[s] = sendCnt[s]
      BY <1>1, <1>3, <1>5, <1>7 DEF TypeOK
    <2>2. ~AllSent(x)' /\ Current(x)' /\ (Heard(x)' <=> Heard(x))
      BY <1>2, <1>3, <1>4, <1>5, <1>7, <2>1 DEF AllSent, Current, Heard, Broken
    <2>3. Transfer(x)'
      BY <1>1, <1>2, <1>3, <1>4, <1>5, <1>7, <2>1, <2>2 DEF Transfer
    <2>4. Watched(x)'
      BY <1>1, <1>4, <2>1, <2>2 DEF Watched
    <2> QED
      BY <1>1, <1>4, <1>5, <2>1, <2>2, <2>3, <2>4, InHand DEF TypeOK
  <1> QED
    BY <1>6, <1>7

LEMMA WriteFullKeeps ==
    ASSUME ClientInv, WriteFull, NEW x, x = i
    PROVE  ClientInv'
  <1>1. /\ pc = "write" /\ x \in Session /\ socket[x] = "open" /\ mask[x] = {}
        /\ "out" \in interest[x] /\ TypeOK /\ Transfer(x) /\ Watched(x)
        /\ ~Broken(x) /\ ~(link[x] = "up" /\ sending[x] < Room)
    BY DEF ClientInv, Phases, SessionInv, WriteFull
  <1>2. /\ pc' = "event" /\ full' = [full EXCEPT ![x] = TRUE]
        /\ UNCHANGED <<timed, server, i, rest, mask, socket, sendCnt, got, result,
                       link, sending, asked, answered, unread, fin, interest, edge>>
    BY DEF WriteFull
  <1>3. /\ full' \in [Session -> BOOLEAN] /\ full'[x]
        /\ \A s \in Session \ {x} : full'[s] = full[s]
    BY <1>1, <1>2 DEF TypeOK
  <1>4. /\ "out" \notin Ready(x)' /\ (AllSent(x)' <=> AllSent(x)) /\ (Heard(x)' <=> Heard(x))
    BY <1>1, <1>2 DEF AllSent, Ready, Broken, Heard
  <1>5. Transfer(x)'
    BY <1>1, <1>2, <1>4 DEF Transfer
  <1>6. Watched(x)'
    BY <1>1, <1>2, <1>3, <1>4 DEF Watched, Wanted
  <1> QED
    BY <1>1, <1>2, <1>3, <1>5, <1>6, InHand DEF TypeOK

LEMMA ReadKeeps ==
    ASSUME ClientInv, Read, NEW x, x = i
    PROVE  ClientInv'
  <1>1. /\ pc = "read" /\ x \in Session /\ socket[x] = "open" /\ mask[x] = {} /\ Heard(x)
        /\ TypeOK /\ Transfer(x) /\ Watched(x) /\ unread[x] > 0
    BY DEF ClientInv, Phases, SessionInv, Read
  <1>2. /\ pc' = "read" /\ unread' = [unread EXCEPT ![x] = @ - 1] /\ got' = [got EXCEPT ![x] = @ + 1]
        /\ UNCHANGED <<timed, server, i, rest, mask, socket, sendCnt, result,
                       link, sending, asked, answered, fin, full, interest, edge>>
    BY <1>1 DEF Read
  <1>3. /\ unread' \in [Session -> Nat] /\ got' \in [Session -> Nat]
        /\ unread'[x] = unread[x] - 1 /\ got'[x] = got[x] + 1
        /\ unread[x] \in Nat /\ got[x] \in Nat /\ answered[x] \in Nat
        /\ \A s \in Session \ {x} : unread'[s] = unread[s] /\ got'[s] = got[s]
    BY <1>1, <1>2 DEF TypeOK
  <1>4. /\ Current(x)' /\ (AllSent(x)' <=> AllSent(x)) /\ (Heard(x)' <=> Heard(x))
    BY <1>1, <1>2 DEF AllSent, Current, Heard, Broken
  <1>5. Transfer(x)'
    BY <1>1, <1>2, <1>3, <1>4 DEF Transfer
  <1>6. Watched(x)'
    BY <1>1, <1>2, <1>4 DEF Watched
  <1> QED
    BY <1>1, <1>2, <1>3, <1>4, <1>5, <1>6, InHand DEF TypeOK

LEMMA ReadEmptyKeeps ==
    ASSUME ClientInv, ReadEmpty, NEW x, x = i
    PROVE  ClientInv'
  <1>1. /\ pc = "read" /\ x \in Session /\ socket[x] = "open" /\ mask[x] = {} /\ Heard(x)
        /\ TypeOK /\ Transfer(x) /\ Watched(x) /\ unread[x] = 0 /\ ~fin[x] /\ ~Broken(x)
    BY DEF ClientInv, Phases, SessionInv, ReadEmpty
  <1>2. /\ pc' = "event" /\ interest' = [interest EXCEPT ![x] = {"in"}]
        /\ edge' = edge \/ edge' = edge \union {x}
        /\ UNCHANGED <<timed, server, i, rest, mask, socket, sendCnt, got, result,
                       link, sending, asked, answered, unread, fin, full>>
    BY DEF ReadEmpty, modEpollIn, Watch, netVars
  <1>3. /\ interest'[x] = {"in"} /\ interest' \in [Session -> SUBSET {"in", "out"}]
        /\ \A s \in Session \ {x} : interest'[s] = interest[s]
    BY <1>1, <1>2 DEF TypeOK
  <1>4. /\ "in" \notin Ready(x)' /\ (AllSent(x)' <=> AllSent(x)) /\ answered'[x] > 0
    BY <1>1, <1>2 DEF AllSent, Ready, Broken, Heard, TypeOK
  <1>5. Transfer(x)'
    BY <1>1, <1>2, <1>4 DEF Transfer
  <1>6. Watched(x)'
    BY <1>1, <1>2, <1>3, <1>4 DEF Watched, Wanted
  <1> QED
    BY <1>1, <1>2, <1>3, <1>5, <1>6, InHand DEF TypeOK

\* read returns 0: the server has closed the connection, and the thread has read
\* all that it had sent.
LEMMA ReadEndKeeps ==
    ASSUME ClientInv, ReadEnd, NEW x, x = i
    PROVE  ClientInv'
  <1>1. /\ pc = "read" /\ pc' = "event" /\ x \in Session /\ socket[x] = "open" /\ mask[x] = {}
        /\ TypeOK /\ Transfer(x) /\ unread[x] = 0 /\ fin[x] /\ closeSession(x, Unfinished)
        /\ UNCHANGED <<timed, server, i, mask, sendCnt, got, sending, asked, answered, unread, fin, full>>
    BY DEF ClientInv, Phases, SessionInv, ReadEnd
  <1>2. Complete(x)
    BY <1>1, ClientAssumption DEF Transfer, TypeOK, Complete
  <1>3. \A s \in Session \ {x} : ~Current(s)
    BY DEF Current
  <1>4. Unfinished # Failed
    BY DEF Unfinished, Failed
  <1> QED
    BY <1>1, <1>2, <1>3, <1>4, ClosedInLoop DEF TypeOK

LEMMA IOErrorKeeps ==
    ASSUME ClientInv, IOError, NEW x, x = i
    PROVE  ClientInv'
  <1>1. /\ pc \in {"read", "write"} /\ pc' = "event" /\ x \in Session /\ socket[x] = "open"
        /\ mask[x] = {} /\ TypeOK /\ Outcome(x) /\ Broken(x) /\ closeSession(x, Failed)
        /\ UNCHANGED <<timed, server, i, mask, sendCnt, got, sending, asked, answered, unread, fin, full>>
    BY DEF ClientInv, Phases, SessionInv, IOError
  <1>2. server[x] = "break"
    BY <1>1 DEF Outcome
  <1>3. \A s \in Session \ {x} : ~Current(s)
    BY DEF Current
  <1>4. Unfinished # Failed
    BY DEF Unfinished, Failed
  <1> QED
    BY <1>1, <1>2, <1>3, <1>4, ClosedInLoop DEF TypeOK

LEMMA OverKeeps ==
    ASSUME ClientInv, Over
    PROVE  ClientInv'
  <1> DEFINE S == {s \in Session : result[s] = Unfinished}
  <1>1. /\ TypeOK /\ pc = "wait" /\ pc' = "done" /\ (rest = 0 \/ timed)
        /\ \A s \in Session : mask[s] = {}
        /\ UNCHANGED <<timed, server, i, mask, sendCnt, got, sending, asked, answered, unread, fin, full>>
    BY DEF ClientInv, Phases, Early, Over
  <1>2. /\ result' = [s \in Session |-> IF s \in S THEN TimedOut ELSE result[s]]
        /\ socket' = [s \in Session |-> IF s \in S THEN "closed" ELSE socket[s]]
        /\ rest' = rest - Cardinality(S)
        /\ link' = [s \in Session |-> IF s \in S THEN "none" ELSE link[s]]
        /\ interest' = [s \in Session |-> IF s \in S THEN {} ELSE interest[s]]
        /\ edge' = edge \ S
    BY DEF Over, CloseLinks
  <1>3. rest = Cardinality(S) /\ S \subseteq Session
    BY DEF ClientInv, Accounted
  <1>4. \A s \in Session : s \in S <=> result[s] = Unfinished
    OBVIOUS
  <1>5. \A s \in Session : s \in S <=> socket[s] = "open"
    BY <1>1 DEF ClientInv, Accounted
  <1> HIDE DEF S
  <1>6. rest' = 0 /\ (rest = 0 <=> S = {})
    BY <1>2, <1>3, OneLess
  <1>7. \A s \in Session : result'[s] # Unfinished /\ socket'[s] # "open"
    BY <1>2, <1>4, <1>5 DEF TimedOut, Unfinished
  <1>8. TypeOK'
    BY <1>1, <1>2, <1>6 DEF TypeOK, TimedOut
  <1>9. Phases'
    BY <1>1 DEF Phases, Early
  <1>10. Accounted'
    <2>1. Cardinality({}) = 0
      BY FS_EmptySet
    <2>2. {s \in Session : result'[s] = Unfinished} = {} /\ {s \in Session : socket'[s] = "open"} = {}
      BY <1>7
    <2> QED
      BY <1>1, <1>6, <2>1, <2>2 DEF Accounted
  <1>11. ASSUME NEW s \in Session
         PROVE  SessionInv(s)'
    <2>1. SessionInv(s) /\ ~Current(s) /\ ~Current(s)'
      BY <1>1 DEF ClientInv, Current
    <2>2. CASE s \notin S
      BY <1>1, <1>2, <2>1, <2>2, Untouched
    <2>3. CASE s \in S
      <3>1. /\ result'[s] = TimedOut /\ socket'[s] = "closed" /\ link'[s] = "none" /\ s \notin edge'
            /\ timed
        BY <1>1, <1>2, <1>6, <2>3
      <3>2. Transfer(s)'
        BY <1>1, <2>1, <3>1 DEF SessionInv, Transfer
      <3>3. Outcome(s)'
        BY <1>1, <3>1 DEF Outcome, Broken, TimedOut
      <3>4. Watched(s)'
        BY <1>1, <3>1 DEF Watched
      <3> QED
        BY <3>2, <3>3, <3>4 DEF SessionInv
    <2> QED
      BY <2>2, <2>3
  <1> QED
    BY <1>8, <1>9, <1>10, <1>11 DEF ClientInv

-----------------------------------------------------------------------------

LEMMA ClientInvInit == Init => ClientInv
  <1> SUFFICES ASSUME Init
               PROVE  ClientInv
    OBVIOUS
  <1> USE ClientAssumption
  <1>1. TypeOK
    BY DEF Init, TypeOK, Unfinished
  <1>2. Phases
    BY DEF Init, Phases, Early
  <1>3. Accounted
    <2>1. Cardinality(Session) = N
      BY FS_Interval DEF Session
    <2>2. {s \in Session : result[s] = Unfinished} = Session /\ {s \in Session : socket[s] = "open"} = {}
      BY DEF Init
    <2>3. {s \in Session : pc \in {"create", "failed", "open"} /\ s >= i} = Session
      BY DEF Init, Session
    <2> QED
      BY <2>1, <2>2, <2>3 DEF Init, Accounted
  <1>4. ASSUME NEW s \in Session
        PROVE  SessionInv(s)
    <2>1. Transfer(s)
      BY DEF Init, Transfer, AllSent
    <2>2. Outcome(s)
      BY DEF Init, Outcome, Broken, Unfinished
    <2>3. Watched(s)
      BY DEF Init, Watched
    <2> QED
      BY <2>1, <2>2, <2>3 DEF SessionInv
  <1> QED
    BY <1>1, <1>2, <1>3, <1>4 DEF ClientInv

LEMMA ClientInvNext == ClientInv /\ [Next]_vars => ClientInv'
  <1> SUFFICES ASSUME ClientInv, [Next]_vars
               PROVE  ClientInv'
    OBVIOUS
  <1>1. CASE Client
    BY <1>1, CreateKeeps, OpenKeeps, OpenFailsKeeps, OpenedKeeps, WaitKeeps, HandleKeeps, WriteKeeps,
       WriteFullKeeps, ReadKeeps, ReadEndKeeps, ReadEmptyKeeps, IOErrorKeeps, OverKeeps
       DEF Client
  <1>2. ASSUME NEW s \in Session, Net(s)
        PROVE  ClientInv'
    BY <1>2, ConnectedKeeps, TakeKeeps, AnswerKeeps, CloseKeeps, ResetKeeps DEF Net
  <1>3. CASE UNCHANGED vars
    <2>1. UNCHANGED <<timed, server, pc, i, rest, mask, socket, sendCnt, got, result, link, sending,
                      asked, answered, unread, fin, full, interest, edge>>
      BY <1>3 DEF vars, clientVars, netVars
    <2>2. TypeOK' /\ Accounted'
      BY <2>1 DEF ClientInv, TypeOK, Accounted
    <2>3. Phases'
      BY <2>1 DEF ClientInv, Phases, Early, Heard, Broken
    <2>4. \A s \in Session : SessionInv(s)'
      BY <2>1, Untouched DEF ClientInv, Current
    <2> QED
      BY <2>2, <2>3, <2>4 DEF ClientInv
  <1> QED
    BY <1>1, <1>2, <1>3 DEF Next

\* The invariant of doHttpRequest holds for any number of sessions and any
\* sizes of requests, answers and buffers.
THEOREM ClientInvariant == Spec => []ClientInv
  BY ClientInvInit, ClientInvNext, PTL DEF Spec

\* restSession is the number of unfinished sessions, and their sockets are the
\* open ones, at every moment of the call.
THEOREM AllAccounted == Spec => []Accounted
  <1>1. ClientInv => Accounted
    BY DEF ClientInv
  <1> QED
    BY <1>1, ClientInvariant, PTL

\* epoll's edges: while the thread waits, a session that will not be reported
\* has nothing to do.
THEOREM EdgesKept == Spec => []NoLostEdge
  <1>1. ASSUME ClientInv
        PROVE  NoLostEdge
    <2> SUFFICES ASSUME pc = "wait", NEW s \in Session, result[s] = Unfinished, s \notin edge
                 PROVE  /\ asked[s] + sending[s] < Parts =>
                             "out" \notin Ready(s) \/ ("out" \notin interest[s] /\ answered[s] > 0)
                        /\ asked[s] + sending[s] >= Parts \/ "out" \notin interest[s] =>
                             "in" \notin Ready(s)
      <3>1. \A s \in Session : /\ asked[s] \in Nat /\ sending[s] \in Nat /\ Parts \in Nat
        BY <1>1, ClientAssumption DEF ClientInv, TypeOK
      <3> QED
        BY <3>1 DEF NoLostEdge
    <2>2. socket[s] = "open" /\ mask[s] = {} /\ ~Current(s) /\ TypeOK
      BY <1>1 DEF ClientInv, Accounted, Phases, Current
    <2>3. Wanted(s) \notin Ready(s) /\ asked[s] + sending[s] <= Parts /\ Watched(s)
      BY <1>1, <2>2 DEF ClientInv, SessionInv, Watched, Transfer
    <2> QED
      BY <2>2, <2>3, ClientAssumption DEF Wanted, Watched, AllSent, TypeOK
  <1> QED
    BY <1>1, ClientInvariant, PTL

\* A result above 0 is all that the server sent before it closed, and the whole
\* answer of a server that closes only after it; any other one is an error.
THEOREM AnswersWhole == Spec => []WholeAnswer
  <1>1. ASSUME ClientInv
        PROVE  WholeAnswer
    <2> SUFFICES ASSUME NEW s \in Session
                 PROVE  /\ asked[s] + sending[s] <= Parts
                        /\ result[s] > 0 => result[s] = answered[s] /\ fin[s]
                        /\ result[s] > 0 /\ server[s] = "answer" =>
                                result[s] = Pieces /\ asked[s] = Parts
                        /\ (pc = "done" /\ ~timed /\ server[s] = "answer") =>
                                result[s] \in {Pieces, NoSocket, BadAddress}
      BY DEF WholeAnswer
    <2>2. pc = "done" => result[s] # Unfinished
      BY <1>1 DEF ClientInv, Accounted
    <2> QED
      BY <1>1, <2>2 DEF ClientInv, SessionInv, Transfer, Outcome
  <1> QED
    BY <1>1, ClientInvariant, PTL

=============================================================================
