---------------------------- MODULE NetworkProofs ----------------------------
(****************************************************************************)
(* Proofs about the network code, over the modules MCNetwork composes:      *)
(* sockets, TLS sessions, zlib streams and the two line readers.  Each has  *)
(* an inductive invariant of its own for what it does with bytes and        *)
(* numbers; the first three keep the contract of a foreign resource, the    *)
(* readers are sources of bytes.                                            *)
(****************************************************************************)
EXTENDS MCNetwork, DataLemmas, SequenceTheorems, TLAPS

-----------------------------------------------------------------------------
(****************************************************************************)
(* Sockets, for any number of files and of descriptor numbers, where close  *)
(* does not fail.                                                           *)
(****************************************************************************)

(* The books of the numbers: what a wrapper keeps and what the table says   *)
(* are the same; a file has no number before it is opened and after it was  *)
(* closed.                                                                  *)
NumbersAgree ==
  /\ \A w \in Net!Wrapper : number[w] # -1 => table[number[w]] = w
  /\ \A k \in Numbers : table[k] # None => number[table[k]] = k /\ table[k] \in sockHeld
  /\ \A s \in sending : number[s[1]] = s[2]
  /\ \A w \in Net!Wrapper : inKernel[w] \in {"none", "closed"} => number[w] = -1

(* A connection under way is reported by no select. *)
ReadyMeansDone == \A f \in ready : inKernel[f] # "connecting"

SocketsInductive == Net!TypeOK /\ NumbersAgree /\ ReadyMeansDone /\ Net!TypeIsTrue

(* The lowest number is one of the free ones. *)
LEMMA LowestIsFree ==
  ASSUME NEW S \in SUBSET Nat, S # {}
  PROVE  Net!Min(S) \in S
<1>1. \E k \in S : \A m \in S : k <= m
  BY LeastMember
<1> QED BY <1>1 DEF Net!Min

LEMMA SocketsInitHolds == Net!Init => SocketsInductive
BY SocketAssumption
   DEF Net!Init, SocketsInductive, Net!TypeOK, NumbersAgree, ReadyMeansDone,
         Net!TypeIsTrue,
       Net!Wrapper, Net!SocketState

(* What a wrapper that is held reaches. *)
LEMMA HeldReach ==
  ASSUME SocketsInductive, NEW w \in Net!Wrapper
  PROVE  /\ Net!reach(w) = IF number[w] = -1 THEN {} ELSE {w}
         /\ number[w] # -1 => /\ number[w] \in Numbers /\ table[number[w]] = w
                              /\ inKernel[w] \notin {"none", "closed"} /\ w \in sockHeld
<1>1. number[w] \in Numbers \cup {-1} /\ -1 \notin Numbers /\ w # None
  BY SocketAssumption DEF SocketsInductive, Net!TypeOK, Net!Wrapper
<1> QED BY <1>1 DEF SocketsInductive, NumbersAgree, Net!reach, Net!at

(* What is open has a number and is not closed. *)
LEMMA LiveAndGone ==
  ASSUME SocketsInductive
  PROVE  /\ Net!live \cap Net!gone = {} /\ Net!live \cup Net!gone \subseteq Net!Wrapper
         /\ \A w \in Net!Wrapper : Net!reach(w) \subseteq Net!live
         /\ \A w \in Net!Wrapper : w \in Net!live <=> number[w] # -1
         /\ \A s \in sending : Net!at(s[2]) \subseteq Net!live
<1>1. ASSUME NEW w \in Net!Wrapper PROVE w \in Net!live <=> number[w] # -1
  <2>1. w # None
    BY SocketAssumption DEF Net!Wrapper
  <2>2. w \in Net!live => number[w] \in Numbers
    BY <2>1 DEF Net!live, SocketsInductive, NumbersAgree
  <2>3. number[w] # -1 => w \in Net!live
    BY HeldReach DEF Net!live
  <2> QED BY <2>2, <2>3, SocketAssumption
<1>2. \A w \in Net!Wrapper : Net!reach(w) \subseteq Net!live
  BY <1>1, HeldReach
<1>3. Net!live \subseteq Net!Wrapper /\ Net!gone \subseteq Net!Wrapper
  BY DEF Net!live, Net!gone
<1>4. Net!live \cap Net!gone = {}
  BY <1>1, <1>3, HeldReach DEF Net!gone
<1>5. ASSUME NEW s \in sending PROVE Net!at(s[2]) \subseteq Net!live
  <2>1. table \in [Numbers -> Net!Wrapper \cup {None}]
    BY DEF SocketsInductive, Net!TypeOK
  <2> QED BY <2>1 DEF Net!at, Net!live
<1> QED BY <1>1, <1>2, <1>3, <1>4, <1>5

SocketsKeep == SocketsInductive' /\ Net!Contract!Call

(* A step that opens and closes nothing, and reaches what is open.          *)
LEMMA NothingCloses ==
  ASSUME SocketsInductive, SocketsInductive', UNCHANGED table, Net!gone' = Net!gone,
         sockTouched' \subseteq Net!live
  PROVE  SocketsKeep
<1>1. Net!live' = Net!live
  BY DEF Net!live, Net!Wrapper
<1> HIDE DEF Net!live, Net!gone, SocketsInductive
<1> QED BY <1>1, LiveAndGone DEF SocketsKeep, Net!Contract!Call

(* One that changes the state of no file. *)
LEMMA StatesStay ==
  ASSUME SocketsInductive, UNCHANGED <<table, number, inKernel, type, sockHeld>>,
         ready' \subseteq ready, sending' \subseteq sending,
         waited' \in {"nothing", "ready", "unready"}, sockTouched' \subseteq Net!live
  PROVE  SocketsKeep
<1>1. Net!gone' = Net!gone
  BY DEF Net!gone, Net!Wrapper
<1>2. sockTouched' \subseteq Net!Wrapper
  BY LiveAndGone
<1>3. Net!TypeOK'
  BY <1>2 DEF SocketsInductive, Net!TypeOK, Net!Wrapper
<1>4. NumbersAgree' /\ ReadyMeansDone' /\ Net!TypeIsTrue'
  BY DEF SocketsInductive, NumbersAgree, ReadyMeansDone, Net!TypeIsTrue, Net!Wrapper
<1>5. SocketsInductive'
  BY <1>3, <1>4 DEF SocketsInductive
<1> QED BY <1>1, <1>5, NothingCloses

LEMMA WorldStep ==
  ASSUME SocketsInductive, Net!World
  PROVE  SocketsKeep
<1>1. /\ UNCHANGED <<table, number, sockHeld, type, sending, waited>>
      /\ sockTouched' = {}
  BY DEF Net!World
<1>2. CASE \E f \in Net!live \cap File :
             /\ ready' = IF f \in ready THEN ready \ {f} ELSE ready \cup {f}
             /\ inKernel[f] \notin {"connecting", "failed"}
             /\ UNCHANGED inKernel
  <2>1. PICK f \in File : /\ ready' = IF f \in ready THEN ready \ {f} ELSE ready \cup {f}
                          /\ inKernel[f] \notin {"connecting", "failed"}
                          /\ UNCHANGED inKernel
    BY <1>2
  <2>2. Net!TypeOK'
    BY <1>1, <2>1 DEF SocketsInductive, Net!TypeOK, Net!Wrapper
  <2>3. NumbersAgree' /\ ReadyMeansDone' /\ Net!TypeIsTrue'
    BY <1>1, <2>1
    DEF SocketsInductive, NumbersAgree, ReadyMeansDone, Net!TypeIsTrue, Net!Wrapper
  <2>4. Net!gone' = Net!gone
    BY <2>1 DEF Net!gone, Net!Wrapper
  <2>5. SocketsInductive'
    BY <2>2, <2>3 DEF SocketsInductive
  <2> QED BY <1>1, <2>4, <2>5, NothingCloses
<1>3. ASSUME NEW f \in File, NEW s \in {"connected", "failed"}, inKernel[f] = "connecting",
             inKernel' = [inKernel EXCEPT ![f] = s], ready' = ready \cup {f}
      PROVE  SocketsKeep
  <2>1. f \in Net!Wrapper /\ inKernel \in [Net!Wrapper -> Net!SocketState \cup {"none", "failed", "polling"}]
    BY DEF SocketsInductive, Net!TypeOK, Net!Wrapper
  <2>2. \A w \in Net!Wrapper : inKernel'[w] = IF w = f THEN s ELSE inKernel[w]
    BY <1>3, <2>1
  <2>3. Net!TypeOK'
    BY <1>1, <1>3, <2>1 DEF SocketsInductive, Net!TypeOK, Net!Wrapper, Net!SocketState
  <2>4. NumbersAgree'
    BY <1>1, <1>3, <2>2 DEF SocketsInductive, NumbersAgree, Net!Wrapper
  <2>5. ReadyMeansDone'
    <3>1. ready \subseteq Net!Wrapper
      BY DEF SocketsInductive, Net!TypeOK, Net!Wrapper
    <3> QED BY <1>3, <2>1, <2>2, <3>1 DEF SocketsInductive, ReadyMeansDone
  <2>6. Net!TypeIsTrue'
    BY <1>1, <1>3, <2>1, <2>2 DEF SocketsInductive, Net!TypeIsTrue, Net!Wrapper
  <2>7. Net!gone' = Net!gone
    BY <1>3, <2>2 DEF Net!gone, Net!Wrapper
  <2>8. SocketsInductive'
    BY <2>3, <2>4, <2>5, <2>6 DEF SocketsInductive
  <2> QED BY <1>1, <2>7, <2>8, NothingCloses
<1> QED BY <1>2, <1>3 DEF Net!World

(* The calls that leave the state of the socket as it is. *)
LEMMA QuietCallStep ==
  ASSUME SocketsInductive, NEW f \in File, NEW t,
         \/ Net!waitReady(f, t) \/ Net!Transfer(f) \/ Net!Option(f)
         \/ Net!linen_socket_accept_nb(f)
  PROVE  SocketsKeep
<1>1. /\ UNCHANGED <<table, number, inKernel, type, sockHeld, ready, sending>>
      /\ sockTouched' = Net!reach(f)
  BY
    DEF Net!waitReady, Net!Transfer, Net!Option, Net!linen_socket_accept_nb, Net!Call,
        Net!Keeps
<1>2. waited' \in {"nothing", "ready", "unready"}
  BY DEF Net!waitReady, Net!Transfer, Net!Option, Net!linen_socket_accept_nb,
         SocketsInductive, Net!TypeOK
<1>3. Net!reach(f) \subseteq Net!live
  BY LiveAndGone DEF Net!Wrapper
<1> QED BY <1>1, <1>2, <1>3, StatesStay

LEMMA LoopCallStep ==
  ASSUME SocketsInductive, NEW l \in Net!Wrapper, NEW f \in Net!Wrapper, Net!LoopCall(l, f)
  PROVE  SocketsKeep
<1>1. /\ UNCHANGED <<table, number, inKernel, type, sockHeld, ready, sending, waited>>
      /\ sockTouched' = Net!reach(l) \cup Net!reach(f)
  BY DEF Net!LoopCall
<1>2. waited \in {"nothing", "ready", "unready"}
  BY DEF SocketsInductive, Net!TypeOK
<1> QED BY <1>1, <1>2, LiveAndGone, StatesStay

LEMMA SendMoreStep ==
  ASSUME SocketsInductive, Net!SendMore
  PROVE  SocketsKeep
<1>1. /\ UNCHANGED <<table, number, inKernel, type, sockHeld, ready, waited>>
      /\ \E s \in sending : /\ sockTouched' = Net!at(s[2])
                            /\ sending' \in {sending, sending \ {s}}
  BY DEF Net!SendMore
<1>2. waited \in {"nothing", "ready", "unready"}
  BY DEF SocketsInductive, Net!TypeOK
<1> QED BY <1>1, <1>2, LiveAndGone, StatesStay

LEMMA SendallStep ==
  ASSUME SocketsInductive, NEW f \in File, Net!linen_socket_sendall(f)
  PROVE  SocketsKeep
<1>1. /\ UNCHANGED <<table, number, inKernel, type, sockHeld, ready, waited>>
      /\ sockTouched' = Net!reach(f) /\ number[f] # -1
      /\ sending' = sending \cup {<<f, number[f]>>}
  BY DEF Net!linen_socket_sendall, Net!Call, Net!Keeps
<1>2. f \in Net!Wrapper /\ number[f] \in Numbers
  BY <1>1, HeldReach DEF Net!Wrapper
<1>3. Net!reach(f) \subseteq Net!live /\ Net!reach(f) \subseteq Net!Wrapper
  BY <1>2, LiveAndGone
<1>4. Net!TypeOK'
  BY <1>1, <1>2, <1>3 DEF SocketsInductive, Net!TypeOK, Net!Wrapper
<1>5. NumbersAgree' /\ ReadyMeansDone' /\ Net!TypeIsTrue'
  BY <1>1
    DEF SocketsInductive, NumbersAgree, ReadyMeansDone, Net!TypeIsTrue, Net!Wrapper
<1>6. Net!gone' = Net!gone
  BY <1>1 DEF Net!gone, Net!Wrapper
<1>7. SocketsInductive'
  BY <1>4, <1>5 DEF SocketsInductive
<1> QED BY <1>1, <1>3, <1>6, <1>7, NothingCloses

(* A call that moves a socket, and its type, to another state; or connects  *)
(* or gives up one whose connection select has reported.                    *)
LEMMA BecomesStep ==
  ASSUME SocketsInductive, NEW f \in File,
         NEW s \in {"bound", "listening", "connecting", "connected"},
         f \in sockHeld, sockTouched' = Net!reach(f),
         UNCHANGED <<table, number, sockHeld, sending, waited>>,
         Net!Becomes(f, s),
         ready' \subseteq ready, s = "connecting" => ready' = ready \ Net!reach(f)
  PROVE  SocketsKeep
<1>1. f \in Net!Wrapper /\ f \notin Loop
  BY SocketAssumption DEF Net!Wrapper
<1>2. /\ Net!reach(f) = IF number[f] = -1 THEN {} ELSE {f}
      /\ number[f] # -1 => inKernel[f] \notin {"none", "closed"}
  BY <1>1, HeldReach
<1>3. /\ inKernel' = [w \in Net!Wrapper |-> IF w \in Net!reach(f) THEN s ELSE inKernel[w]]
      /\ type' = [type EXCEPT ![f] = s]
  BY DEF Net!Becomes
<1>4. /\ \A w \in Net!Wrapper :
           inKernel'[w] = IF w = f /\ number[f] # -1 THEN s ELSE inKernel[w]
      /\ type \in [Net!Wrapper -> Net!SocketState \cup {"none", "loop"}]
      /\ \A w \in Net!Wrapper : type'[w] = IF w = f THEN s ELSE type[w]
  BY <1>1, <1>2, <1>3 DEF SocketsInductive, Net!TypeOK
<1>5. Net!reach(f) \subseteq Net!live /\ Net!reach(f) \subseteq Net!Wrapper
  BY <1>1, LiveAndGone
<1>6. Net!TypeOK'
  <2>1. inKernel' \in [Net!Wrapper -> Net!SocketState \cup {"none", "failed", "polling"}]
    BY <1>3 DEF SocketsInductive, Net!TypeOK, Net!SocketState
  <2>2. type' \in [Net!Wrapper -> Net!SocketState \cup {"none", "loop"}]
    BY <1>1, <1>3 DEF SocketsInductive, Net!TypeOK, Net!SocketState
  <2>3. ready' \subseteq File /\ sockTouched' \subseteq Net!Wrapper
    BY <1>5 DEF SocketsInductive, Net!TypeOK
  <2>4. Net!Wrapper' = Net!Wrapper
    BY DEF Net!Wrapper
  <2> QED BY <2>1, <2>2, <2>3, <2>4 DEF SocketsInductive, Net!TypeOK, Net!SocketState
<1>7. NumbersAgree'
  BY <1>4 DEF SocketsInductive, NumbersAgree, Net!Wrapper
<1>8. ReadyMeansDone'
  <2>1. ready \subseteq Net!Wrapper
    BY DEF SocketsInductive, Net!TypeOK, Net!Wrapper
  <2> QED BY <1>2, <1>4, <2>1 DEF SocketsInductive, ReadyMeansDone
<1>9. Net!TypeIsTrue'
  <2>1. \A g \in File : g \in Net!Wrapper
    BY DEF Net!Wrapper
  <2> QED BY <1>4, <2>1 DEF SocketsInductive, Net!TypeIsTrue
<1>10. Net!gone' = Net!gone
  BY <1>1, <1>2, <1>4 DEF Net!gone, Net!Wrapper
<1>11. SocketsInductive'
  BY <1>6, <1>7, <1>8, <1>9 DEF SocketsInductive
<1> QED BY <1>5, <1>10, <1>11, NothingCloses

LEMMA FinishStep ==
  ASSUME SocketsInductive, NEW f \in File, Net!connectFinishLoop(f)
  PROVE  SocketsKeep
<1>1. /\ UNCHANGED <<table, number, inKernel, sockHeld, sending, waited, ready>>
      /\ sockTouched' = Net!reach(f) /\ f \in sockHeld /\ type[f] = "connecting"
      /\ type' = [type EXCEPT ![f] = IF Net!SO_ERROR(f) THEN "none" ELSE "connected"]
      /\ Net!reach(f) \subseteq ready
  BY
    DEF Net!connectFinishLoop, Net!Call, Net!linen_socket_connect_finish,
        Net!linen_socket_poll
<1>2. f \in Net!Wrapper
  BY DEF Net!Wrapper
<1>3. Net!reach(f) \subseteq Net!live /\ Net!reach(f) \subseteq Net!Wrapper
  BY <1>2, LiveAndGone
<1>4. Net!TypeOK'
  BY <1>1, <1>2, <1>3 DEF SocketsInductive, Net!TypeOK, Net!Wrapper, Net!SocketState
<1>5. NumbersAgree' /\ ReadyMeansDone'
  BY <1>1 DEF SocketsInductive, NumbersAgree, ReadyMeansDone, Net!Wrapper
<1>6. Net!TypeIsTrue'
  <2> SUFFICES ASSUME NEW g \in sockHeld \cap File, number[g] # -1
               PROVE  \/ type'[g] = inKernel[g]
                      \/ type'[g] = "connecting" /\ inKernel[g] \in {"connected", "failed"}
                      \/ type'[g] = "none" /\ inKernel[g] = "failed"
    BY <1>1 DEF Net!TypeIsTrue
  <2>1. type'[g] = IF g = f THEN IF Net!SO_ERROR(f) THEN "none" ELSE "connected" ELSE type[g]
    BY <1>1 DEF SocketsInductive, Net!TypeOK, Net!Wrapper
  <2>2. CASE g # f
    BY <2>1, <2>2 DEF SocketsInductive, Net!TypeIsTrue
  <2>3. CASE g = f
    <3>1. Net!reach(f) = {f} /\ f \in ready
      BY <1>1, <1>2, <2>3, HeldReach
    <3>2. inKernel[f] \in {"connected", "failed"}
      BY <1>1, <2>3, <3>1 DEF SocketsInductive, Net!TypeIsTrue, ReadyMeansDone
    <3>3. Net!SO_ERROR(f) <=> inKernel[f] = "failed"
      BY <3>1 DEF Net!SO_ERROR
    <3> QED BY <2>1, <2>3, <3>2, <3>3
  <2> QED BY <2>2, <2>3
<1>7. Net!gone' = Net!gone
  BY <1>1 DEF Net!gone, Net!Wrapper
<1>8. SocketsInductive'
  BY <1>4, <1>5, <1>6 DEF SocketsInductive
<1> QED BY <1>1, <1>3, <1>7, <1>8, NothingCloses

LEMMA StateCallStep ==
  ASSUME SocketsInductive, NEW f \in File,
         \/ Net!linen_socket_bind(f) \/ Net!linen_socket_listen(f)
         \/ Net!linen_socket_connect(f) \/ Net!linen_socket_connect_nb(f)
  PROVE  SocketsKeep
<1>1. /\ f \in sockHeld /\ sockTouched' = Net!reach(f)
      /\ UNCHANGED <<table, number, sockHeld, sending, waited>>
      /\ ready' \subseteq ready
  BY DEF Net!linen_socket_bind, Net!linen_socket_listen, Net!linen_socket_connect,
         Net!linen_socket_connect_nb, Net!Call
<1>2. \/ Net!Keeps
      \/ \E s \in {"bound", "listening", "connecting", "connected"} :
           /\ Net!Becomes(f, s)
           /\ s = "connecting" => ready' = ready \ Net!reach(f)
  BY DEF Net!linen_socket_bind, Net!linen_socket_listen, Net!linen_socket_connect,
         Net!linen_socket_connect_nb
<1>3. CASE Net!Keeps
  <2>1. UNCHANGED <<inKernel, type>> /\ waited \in {"nothing", "ready", "unready"}
    BY <1>3 DEF Net!Keeps, SocketsInductive, Net!TypeOK
  <2>2. Net!reach(f) \subseteq Net!live
    BY LiveAndGone DEF Net!Wrapper
  <2> QED BY <1>1, <2>1, <2>2, StatesStay
<1> QED BY <1>1, <1>2, <1>3, BecomesStep

(* A file is opened under the lowest free number. *)
LEMMA NewStep ==
  ASSUME SocketsInductive, NEW w \in Net!Wrapper, NEW s, NEW t, Net!New(w, s, t),
         \/ w \in File /\ s \in {"fresh", "connected"} /\ t = s
         \/ w \in Loop /\ s = "polling" /\ t = "loop",
         sockTouched' \subseteq Net!live \cup {w}
  PROVE  SocketsKeep
<1>0. w # None /\ -1 \notin Numbers
  BY SocketAssumption DEF Net!Wrapper
<1> DEFINE k == Net!Min(Net!free)
<1>1. k \in Numbers /\ table[k] = None
  <2>1. k \in Net!free
    BY SocketAssumption, LowestIsFree DEF Net!New, Net!free
  <2> QED BY <2>1 DEF Net!free
<1> HIDE DEF k
<1>2. /\ inKernel[w] = "none" /\ table' = [table EXCEPT ![k] = w]
      /\ number' = [number EXCEPT ![w] = k] /\ inKernel' = [inKernel EXCEPT ![w] = s]
      /\ sockHeld' = sockHeld \cup {w} /\ type' = [type EXCEPT ![w] = t]
      /\ UNCHANGED <<ready, sending, waited>>
  BY DEF Net!New, k
<1>3. number[w] = -1
  BY <1>2 DEF SocketsInductive, NumbersAgree
<1>4. /\ \A j \in Numbers : table'[j] = IF j = k THEN w ELSE table[j]
      /\ \A v \in Net!Wrapper : /\ number'[v] = IF v = w THEN k ELSE number[v]
                                /\ inKernel'[v] = IF v = w THEN s ELSE inKernel[v]
                                /\ type'[v] = IF v = w THEN t ELSE type[v]
  BY <1>2 DEF SocketsInductive, Net!TypeOK
<1>5. Net!Wrapper' = Net!Wrapper /\ Net!live \subseteq Net!Wrapper
  BY LiveAndGone DEF Net!Wrapper
<1>6. Net!TypeOK'
  BY <1>1, <1>2, <1>5 DEF SocketsInductive, Net!TypeOK, Net!SocketState
<1>7. NumbersAgree'
  <2>1. \A v \in Net!Wrapper : number'[v] # -1 => table'[number'[v]] = v
    <3> SUFFICES ASSUME NEW v \in Net!Wrapper, number'[v] # -1 PROVE table'[number'[v]] = v
      OBVIOUS
    <3>1. CASE v = w
      BY <1>1, <1>4, <3>1
    <3>2. CASE v # w
      <4>1. number'[v] = number[v] /\ number[v] \in Numbers /\ table[number[v]] = v
        BY <1>4, <3>2, HeldReach
      <4>2. v # None
        BY SocketAssumption DEF Net!Wrapper
      <4> QED BY <1>1, <1>4, <4>1, <4>2
    <3> QED BY <3>1, <3>2
  <2>2. \A j \in Numbers : table'[j] # None => number'[table'[j]] = j /\ table'[j] \in sockHeld'
    <3> SUFFICES ASSUME NEW j \in Numbers, table'[j] # None
                 PROVE  number'[table'[j]] = j /\ table'[j] \in sockHeld'
      OBVIOUS
    <3>1. CASE j = k
      BY <1>2, <1>4, <3>1
    <3>2. CASE j # k
      <4>1. /\ table'[j] = table[j] /\ table[j] \in Net!Wrapper
            /\ number[table[j]] = j /\ table[j] \in sockHeld
        BY <1>4, <3>2 DEF SocketsInductive, NumbersAgree, Net!TypeOK
      <4>2. table[j] # w
        BY <1>0, <1>3, <4>1
      <4> QED BY <1>2, <1>4, <4>1, <4>2
    <3> QED BY <3>1, <3>2
  <2>3. \A e \in sending : number'[e[1]] = e[2]
    <3> SUFFICES ASSUME NEW e \in sending PROVE number'[e[1]] = e[2]
      OBVIOUS
    <3>1. e[1] \in Net!Wrapper /\ e[2] \in Numbers /\ number[e[1]] = e[2]
      BY DEF SocketsInductive, NumbersAgree, Net!TypeOK, Net!Wrapper
    <3>2. e[1] # w
      BY <1>0, <1>3, <3>1
    <3> QED BY <1>4, <3>1, <3>2
  <2>4. \A v \in Net!Wrapper : inKernel'[v] \in {"none", "closed"} => number'[v] = -1
    BY <1>4 DEF SocketsInductive, NumbersAgree
  <2> QED BY <1>2, <1>5, <2>1, <2>2, <2>3, <2>4 DEF NumbersAgree
<1>8. ReadyMeansDone'
  <2>1. ready \subseteq Net!Wrapper
    BY DEF SocketsInductive, Net!TypeOK, Net!Wrapper
  <2> QED BY <1>2, <1>4, <2>1 DEF SocketsInductive, ReadyMeansDone
<1>9. Net!TypeIsTrue'
  <2>1. \A g \in File : g \in Net!Wrapper /\ g \notin Loop
    BY SocketAssumption DEF Net!Wrapper
  <2>2. w \in File => s = t
    BY <2>1
  <2> QED BY <1>2, <1>4, <2>1, <2>2 DEF SocketsInductive, Net!TypeIsTrue
<1>10. SocketsInductive'
  BY <1>6, <1>7, <1>8, <1>9 DEF SocketsInductive
<1>11. Net!live' = Net!live \cup {w}
  <2>1. ASSUME NEW v \in Net!Wrapper PROVE v \in Net!live' <=> v \in Net!live \cup {w}
    <3>1. v # None
      BY SocketAssumption DEF Net!Wrapper
    <3>2. \A j \in Numbers : table[j] = v => table'[j] = v
      BY <1>1, <1>4, <3>1
    <3> QED BY <1>1, <1>4, <1>5, <3>2 DEF Net!live
  <2> QED BY <1>5, <2>1 DEF Net!live
<1>12. Net!gone' = Net!gone /\ w \notin Net!gone
  BY <1>2, <1>4, <1>5 DEF Net!gone
<1> HIDE DEF Net!live, Net!gone, SocketsInductive
<1> QED BY <1>10, <1>11, <1>12, LiveAndGone DEF SocketsKeep, Net!Contract!Call

(* close(2), which does not fail: the number is forgotten. *)
LEMMA ReleaseStep ==
  ASSUME SocketsInductive, NEW w \in Net!Wrapper, Net!Release(w, FALSE),
         \A s \in sending : s[1] # w,
         \/ w \in sockHeld /\ UNCHANGED sockHeld /\ type' = [type EXCEPT ![w] = "closed"]
         \/ sockHeld' = sockHeld \ {w} /\ UNCHANGED type
  PROVE  SocketsKeep
<1>0. w # None /\ -1 \notin Numbers
  BY SocketAssumption DEF Net!Wrapper
<1>1. /\ sockTouched' = Net!reach(w)
      /\ table' = [k \in Numbers |-> IF k = number[w] THEN None ELSE table[k]]
      /\ inKernel' = [v \in Net!Wrapper |-> IF v \in Net!reach(w) THEN "closed" ELSE inKernel[v]]
      /\ ready' = ready \ Net!reach(w)
      /\ number' = [number EXCEPT ![w] = -1]
      /\ UNCHANGED <<sending, waited>>
  BY DEF Net!Release
<1>2. Net!reach(w) = IF number[w] = -1 THEN {} ELSE {w}
  BY HeldReach
<1>3. /\ \A j \in Numbers : table'[j] = IF j = number[w] THEN None ELSE table[j]
      /\ \A v \in Net!Wrapper :
           /\ number'[v] = IF v = w THEN -1 ELSE number[v]
           /\ inKernel'[v] = IF v = w /\ number[w] # -1 THEN "closed" ELSE inKernel[v]
           /\ v # w => type'[v] = type[v]
  BY <1>1, <1>2 DEF SocketsInductive, Net!TypeOK
<1>4. Net!Wrapper' = Net!Wrapper /\ Net!reach(w) \subseteq Net!Wrapper
  BY <1>2 DEF Net!Wrapper
<1>5. Net!TypeOK'
  <2>1. table' \in [Numbers -> Net!Wrapper \cup {None}]
    BY <1>1 DEF SocketsInductive, Net!TypeOK
  <2>2. inKernel' \in [Net!Wrapper -> Net!SocketState \cup {"none", "failed", "polling"}]
    BY <1>1 DEF SocketsInductive, Net!TypeOK, Net!SocketState
  <2>3. number' \in [Net!Wrapper -> Numbers \cup {-1}]
    BY <1>1 DEF SocketsInductive, Net!TypeOK
  <2>4. type' \in [Net!Wrapper -> Net!SocketState \cup {"none", "loop"}]
    BY DEF SocketsInductive, Net!TypeOK, Net!SocketState
  <2> QED BY <1>1, <1>4, <2>1, <2>2, <2>3, <2>4
    DEF SocketsInductive, Net!TypeOK, Net!SocketState
<1>6. NumbersAgree'
  <2>1. \A v \in Net!Wrapper : number'[v] # -1 => table'[number'[v]] = v
    <3> SUFFICES ASSUME NEW v \in Net!Wrapper, number'[v] # -1 PROVE table'[number'[v]] = v
      OBVIOUS
    <3>1. v # w /\ number'[v] = number[v] /\ number[v] \in Numbers /\ table[number[v]] = v
      BY <1>3, HeldReach
    <3>2. number[v] # number[w]
      BY <3>1, <1>0, HeldReach
    <3> QED BY <1>3, <3>1, <3>2
  <2>2. \A j \in Numbers : table'[j] # None => number'[table'[j]] = j /\ table'[j] \in sockHeld'
    <3> SUFFICES ASSUME NEW j \in Numbers, table'[j] # None
                 PROVE  number'[table'[j]] = j /\ table'[j] \in sockHeld'
      OBVIOUS
    <3>1. /\ j # number[w] /\ table'[j] = table[j] /\ table[j] \in Net!Wrapper
          /\ number[table[j]] = j /\ table[j] \in sockHeld
      BY <1>3 DEF SocketsInductive, NumbersAgree, Net!TypeOK
    <3> QED BY <1>3, <3>1
  <2>3. \A e \in sending : number'[e[1]] = e[2]
    BY <1>3 DEF SocketsInductive, NumbersAgree, Net!TypeOK, Net!Wrapper
  <2>4. \A v \in Net!Wrapper : inKernel'[v] \in {"none", "closed"} => number'[v] = -1
    BY <1>3 DEF SocketsInductive, NumbersAgree
  <2> QED BY <1>1, <1>4, <2>1, <2>2, <2>3, <2>4 DEF NumbersAgree
<1>7. ReadyMeansDone'
  <2>1. ready \subseteq Net!Wrapper
    BY DEF SocketsInductive, Net!TypeOK, Net!Wrapper
  <2> QED BY <1>1, <1>3, <2>1 DEF SocketsInductive, ReadyMeansDone
<1>8. Net!TypeIsTrue'
  <2>1. \A g \in File : g \in Net!Wrapper
    BY DEF Net!Wrapper
  <2> QED BY <1>3, <2>1 DEF SocketsInductive, Net!TypeIsTrue
<1>9. SocketsInductive'
  BY <1>5, <1>6, <1>7, <1>8 DEF SocketsInductive
<1>10. Net!live' = Net!live \ {w}
  <2>1. ASSUME NEW v \in Net!Wrapper PROVE v \in Net!live' <=> v \in Net!live /\ v # w
    <3>1. v \in Net!live' => v \in Net!live /\ number'[v] # -1
      <4> SUFFICES ASSUME NEW k \in Numbers, table'[k] = v
                   PROVE  table[k] = v /\ number'[v] # -1
        BY DEF Net!live
      <4>1. v # None
        BY SocketAssumption DEF Net!Wrapper
      <4>2. number'[v] = k
        BY <1>6, <4>1 DEF NumbersAgree
      <4> QED BY <1>0, <1>3, <4>1, <4>2
    <3>2. v \in Net!live => number[v] # -1 /\ v = table[number[v]] /\ number[v] \in Numbers
      BY LiveAndGone, HeldReach
    <3>3. ASSUME v \in Net!live, v # w PROVE v \in Net!live'
      <4>1. number[v] # number[w]
        BY <1>0, <3>2, <3>3, HeldReach
      <4> QED BY <1>3, <1>4, <3>2, <3>3, <4>1 DEF Net!live
    <3> QED BY <1>3, <3>1, <3>3
  <2> QED BY <1>4, <2>1 DEF Net!live
<1>11. Net!gone' = Net!gone \cup Net!reach(w)
  BY <1>2, <1>3, <1>4 DEF Net!gone
<1> HIDE DEF Net!live, Net!gone, SocketsInductive
<1> QED BY <1>1, <1>2, <1>9, <1>10, <1>11, LiveAndGone
  DEF SocketsKeep, Net!Contract!Call

LEMMA CloseStep ==
  ASSUME SocketsInductive, ~CloseFails, NEW w \in Net!Wrapper, Net!Close(w) \/ Net!Finalize(w)
  PROVE  SocketsKeep
<1>1. CASE Net!Close(w)
  <2>1. /\ w \in sockHeld /\ \A s \in sending : s[1] # w
        /\ Net!Release(w, FALSE) /\ type' = [type EXCEPT ![w] = "closed"]
        /\ UNCHANGED sockHeld
    BY <1>1 DEF Net!Close
  <2> QED BY <2>1, ReleaseStep
<1>2. CASE Net!Finalize(w)
  <2>1. /\ \A s \in sending : s[1] # w
        /\ Net!Release(w, FALSE) /\ sockHeld' = sockHeld \ {w} /\ UNCHANGED type
    BY <1>2 DEF Net!Finalize
  <2> QED BY <2>1, ReleaseStep
<1> QED BY <1>1, <1>2

LEMMA OpenStep ==
  ASSUME SocketsInductive, NEW w \in Net!Wrapper,
         \/ w \in File /\ Net!linen_socket_create(w)
         \/ w \in File /\ \E f \in File : Net!linen_socket_accept(f, w)
         \/ w \in Loop /\ Net!linen_event_loop_create(w)
  PROVE  SocketsKeep
<1>1. CASE w \in File /\ Net!linen_socket_create(w)
  <2>1. Net!New(w, "fresh", "fresh") /\ sockTouched' = {w}
    BY <1>1 DEF Net!linen_socket_create
  <2> QED BY <1>1, <2>1, NewStep
<1>2. ASSUME w \in File, NEW f \in File, Net!linen_socket_accept(f, w)
      PROVE  SocketsKeep
  <2>1. Net!New(w, "connected", "connected") /\ sockTouched' = Net!reach(f) \cup {w}
    BY <1>2 DEF Net!linen_socket_accept
  <2>2. Net!reach(f) \subseteq Net!live
    BY LiveAndGone DEF Net!Wrapper
  <2> QED BY <1>2, <2>1, <2>2, NewStep
<1>3. CASE w \in Loop /\ Net!linen_event_loop_create(w)
  <2>1. Net!New(w, "polling", "loop") /\ sockTouched' = {w}
    BY <1>3 DEF Net!linen_event_loop_create
  <2> QED BY <1>3, <2>1, NewStep
<1> QED BY <1>1, <1>2, <1>3

LEMMA SocketsNextStep ==
  ASSUME SocketsInductive, ~CloseFails, Net!Next
  PROVE  SocketsKeep
<1>1. \A w : w \in File \/ w \in Loop <=> w \in Net!Wrapper
  BY DEF Net!Wrapper
<1>2. CASE Net!World \/ Net!SendMore
  BY <1>2, WorldStep, SendMoreStep
<1>3. ASSUME NEW f \in File,
             \/ Net!linen_socket_create(f) \/ \E g \in File : Net!linen_socket_accept(f, g)
      PROVE  SocketsKeep
  BY <1>1, <1>3, OpenStep
<1>4. ASSUME NEW f \in File,
             \/ Net!linen_socket_bind(f) \/ Net!linen_socket_listen(f)
             \/ Net!linen_socket_connect(f) \/ Net!linen_socket_connect_nb(f)
      PROVE  SocketsKeep
  BY <1>4, StateCallStep
<1>5. ASSUME NEW f \in File,
             \/ Net!linen_socket_accept_nb(f) \/ \E t \in Deadlines : Net!waitReady(f, t)
             \/ Net!Transfer(f) \/ Net!linen_socket_send_nb(f) \/ Net!linen_socket_recv_nb(f)
             \/ Net!linen_socket_peek_nb(f) \/ Net!linen_socket_shutdown(f)
             \/ Net!Option(f) \/ Net!Address(f)
      PROVE  SocketsKeep
  <2>1. Net!linen_socket_accept_nb(f) \/ Net!Transfer(f) \/ Net!Option(f)
          \/ \E t \in Deadlines : Net!waitReady(f, t)
    BY <1>5
      DEF Net!linen_socket_send_nb, Net!linen_socket_recv_nb, Net!linen_socket_peek_nb,
                Net!linen_socket_shutdown, Net!Address
  <2> QED BY <2>1, QuietCallStep
<1>6. ASSUME NEW f \in File,
             Net!connectFinishLoop(f) \/ Net!linen_socket_sendall(f)
      PROVE  SocketsKeep
  BY <1>6, FinishStep, SendallStep
<1>7. ASSUME NEW f \in File,
             Net!linen_socket_close(f) \/ Net!linen_socket_finalizer(f)
      PROVE  SocketsKeep
  BY <1>1, <1>7, CloseStep DEF Net!linen_socket_close, Net!linen_socket_finalizer
<1>8. ASSUME NEW l \in Loop, Net!linen_event_loop_create(l)
      PROVE  SocketsKeep
  BY <1>1, <1>8, OpenStep
<1>9. ASSUME NEW l \in Loop,
             \/ Net!linen_event_loop_wait(l)
             \/ \E f \in File : Net!linen_event_loop_add(l, f) \/ Net!linen_event_loop_del(l, f)
      PROVE  SocketsKeep
  BY <1>1, <1>9, LoopCallStep
  DEF Net!linen_event_loop_add, Net!linen_event_loop_del, Net!linen_event_loop_wait
<1>10. ASSUME NEW l \in Loop,
              Net!linen_event_loop_close(l) \/ Net!linen_event_loop_finalizer(l)
       PROVE  SocketsKeep
  BY <1>1, <1>10, CloseStep
    DEF Net!linen_event_loop_close, Net!linen_event_loop_finalizer
<1> QED BY <1>2, <1>3, <1>4, <1>5, <1>6, <1>7, <1>8, <1>9, <1>10 DEF Net!Next

LEMMA OwnFileFollows ==
  ASSUME SocketsInductive
  PROVE  SocketsAreTheirOwn
<1>1. \A w \in sockHeld : number[w] # -1 => Net!reach(w) = {w}
  BY HeldReach DEF SocketsInductive, Net!TypeOK
<1>2. ASSUME NEW s \in sending PROVE Net!at(s[2]) = {s[1]}
  <2>1. s[1] \in Net!Wrapper /\ s[2] \in Numbers /\ number[s[1]] = s[2] /\ -1 \notin Numbers
    BY SocketAssumption DEF SocketsInductive, NumbersAgree, Net!TypeOK, Net!Wrapper
  <2>2. Net!reach(s[1]) = {s[1]}
    BY <2>1, HeldReach
  <2> QED BY <2>1, <2>2 DEF Net!reach
<1>3. Net!live \subseteq sockHeld
  BY LiveAndGone, HeldReach
<1> QED BY <1>1, <1>2, <1>3 DEF SocketsAreTheirOwn, SocketsInductive, Net!OwnFile

LEMMA SocketsStutter ==
  ASSUME UNCHANGED Net!vars
  PROVE  /\ SocketsInductive => SocketsInductive'
         /\ UNCHANGED Net!Contract!vars
<1> USE DEF Net!vars
<1>1. Net!TypeOK => Net!TypeOK'
  BY DEF Net!TypeOK, Net!Wrapper, Net!SocketState
<1>2. NumbersAgree /\ ReadyMeansDone /\ Net!TypeIsTrue
        => NumbersAgree' /\ ReadyMeansDone' /\ Net!TypeIsTrue'
  BY DEF NumbersAgree, ReadyMeansDone, Net!TypeIsTrue, Net!Wrapper
<1>3. UNCHANGED Net!Contract!vars
  BY DEF Net!Contract!vars, Net!live, Net!gone, Net!Wrapper
<1> QED BY <1>1, <1>2, <1>3 DEF SocketsInductive

(* SocketsAreTheirOwn: whatever the order of opening, accepting, connecting,*)
(* sending, closing and dropping, and however the kernel reuses numbers, no *)
(* wrapper and no send under way reaches another's file, no file is left    *)
(* open without a wrapper, and a socket typed as connected is connected.    *)
(* It needs that close(2) does not fail.                                    *)
THEOREM SocketsReachTheirOwn ==
  ASSUME ~CloseFails
  PROVE  Net!Spec => []SocketsAreTheirOwn
<1>1. SocketsInductive /\ [Net!Next]_(Net!vars) => SocketsInductive'
  BY SocketsNextStep, SocketsStutter DEF SocketsKeep
<1> QED BY <1>1, SocketsInitHolds, OwnFileFollows, PTL DEF Net!Spec

(* Sockets!KeepsContract: no descriptor is closed twice, or used after it   *)
(* was closed, in the sense that counts: under its number there is by then  *)
(* another's file.                                                          *)
THEOREM SocketsImplementContract ==
  ASSUME ~CloseFails
  PROVE  Net!Spec => Net!KeepsContract
<1>1. Net!Init => SocketsInductive /\ Net!Contract!Init
  <2>1. Net!Init => Net!live = {} /\ Net!gone = {} /\ sockTouched = {}
    BY SocketAssumption DEF Net!Init, Net!live, Net!gone, Net!Wrapper
  <2> QED BY <2>1, SocketsInitHolds DEF Net!Contract!Init
<1>2. SocketsInductive /\ [Net!Next]_(Net!vars) => SocketsInductive'
  BY SocketsNextStep, SocketsStutter DEF SocketsKeep
<1>3. SocketsInductive /\ [Net!Next]_(Net!vars) => [Net!Contract!Call]_(Net!vars)
  BY SocketsNextStep DEF SocketsKeep
<1>4. UNCHANGED Net!vars => UNCHANGED Net!Contract!vars
  BY SocketsStutter
<1>5. [Net!Contract!Call]_(Net!vars) => [Net!Contract!Call]_(Net!Contract!vars)
  BY <1>4
<1> QED BY <1>1, <1>2, <1>3, <1>5, PTL
  DEF Net!Spec, Net!KeepsContract, Net!Contract!Spec

-----------------------------------------------------------------------------
(****************************************************************************)
(* zlib streams, for any input and chunk size, and any output zlib.h lets   *)
(* zlib produce.                                                            *)
(****************************************************************************)

(* While a call runs, and while a handle in use may still make one, zlib    *)
(* has the stream; the program has a handle only of a stream created.       *)
OpenWhileUsed ==
  /\ stream \in {"none", "open", "gone"}
  /\ zCall # "none" => stream = "open"
  /\ zHeld /\ ~finished => stream = "open"
  /\ stream = "none" => ~zHeld /\ zCall = "none"

ZlibKeeps == OpenWhileUsed' /\ Zlib!Contract!Call

LEMMA ZlibCreateStep ==
  ASSUME OpenWhileUsed, NEW k, Zlib!Create(k)
  PROVE  ZlibKeeps
<1>1. OpenWhileUsed'
  BY DEF OpenWhileUsed, Zlib!Create
<1>2. Zlib!Contract!Call
  BY DEF OpenWhileUsed, Zlib!Create, Zlib!Contract!Call, Zlib!live, Zlib!gone
<1> QED BY <1>1, <1>2 DEF ZlibKeeps

LEMMA ZlibEnterStep ==
  ASSUME OpenWhileUsed, NEW k, Zlib!Feed(k) \/ Zlib!Finish(k)
  PROVE  ZlibKeeps
<1>1. /\ zHeld /\ ~finished /\ stream = "open" /\ zTouched' = FALSE
      /\ UNCHANGED <<stream, zHeld, finished>>
  BY DEF OpenWhileUsed, Zlib!Feed, Zlib!Finish, Zlib!Enter
<1>2. OpenWhileUsed'
  BY <1>1 DEF OpenWhileUsed
<1>3. Zlib!Contract!Call
  BY <1>1 DEF Zlib!Contract!Call, Zlib!live, Zlib!gone
<1> QED BY <1>2, <1>3 DEF ZlibKeeps

(* Whatever zlib returned, and whether the loop goes on, a call that runs   *)
(* has an open stream, and only a finishing call ends it.                   *)
LEMMA ZlibTurnStep ==
  ASSUME OpenWhileUsed, Zlib!linen_zlib_drive \/ Zlib!linen_zlib_drive_deflate
  PROVE  ZlibKeeps
<1>1. zCall # "none" /\ stream = "open" /\ zTouched' = TRUE /\ UNCHANGED zHeld
  BY DEF OpenWhileUsed, Zlib!linen_zlib_drive, Zlib!linen_zlib_drive_deflate, Zlib!Turn
<1>2. \/ \E out, ended : Zlib!Return(out, ended)
      \/ \E out : Zlib!Continue(out)
  BY DEF Zlib!linen_zlib_drive, Zlib!linen_zlib_drive_deflate, Zlib!Turn
<1>3. OpenWhileUsed' /\ stream' \in {"open", "gone"}
  BY <1>1, <1>2 DEF OpenWhileUsed, Zlib!Return, Zlib!Continue
<1>4. Zlib!Contract!Call
  BY <1>1, <1>3 DEF Zlib!Contract!Call, Zlib!live, Zlib!gone
<1> QED BY <1>3, <1>4 DEF ZlibKeeps

LEMMA ZlibFinalizeStep ==
  ASSUME OpenWhileUsed, NEW k, Zlib!Finalize(k)
  PROVE  ZlibKeeps
<1>1. OpenWhileUsed'
  BY DEF OpenWhileUsed, Zlib!Finalize
<1>2. Zlib!Contract!Call
  BY DEF OpenWhileUsed, Zlib!Finalize, Zlib!Contract!Call, Zlib!live, Zlib!gone
<1> QED BY <1>1, <1>2 DEF ZlibKeeps

LEMMA ZlibNextCases ==
  ASSUME Zlib!Next
  PROVE  \/ \E k \in {"inflate", "deflate"} :
              Zlib!Create(k) \/ Zlib!Feed(k) \/ Zlib!Finish(k) \/ Zlib!Finalize(k)
         \/ Zlib!linen_zlib_drive \/ Zlib!linen_zlib_drive_deflate
BY DEF Zlib!Next, Zlib!linen_zlib_inflate_init, Zlib!linen_zlib_inflate_feed,
       Zlib!linen_zlib_inflate_finish, Zlib!linen_zlib_deflate_init,
       Zlib!linen_zlib_deflate_feed, Zlib!linen_zlib_deflate_finish,
       Zlib!linen_zlib_inflate_finalizer, Zlib!linen_zlib_deflate_finalizer

(* ZlibStream!KeepsContract: no call of zlib.c, and no finalizer, is made   *)
(* on a z_stream that was ended, whatever the order of feeding, finishing   *)
(* and dropping, and however the loop of a call ends.                       *)
THEOREM ZlibImplementsContract == Zlib!Spec => Zlib!KeepsContract
<1>1. Zlib!Init => OpenWhileUsed /\ Zlib!Contract!Init
  BY DEF Zlib!Init, OpenWhileUsed, Zlib!Contract!Init, Zlib!live, Zlib!gone
<1>2. OpenWhileUsed /\ Zlib!Next => ZlibKeeps
  BY ZlibNextCases, ZlibCreateStep, ZlibEnterStep, ZlibTurnStep, ZlibFinalizeStep
<1>3. OpenWhileUsed /\ [Zlib!Next]_(Zlib!vars) => OpenWhileUsed'
  <2>1. OpenWhileUsed /\ UNCHANGED Zlib!vars => OpenWhileUsed'
    BY DEF Zlib!vars, OpenWhileUsed
  <2> QED BY <1>2, <2>1 DEF ZlibKeeps
<1>4. OpenWhileUsed /\ [Zlib!Next]_(Zlib!vars) => [Zlib!Contract!Call]_(Zlib!vars)
  BY <1>2 DEF ZlibKeeps
<1>5. UNCHANGED Zlib!vars => UNCHANGED Zlib!Contract!vars
  BY DEF Zlib!vars, Zlib!Contract!vars, Zlib!live, Zlib!gone
<1>6. [Zlib!Contract!Call]_(Zlib!vars) => [Zlib!Contract!Call]_(Zlib!Contract!vars)
  BY <1>5
<1> QED BY <1>1, <1>3, <1>4, <1>6, PTL
  DEF Zlib!Spec, Zlib!KeepsContract, Zlib!Contract!Spec

LEMMA WorthIsSum == \A s : Zlib!worth(s) = SumFunctionOnSet(s, DOMAIN s)
BY
  DEF Zlib!worth, Zlib!FoldSeq, Zlib!FoldFunction, Zlib!FoldFunctionOnSet,
      Zlib!MapThenFoldSet,
       SumFunctionOnSet, FoldFunctionOnSet, MapThenFoldSet

LEMMA WorthType ==
  /\ \A s \in Seq(Nat) : Zlib!worth(s) \in Nat
  /\ Zlib!worth(<<>>) = 0
<1>1. ASSUME NEW s \in Seq(Nat) PROVE Zlib!worth(s) \in Nat
  <2>1. DOMAIN s = 1..Len(s) /\ Len(s) \in Nat /\ \A i \in DOMAIN s : s[i] \in Nat
    OBVIOUS
  <2>2. IsFiniteSet(DOMAIN s)
    BY <2>1, FS_Interval
  <2>3. SumFunctionOnSet(s, DOMAIN s) \in Nat
    BY <2>1, <2>2, SumNat
  <2> QED BY <2>3, WorthIsSum
<1>2. Zlib!worth(<<>>) = 0
  <2>1. DOMAIN <<>> = {}
    OBVIOUS
  <2> QED BY <2>1, WorthIsSum, SumEmpty
<1> QED BY <1>1, <1>2

(* What precedes the first corrupt stretch or trailer is output.            *)
LEMMA PayloadType ==
  ASSUME next_in \in Seq(Nat \cup {Bad, End})
  PROVE  /\ Zlib!payload \in Seq(Nat) /\ Len(Zlib!payload) <= Len(next_in)
         /\ Zlib!plain # 0 => Zlib!plain \in 1..Len(next_in) /\ Len(Zlib!payload) < Len(next_in)
         /\ Zlib!plain = 0 => Zlib!payload = next_in
         /\ \A t \in 0..Len(Zlib!payload) : SubSeq(Zlib!payload, 1, t) = SubSeq(next_in, 1, t)
<1> DEFINE I == {i \in 1..Len(next_in) : next_in[i] \in {Bad, End}}
<1>1. Zlib!plain = IF I # {} THEN Zlib!Min(I) ELSE 0
  BY DEF Zlib!plain, Zlib!SelectInSeq
<1>2. I # {} => Zlib!Min(I) \in I /\ \A i \in I : Zlib!Min(I) <= i
  <2>1. I \in SUBSET Nat
    OBVIOUS
  <2> HIDE DEF I
  <2>2. I # {} => \E k \in I : \A m \in I : k <= m
    BY <2>1, LeastMember
  <2> QED BY <2>2 DEF Zlib!Min
<1>3. CASE I = {}
  <2>1. Zlib!plain = 0 /\ Zlib!payload = next_in
    BY <1>1, <1>3 DEF Zlib!payload
  <2>2. \A i \in 1..Len(next_in) : next_in[i] \in Nat
    BY <1>3
  <2> QED BY <2>1, <2>2
<1>4. CASE I # {}
  <2> DEFINE p == Zlib!plain
  <2>1. p \in I /\ \A i \in I : p <= i
    BY <1>1, <1>2, <1>4
  <2>2. p \in 1..Len(next_in) /\ p # 0 /\ Zlib!payload = SubSeq(next_in, 1, p - 1)
    BY <2>1 DEF Zlib!payload
  <2> HIDE DEF p
  <2>3. \A i \in 1..(p - 1) : next_in[i] \in Nat
    BY <2>1, <2>2
  <2>4. Len(Zlib!payload) = p - 1 /\ Zlib!payload \in Seq(Nat)
    BY <2>2, <2>3
  <2>5. \A t \in 0..(p - 1) : SubSeq(Zlib!payload, 1, t) = SubSeq(next_in, 1, t)
    BY <2>2
  <2> QED BY <2>2, <2>4, <2>5 DEF p
<1> QED BY <1>3, <1>4

(* The books of a stream that has not failed: what the input was worth is   *)
(* what the program has received, what waits in the output of the call, and *)
(* what zlib still owes.  Between two calls zlib owes nothing of what       *)
(* inflate took, so a finishing call has nothing to do but to end.          *)
ZlibInductive ==
  /\ Zlib!TypeOK
  /\ kind = "deflate" => zWire \in Seq(Nat) /\ next_in \in Seq(Nat)
  /\ zCall = "none" => out_buf = 0
  /\ zCall # "none" => ~finished
  /\ ~zFailed =>
       /\ delivered + out_buf + inside = due
       /\ zCall = "none" => /\ finished \/ next_in = <<>>
                            /\ kind = "inflate" \/ finished => inside = 0
       /\ kind = "inflate" /\ zCall = "finish" => inside = 0 /\ next_in = <<>>

LEMMA ZlibInitHolds == Zlib!Init => ZlibInductive
<1> SUFFICES ASSUME Zlib!Init PROVE ZlibInductive
  OBVIOUS
<1>1. zWire \in Seq(Nat \cup {Bad, End})
  BY ZlibAssumption DEF Zlib!Init
<1>2. kind = "deflate" => zWire \in Seq(Nat)
  <2> SUFFICES ASSUME kind = "deflate" PROVE zWire \in Seq(Nat)
    OBVIOUS
  <2>1. {Bad, End} \cap Zlib!Range(zWire) = {}
    BY DEF Zlib!Init, Zlib!Compressed
  <2>2. \A i \in 1..Len(zWire) : zWire[i] \in Nat
    BY <1>1, <2>1 DEF Zlib!Range
  <2> QED BY <1>1, <2>2
<1>3. <<>> \in Seq(Nat) /\ <<>> \in Seq(Nat \cup {Bad, End})
  OBVIOUS
<1>4. Zlib!TypeOK
  BY <1>1, <1>3 DEF Zlib!Init, Zlib!TypeOK
<1> QED BY <1>2, <1>3, <1>4 DEF Zlib!Init, ZlibInductive

(* What a call of inflate says of its result: unless the output is full it  *)
(* owes nothing, nor at the end of the stream. *)
LEMMA InflateResult ==
  ASSUME ZlibInductive, NEW flush, flush \in {"Z_FINISH", "Z_NO_FLUSH"}, NEW r \in Zlib!inflate(flush)
  PROVE  /\ r.taken \in 0..Len(next_in) /\ r.produced \in Nat
         /\ Zlib!worth(SubSeq(next_in, 1, r.taken)) \in Nat
         /\ LET has == inside + Zlib!worth(SubSeq(next_in, 1, r.taken))
            IN  /\ r.produced <= has
                /\ r.ret = "Z_STREAM_END" => r.produced = has
                /\ r.produced # LINEN_ZLIB_CHUNK => r.produced = has
                /\ r.ret = "Z_BUF_ERROR" /\ flush = "Z_NO_FLUSH" => r.produced = 0
                /\ inside = 0 /\ next_in = <<>> =>
                     r.taken = 0 /\ has = 0 /\ (flush = "Z_FINISH" => r.ret = "Z_BUF_ERROR")
<1> DEFINE p == Zlib!payload
           enough == {t \in 0..Len(p) : inside + Zlib!worth(SubSeq(p, 1, t)) > LINEN_ZLIB_CHUNK}
           t == IF enough = {} THEN Len(p) ELSE CHOOSE m \in enough : \A k \in enough : m <= k
           made == Zlib!least(LINEN_ZLIB_CHUNK, inside + Zlib!worth(SubSeq(p, 1, t)))
           marker == IF enough = {} /\ Zlib!plain # 0 THEN next_in[Zlib!plain] ELSE 0
<1>1. r = [taken |-> t, produced |-> made,
           ret |-> CASE marker = End -> "Z_STREAM_END"
                     [] marker = Bad -> "Z_DATA_ERROR"
                     [] OTHER -> IF flush = "Z_FINISH" \/ (t = 0 /\ made = 0)
                                 THEN "Z_BUF_ERROR" ELSE "Z_OK"]
  BY DEF Zlib!inflate
<1>2. /\ next_in \in Seq(Nat \cup {Bad, End}) /\ inside \in Nat /\ LINEN_ZLIB_CHUNK \in Nat \ {0}
      /\ End \notin Nat
  BY ZlibAssumption DEF ZlibInductive, Zlib!TypeOK
<1>3. /\ p \in Seq(Nat) /\ Len(p) <= Len(next_in)
      /\ \A k \in 0..Len(p) : SubSeq(p, 1, k) = SubSeq(next_in, 1, k)
      /\ Zlib!plain = 0 => p = next_in
  BY <1>2, PayloadType
<1> HIDE DEF p
<1>4. \A k \in 0..Len(p) : Zlib!worth(SubSeq(p, 1, k)) \in Nat
  <2>1. \A k \in 0..Len(p) : SubSeq(p, 1, k) \in Seq(Nat)
    BY <1>3
  <2> QED BY <2>1, WorthType
<1>5. enough # {} => \E m \in enough : \A k \in enough : m <= k
  <2>1. enough \in SUBSET Nat
    BY <1>3
  <2> HIDE DEF enough
  <2> QED BY <2>1, LeastMember
<1>6. t \in 0..Len(p) /\ (enough = {} => t = Len(p))
  <2>1. Len(p) \in 0..Len(p) /\ enough \subseteq 0..Len(p)
    BY <1>3
  <2> HIDE DEF enough
  <2> QED BY <1>5, <2>1
<1> HIDE DEF t
<1>7. enough = {} => ~(inside + Zlib!worth(SubSeq(p, 1, t)) > LINEN_ZLIB_CHUNK)
  BY <1>6
<1> DEFINE has == inside + Zlib!worth(SubSeq(p, 1, t))
<1>8. has \in Nat /\ SubSeq(p, 1, t) = SubSeq(next_in, 1, t) /\ Zlib!worth(SubSeq(p, 1, t)) \in Nat
  BY <1>2, <1>3, <1>4, <1>6
<1>9. /\ made \in Nat /\ made <= has /\ (made # LINEN_ZLIB_CHUNK => made = has)
      /\ (enough = {} => made = has) /\ (made = 0 => has = 0)
  BY <1>2, <1>7, <1>8 DEF Zlib!least
<1>10. marker = End => enough = {}
  BY <1>2
<1> HIDE DEF enough
<1>11. r.taken = t /\ r.produced = made
  BY <1>1
<1>12. r.ret = "Z_STREAM_END" => marker = End
  BY <1>1
<1>13. r.ret = "Z_BUF_ERROR" /\ flush = "Z_NO_FLUSH" => made = 0
  BY <1>1
<1>14. ASSUME inside = 0, next_in = <<>>
       PROVE  t = 0 /\ has = 0 /\ (flush = "Z_FINISH" => r.ret = "Z_BUF_ERROR")
  <2>1. t = 0
    BY <1>3, <1>6, <1>14
  <2>2. SubSeq(p, 1, t) = <<>>
    BY <1>3, <2>1
  <2>3. has = 0
    <3>1. Zlib!worth(SubSeq(p, 1, t)) = 0
      BY <2>2, WorthType, Zenon
    <3> QED BY <1>14, <3>1
  <2>4. Zlib!plain = 0
    BY <1>2, <1>14, PayloadType
  <2>5. marker = 0
    BY <2>4
  <2>6. marker # End /\ marker # Bad
    BY <2>5, ZlibAssumption
  <2> HIDE DEF marker
  <2> QED BY <1>1, <2>1, <2>3, <2>6
<1> DEFINE owed == Zlib!worth(SubSeq(next_in, 1, r.taken))
<1>15. owed \in Nat /\ has = inside + owed
  <2>1. Zlib!worth(SubSeq(p, 1, t)) = owed
    BY <1>8, <1>11, Zenon
  <2> QED BY <1>8, <2>1
<1> HIDE DEF marker, made, has, owed
<1>16. r.taken \in 0..Len(next_in)
  BY <1>2, <1>3, <1>6, <1>11
<1> SUFFICES /\ r.taken \in 0..Len(next_in) /\ r.produced \in Nat /\ owed \in Nat
             /\ r.produced <= has
             /\ r.ret = "Z_STREAM_END" => r.produced = has
             /\ r.produced # LINEN_ZLIB_CHUNK => r.produced = has
             /\ r.ret = "Z_BUF_ERROR" /\ flush = "Z_NO_FLUSH" => r.produced = 0
             /\ inside = 0 /\ next_in = <<>> =>
                  r.taken = 0 /\ has = 0 /\ (flush = "Z_FINISH" => r.ret = "Z_BUF_ERROR")
  BY <1>15 DEF owed
<1> QED BY <1>9, <1>10, <1>11, <1>12, <1>13, <1>14, <1>15, <1>16

LEMMA DeflateResult ==
  ASSUME ZlibInductive, kind = "deflate", NEW flush, NEW r \in Zlib!deflate(flush)
  PROVE  /\ r.taken \in 0..Len(next_in) /\ r.produced \in Nat
         /\ Zlib!worth(SubSeq(next_in, 1, r.taken)) \in Nat
         /\ LET has == inside + Zlib!worth(SubSeq(next_in, 1, r.taken))
            IN  /\ r.produced <= has
                /\ r.ret = "Z_STREAM_END" => flush = "Z_FINISH" /\ r.produced = has
                /\ flush = "Z_FINISH" /\ r.produced # LINEN_ZLIB_CHUNK => r.ret = "Z_STREAM_END"
<1> DEFINE owed == Zlib!worth(SubSeq(next_in, 1, r.taken))
           has == inside + owed
<1>1. /\ r.taken \in 0..Len(next_in) /\ r.produced \in 0..LINEN_ZLIB_CHUNK
      /\ r.produced <= has
      /\ flush = "Z_FINISH" => r.produced = Zlib!least(LINEN_ZLIB_CHUNK, has)
      /\ r.ret = IF flush = "Z_FINISH" /\ r.produced = has THEN "Z_STREAM_END"
                 ELSE IF next_in = <<>> /\ r.produced = 0 THEN "Z_BUF_ERROR"
                 ELSE "Z_OK"
  BY DEF Zlib!deflate
<1>2. owed \in Nat
  <2>1. next_in \in Seq(Nat)
    BY DEF ZlibInductive
  <2>2. SubSeq(next_in, 1, r.taken) \in Seq(Nat)
    BY <1>1, <2>1
  <2> QED BY <2>2, WorthType
<1>3. LINEN_ZLIB_CHUNK \in Nat /\ inside \in Nat
  BY ZlibAssumption DEF ZlibInductive, Zlib!TypeOK
<1> HIDE DEF owed
<1>4. r.produced \in Nat /\ has \in Nat
  BY <1>1, <1>2, <1>3
<1>5. flush = "Z_FINISH" /\ r.produced # LINEN_ZLIB_CHUNK => r.produced = has
  BY <1>1, <1>3, <1>4 DEF Zlib!least
<1> HIDE DEF has
<1>6. /\ r.ret = "Z_STREAM_END" => flush = "Z_FINISH" /\ r.produced = has
      /\ flush = "Z_FINISH" /\ r.produced # LINEN_ZLIB_CHUNK => r.ret = "Z_STREAM_END"
  BY <1>1, <1>5
<1> QED BY <1>1, <1>2, <1>4, <1>6 DEF has, owed

(* Input keeps its type as calls take it. *)
LEMMA RestType ==
  ASSUME NEW S, NEW s \in Seq(S), NEW t \in 0..Len(s)
  PROVE  /\ SubSeq(s, 1, t) \in Seq(S) /\ SubSeq(s, t + 1, Len(s)) \in Seq(S)
         /\ t = Len(s) => SubSeq(s, t + 1, Len(s)) = <<>>
OBVIOUS

(* A turn of either loop, given what its last one has to be like.           *)
LEMMA TurnBooks ==
  ASSUME ZlibInductive, zCall # "none",
         NEW taken \in 0..Len(next_in), NEW produced \in Nat, NEW owed \in Nat,
         NEW ended \in BOOLEAN,
         produced <= inside + owed,
         inside' = inside + owed - produced, due' = due + owed,
         next_in' = SubSeq(next_in, taken + 1, Len(next_in)),
         UNCHANGED <<kind, zHeld, zWire>>, zTouched' = TRUE,
         \/ Zlib!Return(0, FALSE) /\ zFailed' = TRUE
         \/ /\ Zlib!Return(out_buf + produced, ended) /\ UNCHANGED zFailed
            /\ ended \/ zCall = "finish" \/ taken = Len(next_in)
            /\ ~zFailed /\ (kind = "inflate" \/ ended \/ zCall = "finish") => inside' = 0
         \/ /\ Zlib!Continue(out_buf + produced) /\ UNCHANGED zFailed
            /\ ~(~zFailed /\ kind = "inflate" /\ zCall = "finish")
  PROVE  ZlibInductive'
<1>1. /\ next_in \in Seq(Nat \cup {Bad, End}) /\ zWire \in Seq(Nat \cup {Bad, End})
      /\ inside \in Nat /\ due \in Nat /\ delivered \in Nat /\ out_buf \in Nat
      /\ initialized \in BOOLEAN /\ finished \in BOOLEAN /\ zHeld \in BOOLEAN /\ zFailed \in BOOLEAN
      /\ kind \in {"inflate", "deflate"} /\ stream \in {"none", "open", "gone"}
      /\ zCall \in {"feed", "finish"} /\ ~finished
      /\ ~zFailed => delivered + out_buf + inside = due
      /\ kind = "deflate" => zWire \in Seq(Nat) /\ next_in \in Seq(Nat)
  BY DEF ZlibInductive, Zlib!TypeOK
<1>2. /\ next_in' \in Seq(Nat \cup {Bad, End}) /\ (kind' = "deflate" => next_in' \in Seq(Nat))
      /\ taken = Len(next_in) => next_in' = <<>>
  BY <1>1, RestType
<1>3. inside' \in Nat /\ due' \in Nat /\ inside' + produced = inside + owed
  BY <1>1
<1>4. CASE Zlib!Return(0, FALSE) /\ zFailed' = TRUE
  <2>0. delivered' = delivered + 0 /\ out_buf' = 0 /\ zCall' = "none"
    BY <1>4, Zenon DEF Zlib!Return
  <2>1. /\ delivered' = delivered /\ out_buf' = 0 /\ zCall' = "none"
        /\ stream' \in {"none", "open", "gone"} /\ initialized' \in BOOLEAN
    <3>1. IF zCall = "finish" THEN stream' = "gone" /\ initialized' = FALSE
          ELSE stream' = stream /\ initialized' = initialized
      BY <1>4, Zenon DEF Zlib!Return
    <3>2. initialized' \in BOOLEAN
      BY <1>1, <3>1, Zenon
    <3>3. stream' \in {"none", "open", "gone"}
      BY <1>1, <3>1, Zenon
    <3> QED BY <1>1, <2>0, <3>2, <3>3
  <2>2. finished' \in BOOLEAN
    BY <1>4, Zenon DEF Zlib!Return
  <2>3. Zlib!TypeOK'
    BY <1>1, <1>2, <1>3, <1>4, <2>1, <2>2 DEF Zlib!TypeOK
  <2> QED BY <1>1, <1>2, <1>4, <2>1, <2>3 DEF ZlibInductive
<1>5. CASE /\ Zlib!Return(out_buf + produced, ended) /\ UNCHANGED zFailed
           /\ ended \/ zCall = "finish" \/ taken = Len(next_in)
           /\ ~zFailed /\ (kind = "inflate" \/ ended \/ zCall = "finish") => inside' = 0
  <2>1. /\ delivered' = delivered + (out_buf + produced) /\ out_buf' = 0 /\ zCall' = "none"
        /\ finished' = (ended \/ zCall = "finish")
        /\ stream' \in {"none", "open", "gone"} /\ initialized' \in BOOLEAN
    BY <1>1, <1>5 DEF Zlib!Return
  <2>2. Zlib!TypeOK'
    BY <1>1, <1>2, <1>3, <1>5, <2>1 DEF Zlib!TypeOK
  <2>3. ~zFailed => delivered' + out_buf' + inside' = due'
    BY <1>1, <1>3, <2>1
  <2> QED BY <1>1, <1>2, <1>5, <2>1, <2>2, <2>3 DEF ZlibInductive
<1>6. CASE /\ Zlib!Continue(out_buf + produced) /\ UNCHANGED zFailed
           /\ ~(~zFailed /\ kind = "inflate" /\ zCall = "finish")
  <2>1. out_buf' = out_buf + produced
        /\ UNCHANGED <<zCall, delivered, finished, stream, initialized>>
    BY <1>6 DEF Zlib!Continue
  <2>2. Zlib!TypeOK'
    BY <1>1, <1>2, <1>3, <1>6, <2>1 DEF Zlib!TypeOK
  <2>3. ~zFailed => delivered' + out_buf' + inside' = due'
    BY <1>1, <1>3, <2>1
  <2> QED BY <1>1, <1>2, <1>6, <2>1, <2>2, <2>3 DEF ZlibInductive
<1> QED BY <1>4, <1>5, <1>6

LEMMA InflateStep ==
  ASSUME ZlibInductive, Zlib!linen_zlib_drive
  PROVE  ZlibInductive'
<1>1. kind = "inflate" /\ zCall # "none"
  BY DEF Zlib!linen_zlib_drive
<1>2. PICK r \in Zlib!inflate(Zlib!flush) :
        LET owed == Zlib!worth(SubSeq(next_in, 1, r.taken))
        IN  /\ zTouched' = TRUE
            /\ inside' = inside + owed - r.produced /\ due' = due + owed
            /\ next_in' = SubSeq(next_in, r.taken + 1, Len(next_in))
            /\ \/ Zlib!Return(0, FALSE) /\ zFailed' = TRUE
               \/ /\ Zlib!inflateDone(r)
                  /\ Zlib!Return(out_buf + r.produced, r.ret = "Z_STREAM_END")
                  /\ UNCHANGED zFailed
               \/ /\ ~Zlib!inflateDone(r) /\ Zlib!Continue(out_buf + r.produced)
                  /\ UNCHANGED zFailed
            /\ UNCHANGED <<kind, zHeld, zWire>>
  BY DEF Zlib!linen_zlib_drive, Zlib!Turn
<1> DEFINE owed == Zlib!worth(SubSeq(next_in, 1, r.taken))
           ended == r.ret = "Z_STREAM_END"
<1>3. /\ Zlib!flush \in {"Z_FINISH", "Z_NO_FLUSH"}
      /\ Zlib!flush = "Z_FINISH" <=> zCall = "finish"
  BY DEF Zlib!flush
<1>4. /\ r.taken \in 0..Len(next_in) /\ r.produced \in Nat /\ owed \in Nat
      /\ r.produced <= inside + owed
      /\ r.ret = "Z_STREAM_END" => r.produced = inside + owed
      /\ r.produced # LINEN_ZLIB_CHUNK => r.produced = inside + owed
      /\ r.ret = "Z_BUF_ERROR" /\ Zlib!flush = "Z_NO_FLUSH" => r.produced = 0
      /\ inside = 0 /\ next_in = <<>> =>
           /\ r.taken = 0 /\ inside + owed = 0
           /\ Zlib!flush = "Z_FINISH" => r.ret = "Z_BUF_ERROR"
  BY <1>3, InflateResult
<1>5. LINEN_ZLIB_CHUNK # 0 /\ inside \in Nat
  BY ZlibAssumption DEF ZlibInductive, Zlib!TypeOK
<1>6. inside' = inside + owed - r.produced /\ due' = due + owed
  BY <1>2
<1> HIDE DEF owed
<1>7. ASSUME ~zFailed, zCall = "finish"
      PROVE  Zlib!inflateDone(r) /\ inside' = 0
  <2>1. inside = 0 /\ next_in = <<>> /\ Len(next_in) = 0
    BY <1>1, <1>7 DEF ZlibInductive
  <2>2. r.taken = 0 /\ inside + owed = 0 /\ r.ret = "Z_BUF_ERROR"
    BY <1>3, <1>4, <1>7, <2>1
  <2> QED BY <1>4, <1>5, <1>6, <2>1, <2>2 DEF Zlib!inflateDone, Zlib!spent
<1>8. ASSUME Zlib!inflateDone(r)
      PROVE  /\ ended \/ r.taken = Len(next_in)
             /\ ~zFailed => inside' = 0
  <2>1. ended \/ r.taken = Len(next_in)
    BY <1>8 DEF Zlib!inflateDone, Zlib!spent
  <2>2. CASE zCall = "finish"
    BY <1>7, <2>1, <2>2
  <2>3. CASE zCall # "finish"
    <3>1. Zlib!flush = "Z_NO_FLUSH"
      BY <1>3, <2>3
    <3>2. r.produced = inside + owed
      BY <1>4, <1>5, <1>8, <3>1 DEF Zlib!inflateDone, Zlib!full
    <3> QED BY <1>4, <1>5, <1>6, <2>1, <3>2
  <2> QED BY <2>2, <2>3
<1>9. /\ next_in' = SubSeq(next_in, r.taken + 1, Len(next_in))
      /\ UNCHANGED <<kind, zHeld, zWire>> /\ zTouched' = TRUE
      /\ \/ Zlib!Return(0, FALSE) /\ zFailed' = TRUE
         \/ /\ Zlib!Return(out_buf + r.produced, ended) /\ UNCHANGED zFailed
            /\ ended \/ zCall = "finish" \/ r.taken = Len(next_in)
            /\ ~zFailed /\ (kind = "inflate" \/ ended \/ zCall = "finish") => inside' = 0
         \/ /\ Zlib!Continue(out_buf + r.produced) /\ UNCHANGED zFailed
            /\ ~(~zFailed /\ kind = "inflate" /\ zCall = "finish")
  BY <1>2, <1>7, <1>8
<1>10. ended \in BOOLEAN
  OBVIOUS
<1> HIDE DEF ended
<1> QED BY <1>1, <1>4, <1>6, <1>9, <1>10, TurnBooks

LEMMA DeflateStep ==
  ASSUME ZlibInductive, Zlib!linen_zlib_drive_deflate
  PROVE  ZlibInductive'
<1>1. kind = "deflate" /\ zCall # "none"
  BY DEF Zlib!linen_zlib_drive_deflate
<1>2. PICK r \in Zlib!deflate(Zlib!flush) :
        LET owed == Zlib!worth(SubSeq(next_in, 1, r.taken))
        IN  /\ zTouched' = TRUE
            /\ inside' = inside + owed - r.produced /\ due' = due + owed
            /\ next_in' = SubSeq(next_in, r.taken + 1, Len(next_in))
            /\ \/ Zlib!Return(0, FALSE) /\ zFailed' = TRUE
               \/ /\ Zlib!deflateDone(r)
                  /\ Zlib!Return(out_buf + r.produced, r.ret = "Z_STREAM_END")
                  /\ UNCHANGED zFailed
               \/ /\ ~Zlib!deflateDone(r) /\ Zlib!Continue(out_buf + r.produced)
                  /\ UNCHANGED zFailed
            /\ UNCHANGED <<kind, zHeld, zWire>>
  BY DEF Zlib!linen_zlib_drive_deflate, Zlib!Turn
<1> DEFINE owed == Zlib!worth(SubSeq(next_in, 1, r.taken))
           ended == r.ret = "Z_STREAM_END"
<1>3. Zlib!flush = "Z_FINISH" <=> zCall = "finish"
  BY DEF Zlib!flush
<1>4. /\ r.taken \in 0..Len(next_in) /\ r.produced \in Nat /\ owed \in Nat
      /\ r.produced <= inside + owed
      /\ r.ret = "Z_STREAM_END" => Zlib!flush = "Z_FINISH" /\ r.produced = inside + owed
      /\ Zlib!flush = "Z_FINISH" /\ r.produced # LINEN_ZLIB_CHUNK => r.ret = "Z_STREAM_END"
  BY <1>1, DeflateResult
<1>5. inside \in Nat
  BY DEF ZlibInductive, Zlib!TypeOK
<1>6. inside' = inside + owed - r.produced /\ due' = due + owed
  BY <1>2
<1> HIDE DEF owed
<1>7. ASSUME Zlib!deflateDone(r)
      PROVE  /\ ended \/ r.taken = Len(next_in)
             /\ ended \/ zCall = "finish" => inside' = 0
  <2>1. ended \/ (r.taken = Len(next_in) /\ r.produced # LINEN_ZLIB_CHUNK)
    BY <1>7 DEF Zlib!deflateDone, Zlib!spent, Zlib!full
  <2>2. zCall = "finish" => ended
    BY <1>3, <1>4, <2>1
  <2>3. ended => inside' = 0
    BY <1>4, <1>5, <1>6
  <2> QED BY <2>1, <2>2, <2>3
<1>8. /\ next_in' = SubSeq(next_in, r.taken + 1, Len(next_in))
      /\ UNCHANGED <<kind, zHeld, zWire>> /\ zTouched' = TRUE
      /\ \/ Zlib!Return(0, FALSE) /\ zFailed' = TRUE
         \/ /\ Zlib!Return(out_buf + r.produced, ended) /\ UNCHANGED zFailed
            /\ ended \/ zCall = "finish" \/ r.taken = Len(next_in)
            /\ ~zFailed /\ (kind = "inflate" \/ ended \/ zCall = "finish") => inside' = 0
         \/ /\ Zlib!Continue(out_buf + r.produced) /\ UNCHANGED zFailed
            /\ ~(~zFailed /\ kind = "inflate" /\ zCall = "finish")
  BY <1>1, <1>2, <1>7
<1>9. ended \in BOOLEAN
  OBVIOUS
<1> HIDE DEF ended
<1> QED BY <1>1, <1>4, <1>6, <1>8, <1>9, TurnBooks

LEMMA ZlibOtherStep ==
  ASSUME ZlibInductive, NEW k,
         Zlib!Create(k) \/ Zlib!Feed(k) \/ Zlib!Finish(k) \/ Zlib!Finalize(k)
  PROVE  ZlibInductive'
<1>1. CASE Zlib!Create(k)
  BY <1>1 DEF Zlib!Create, ZlibInductive, Zlib!TypeOK
<1>2. CASE Zlib!Finalize(k)
  BY <1>2 DEF Zlib!Finalize, ZlibInductive, Zlib!TypeOK
<1>3. CASE Zlib!Finish(k)
  <2>1. <<>> \in Seq(Nat) /\ <<>> \in Seq(Nat \cup {Bad, End})
    OBVIOUS
  <2> QED BY <1>3, <2>1 DEF Zlib!Finish, Zlib!Enter, ZlibInductive, Zlib!TypeOK
<1>4. CASE Zlib!Feed(k)
  <2>1. PICK t \in 1..Len(zWire) : /\ Zlib!Enter(k, "feed", SubSeq(zWire, 1, t))
                                   /\ zWire' = SubSeq(zWire, t + 1, Len(zWire))
    BY <1>4 DEF Zlib!Feed
  <2>2. t \in 0..Len(zWire) /\ zWire \in Seq(Nat \cup {Bad, End})
    BY DEF ZlibInductive, Zlib!TypeOK
  <2>3. /\ next_in' \in Seq(Nat \cup {Bad, End}) /\ zWire' \in Seq(Nat \cup {Bad, End})
        /\ kind = "deflate" => next_in' \in Seq(Nat) /\ zWire' \in Seq(Nat)
    BY <2>1, <2>2, RestType DEF ZlibInductive, Zlib!Enter
  <2> HIDE DEF Zlib!Feed
  <2> QED BY <2>1, <2>3 DEF Zlib!Enter, ZlibInductive, Zlib!TypeOK
<1> QED BY <1>1, <1>2, <1>3, <1>4

(* ZlibStream!NothingWithheld: for any input and any chunk size, and        *)
(* whatever deflate holds back until it is flushed, feeding calls take all  *)
(* of their input, and what the program was given, with what deflate holds  *)
(* back, is what that input is worth.                                       *)
THEOREM NothingIsWithheld == Zlib!Spec => []NothingWithheld
<1>1. ZlibInductive /\ [Zlib!Next]_(Zlib!vars) => ZlibInductive'
  <2>1. ZlibInductive /\ UNCHANGED Zlib!vars => ZlibInductive'
    BY DEF Zlib!vars, ZlibInductive, Zlib!TypeOK
  <2> QED BY <2>1, ZlibNextCases, InflateStep, DeflateStep, ZlibOtherStep
<1>2. ZlibInductive => NothingWithheld
  BY DEF ZlibInductive, NothingWithheld, Zlib!NothingWithheld, Zlib!TypeOK
<1> QED BY <1>1, <1>2, ZlibInitHolds, PTL DEF Zlib!Spec

-----------------------------------------------------------------------------
(****************************************************************************)
(* TLS sessions, for any writers, messages and records of the peer.         *)
(****************************************************************************)

(* A handshake runs with its context, which its ALPN callback reaches; the  *)
(* program holds, and a thread reads, only a session that was made.         *)
SessionInv ==
  /\ context \in {"none", "held", "gone"}
  /\ ssl \in {"none", "handshake", "established", "null"}
  /\ ssl = "handshake" => context = "held"
  /\ context = "none" => ssl = "none" /\ ~alpn
  /\ held => ssl # "none"
  /\ reader = "SSL_read" => ssl # "none"

SessionKeeps == SessionInv' /\ Contract!Call

LEMMA MakingStep ==
  ASSUME SessionInv,
         \/ CreateContext \/ linen_tls_set_alpn_protocols \/ linen_ssl_ctx_finalizer
         \/ linen_tls_new_session \/ linen_tls_handshake_nb
  PROVE  SessionKeeps
<1>1. SessionInv'
  BY
    DEF SessionInv, CreateContext, linen_tls_set_alpn_protocols,
        linen_ssl_ctx_finalizer,
         linen_tls_new_session, linen_tls_handshake_nb
<1>2. Contract!Call
  BY
    DEF SessionInv, CreateContext, linen_tls_set_alpn_protocols,
        linen_ssl_ctx_finalizer,
         linen_tls_new_session, linen_tls_handshake_nb, Contract!Call, live, gone
<1> QED BY <1>1, <1>2 DEF SessionKeeps

(* A call made under the mutex, and one that waits for the peer. *)
LEMMA SessionCallStep ==
  ASSUME SessionInv, UNCHANGED <<context, ssl, alpn, held>>,
         (ssl # "none" /\ touched' = reach) \/ touched' = {},
         reader' = "SSL_read" => ssl # "none"
  PROVE  SessionKeeps
<1>1. SessionInv'
  BY DEF SessionInv
<1>2. Contract!Call
  BY DEF SessionInv, Contract!Call, live, gone, reach
<1> QED BY <1>1, <1>2 DEF SessionKeeps

LEMMA ClosingStep ==
  ASSUME SessionInv, linen_tls_close \/ linen_ssl_finalizer
  PROVE  SessionKeeps
<1>1. SessionInv'
  BY DEF SessionInv, linen_tls_close, linen_ssl_finalizer, locked
<1>2. Contract!Call
  BY
    DEF SessionInv, linen_tls_close, linen_ssl_finalizer, Contract!Call, live, gone,
        reach
<1> QED BY <1>1, <1>2 DEF SessionKeeps

(* Whoever has the turn, writes begin one at a time. *)
LEMMA TurnBegins ==
  ASSUME NEW w \in Writer, Turn(w)
  PROVE  Begins(w) /\ ~busy /\ (use = "http1" => \A v \in Writer : writer[v] # "failed")
BY DEF Turn, http1Turn, http2Turn, clientTurn, blocking

LEMMA SessionNextStep ==
  ASSUME SessionInv, Next
  PROVE  SessionKeeps
<1>1. CASE \/ linen_tls_ctx_create \/ linen_tls_client_ctx_create
           \/ linen_tls_client_ctx_create_with_ca \/ linen_tls_set_alpn_protocols
           \/ linen_ssl_ctx_finalizer \/ linen_tls_new_session \/ linen_tls_handshake_nb
  BY <1>1, MakingStep DEF linen_tls_ctx_create, linen_tls_client_ctx_create,
     linen_tls_client_ctx_create_with_ca
<1>2. CASE linen_tls_read_nb \/ linen_tls_read \/ linen_tls_read_return \/ linen_tls_get_alpn
  <2>1. /\ UNCHANGED <<context, ssl, alpn, held>> /\ ssl # "none" /\ touched' = reach
    BY <1>2
      DEF linen_tls_read_nb, linen_tls_read, linen_tls_read_return, linen_tls_get_alpn,
                Call, SessionInv
  <2> QED BY <2>1, SessionCallStep
<1>3. ASSUME NEW w \in Writer, linen_tls_write_nb(w) \/ linen_tls_write(w)
      PROVE  SessionKeeps
  <2>1. /\ UNCHANGED <<context, ssl, alpn, held>> /\ ssl # "none" /\ touched' = reach
    BY <1>3 DEF linen_tls_write_nb, linen_tls_write, Write, Call
  <2> QED BY <2>1, SessionCallStep
<1>4. ASSUME NEW w \in Writer, Turn(w) \/ pollForWrite(w)
      PROVE  SessionKeeps
  <2>1. UNCHANGED <<context, ssl, alpn, held, reader>> /\ touched' = {}
    BY <1>4, TurnBegins DEF Begins, pollForWrite
  <2> QED BY <2>1, SessionCallStep DEF SessionInv
<1>5. CASE CloseSocket \/ Arrive \/ pollForRead
  <2>1. /\ UNCHANGED <<context, ssl, alpn, held>> /\ touched' = {}
        /\ reader' \in {reader, "idle", "over"}
    BY <1>5 DEF CloseSocket, Arrive, pollForRead
  <2> QED BY <2>1, SessionCallStep DEF SessionInv
<1>6. CASE linen_tls_close \/ linen_ssl_finalizer
  BY <1>6, ClosingStep
<1> QED BY <1>1, <1>2, <1>3, <1>4, <1>5, <1>6 DEF Next

(* TlsSession!KeepsContract: neither a freed SSL nor a freed context is     *)
(* reached, whichever thread closes while others wait between two calls.    *)
THEOREM TlsImplementsContract == Spec => KeepsContract
<1>1. Init => SessionInv /\ Contract!Init
  BY DEF Init, SessionInv, Contract!Init, live, gone
<1>2. SessionInv /\ [Next]_vars => SessionInv'
  <2>1. SessionInv /\ UNCHANGED vars => SessionInv'
    BY DEF vars, SessionInv
  <2> QED BY <2>1, SessionNextStep DEF SessionKeeps
<1>3. SessionInv /\ [Next]_vars => [Contract!Call]_vars
  BY SessionNextStep DEF SessionKeeps
<1>4. UNCHANGED vars => UNCHANGED Contract!vars
  BY DEF vars, Contract!vars, live, gone
<1>5. [Contract!Call]_vars => [Contract!Call]_Contract!vars
  BY <1>4
<1> QED BY <1>1, <1>2, <1>3, <1>5, PTL DEF Spec, KeepsContract, Contract!Spec

(* HandlesKeepContract of MCNetwork, put together. *)
THEOREM HandlesAreKept ==
  ASSUME ~CloseFails
  PROVE  Spec /\ Net!Spec /\ Zlib!Spec => HandlesKeepContract
BY TlsImplementsContract, SocketsImplementContract, ZlibImplementsContract, PTL
DEF HandlesKeepContract

(* A session that OpenSSL reported a fatal error of has its flag set; the   *)
(* socket outlives the session, but for a handshake that failed.            *)
ShutdownInv ==
  /\ fatal => failed
  /\ socket \in {"ours", "closed"}
  /\ socket = "closed" => ssl = "null" \/ (ssl = "handshake" /\ failed)
  /\ NoWaitOnDecrypted

ShutdownInOrder ==
  wire' # wire /\ ssl' = "null" => socket = "ours" /\ ~fatal /\ ssl = "established"

ShutdownKeeps == ShutdownInv' /\ ShutdownInOrder

(* A flag that gathers the errors keeps its promise. *)
LEMMA FlagIsRaised ==
  ASSUME NEW answer, failed' = (failed \/ answer = "error"),
         UNCHANGED fatal \/ answer = "error", fatal => failed
  PROVE  (fatal' => failed') /\ (failed => failed')
<1>1. (failed => failed') /\ (answer = "error" => failed')
  OBVIOUS
<1>2. CASE UNCHANGED fatal
  <2>1. fatal' => failed
    BY <1>2
  <2> QED BY <2>1, <1>1
<1>3. CASE answer = "error"
  BY <1>1, <1>3
<1> QED BY <1>2, <1>3

(* SSL_read asks for a wait only when it has nothing decrypted. *)
LEMMA ReadResult ==
  ASSUME NEW answer, SSL_read(answer), failed' = (failed \/ answer = "error"), fatal => failed
  PROVE  /\ fatal' => failed'
         /\ failed => failed'
         /\ answer = "wantRead" => plain' = <<>>
<1>1. UNCHANGED fatal \/ answer = "error"
  BY DEF SSL_read
<1>2. (fatal' => failed') /\ (failed => failed')
  BY <1>1, FlagIsRaised
<1>3. answer = "wantRead" => Decrypted = <<>> /\ plain' = plain
  BY DEF SSL_read
<1>4. Decrypted = <<>> => plain = <<>>
  BY DEF Decrypted
<1> QED BY <1>2, <1>3, <1>4

(* Where neither the wire nor the session is closed. *)
LEMMA NothingShut ==
  ASSUME ShutdownInv, UNCHANGED <<ssl, socket>>, UNCHANGED wire \/ ssl # "null",
         fatal' => failed', failed => failed', NoWaitOnDecrypted'
  PROVE  ShutdownKeeps
<1>1. ShutdownInv'
  BY DEF ShutdownInv
<1>2. ShutdownInOrder
  BY DEF ShutdownInOrder
<1> QED BY <1>1, <1>2 DEF ShutdownKeeps

LEMMA ReadShutsNothing ==
  ASSUME ShutdownInv, linen_tls_read_nb \/ linen_tls_read \/ linen_tls_read_return
  PROVE  ShutdownKeeps
<1>1. UNCHANGED <<ssl, socket, wire>>
  BY DEF linen_tls_read_nb, linen_tls_read, linen_tls_read_return, Call, lib
<1>2. CASE linen_tls_read_nb /\ ssl = "null"
  <2>1. UNCHANGED <<fatal, failed, plain>> /\ reader' = "over"
    BY <1>2 DEF linen_tls_read_nb
  <2> QED BY <1>1, <2>1, NothingShut DEF NoWaitOnDecrypted, ShutdownInv
<1>3. CASE linen_tls_read_nb /\ ssl # "null"
  <2>1. PICK answer \in {"bytes", "wantRead", "wantWrite", "end", "error"} :
          /\ SSL_read(answer)
          /\ failed' = (failed \/ answer = "error")
          /\ reader' = CASE answer = "bytes" -> "idle"
                         [] answer \in {"end", "error"} -> "over"
                         [] OTHER -> answer
    BY <1>3 DEF linen_tls_read_nb
  <2>2. reader' = "wantRead" => answer = "wantRead"
    BY <2>1
  <2>3. (fatal' => failed') /\ (failed => failed') /\ (answer = "wantRead" => plain' = <<>>)
    BY <2>1, ReadResult DEF ShutdownInv
  <2> QED BY <1>1, <2>2, <2>3, NothingShut DEF NoWaitOnDecrypted
<1>4. CASE linen_tls_read
  <2>1. UNCHANGED <<fatal, failed>> /\ reader' \in {"over", "SSL_read"}
    BY <1>4 DEF linen_tls_read, lib
  <2> QED BY <1>1, <2>1, NothingShut DEF NoWaitOnDecrypted, ShutdownInv
<1>5. CASE linen_tls_read_return
  <2>1. PICK answer : /\ SSL_read(answer)
                      /\ failed' = (failed \/ answer = "error")
                      /\ reader' \in {"idle", "over"}
    BY <1>5 DEF linen_tls_read_return
  <2>2. (fatal' => failed') /\ (failed => failed')
    BY <2>1, ReadResult DEF ShutdownInv
  <2> QED BY <1>1, <2>1, <2>2, NothingShut DEF NoWaitOnDecrypted
<1> QED BY <1>2, <1>3, <1>4, <1>5

LEMMA WriteShutsNothing ==
  ASSUME ShutdownInv, NEW w \in Writer, linen_tls_write_nb(w) \/ linen_tls_write(w)
  PROVE  ShutdownKeeps
<1>1. PICK answers : Write(w, answers)
  BY DEF linen_tls_write_nb, linen_tls_write
<1>2. UNCHANGED <<ssl, socket, reader, plain>>
  BY <1>1 DEF Write, Call
<1>3. CASE ssl = "null"
  <2>1. UNCHANGED <<fatal, failed, wire>>
    BY <1>1, <1>3 DEF Write, Call
  <2> QED BY <1>2, <2>1, NothingShut DEF ShutdownInv, NoWaitOnDecrypted
<1>4. CASE ssl # "null"
  <2>1. PICK answer : SSL_write(Message[w], answer) /\ failed' = (failed \/ answer = "error")
    BY <1>1, <1>4 DEF Write
  <2>2. UNCHANGED fatal \/ answer = "error"
    BY <2>1 DEF SSL_write
  <2>3. (fatal' => failed') /\ (failed => failed')
    BY <2>1, <2>2, FlagIsRaised DEF ShutdownInv
  <2> QED BY <1>2, <1>4, <2>3, NothingShut DEF ShutdownInv, NoWaitOnDecrypted
<1> QED BY <1>3, <1>4

LEMMA ShutdownNextStep ==
  ASSUME ShutdownInv, Next
  PROVE  ShutdownKeeps
<1> USE DEF NoWaitOnDecrypted
<1>1. CASE \/ linen_tls_ctx_create \/ linen_tls_client_ctx_create
           \/ linen_tls_client_ctx_create_with_ca \/ linen_tls_set_alpn_protocols
           \/ linen_ssl_ctx_finalizer
  <2>1. UNCHANGED <<ssl, socket, lib, failed, reader>>
    BY <1>1 DEF linen_tls_ctx_create, linen_tls_client_ctx_create,
       linen_tls_client_ctx_create_with_ca, CreateContext, linen_tls_set_alpn_protocols,
       linen_ssl_ctx_finalizer
  <2> QED BY <2>1, NothingShut DEF ShutdownInv, lib
<1>2. CASE linen_tls_new_session \/ linen_tls_handshake_nb
  <2>1. ShutdownInv'
    BY <1>2 DEF linen_tls_new_session, linen_tls_handshake_nb, lib, ShutdownInv
  <2>2. UNCHANGED wire
    BY <1>2 DEF linen_tls_new_session, linen_tls_handshake_nb, lib
  <2> QED BY <2>1, <2>2 DEF ShutdownKeeps, ShutdownInOrder
<1>3. ASSUME NEW w \in Writer, Turn(w) \/ pollForWrite(w)
      PROVE  ShutdownKeeps
  <2>1. UNCHANGED <<ssl, socket, lib, failed, reader>>
    BY <1>3, TurnBegins DEF Begins, pollForWrite
  <2> QED BY <2>1, NothingShut DEF ShutdownInv, lib
<1>4. CASE linen_tls_get_alpn \/ Arrive \/ pollForRead
  <2>1. UNCHANGED <<ssl, socket, fatal, failed, plain, wire>> /\ reader' \in {reader, "idle", "over"}
    BY <1>4 DEF linen_tls_get_alpn, Arrive, pollForRead, Call, lib
  <2> QED BY <2>1, NothingShut DEF ShutdownInv
<1>5. CASE CloseSocket
  <2>1. UNCHANGED <<ssl, lib, failed, reader>> /\ socket' = "closed"
        /\ (ssl = "null" \/ (ssl = "handshake" /\ failed))
    BY <1>5 DEF CloseSocket
  <2> QED BY <2>1 DEF ShutdownKeeps, ShutdownInv, ShutdownInOrder, lib
<1>6. CASE linen_tls_close
  <2>1. /\ UNCHANGED <<socket, fatal, failed, plain, reader>> /\ ssl' = "null"
        /\ wire' # wire => ssl = "established" /\ ~failed
    BY <1>6 DEF linen_tls_close
  <2> QED BY <2>1 DEF ShutdownKeeps, ShutdownInv, ShutdownInOrder
<1>7. CASE linen_ssl_finalizer
  <2>1. UNCHANGED <<socket, lib, failed, reader>> /\ ssl' = "null"
    BY <1>7 DEF linen_ssl_finalizer
  <2> QED BY <2>1 DEF ShutdownKeeps, ShutdownInv, ShutdownInOrder, lib
<1> QED BY <1>1, <1>2, <1>3, <1>4, <1>5, <1>6, <1>7, ReadShutsNothing, WriteShutsNothing
  DEF Next

LEMMA ShutdownAlways == Spec => []ShutdownInv /\ [][ShutdownKeeps]_vars
<1>1. Init => ShutdownInv
  BY DEF Init, ShutdownInv, NoWaitOnDecrypted
<1>2. ShutdownInv /\ [Next]_vars => ShutdownInv' /\ [ShutdownKeeps]_vars
  <2>1. ShutdownInv /\ UNCHANGED vars => ShutdownInv'
    BY DEF vars, lib, ShutdownInv, NoWaitOnDecrypted
  <2> QED BY <2>1, ShutdownNextStep DEF ShutdownKeeps
<1> QED BY <1>1, <1>2, PTL DEF Spec

(* TlsSession!NoWaitOnDecrypted: a reader waits for the socket only when    *)
(* OpenSSL has handed out all that it has decrypted.                        *)
THEOREM ReadersTakeWhatIsThere == Spec => []NoWaitOnDecrypted
<1>1. ShutdownInv => NoWaitOnDecrypted
  BY DEF ShutdownInv
<1> QED BY <1>1, ShutdownAlways, PTL

(* TlsSession!OrderlyShutdown: what closing sends goes over a session that  *)
(* never failed, and over a socket whose number is still its own.           *)
THEOREM ShutdownIsOrderly == Spec => OrderlyShutdown
<1>1. [ShutdownKeeps]_vars
        => [wire' # wire /\ ssl' = "null"
              => socket = "ours" /\ ~fatal /\ ssl = "established"]_vars
  BY DEF ShutdownKeeps, ShutdownInOrder
<1> QED BY <1>1, ShutdownAlways, PTL DEF OrderlyShutdown

-----------------------------------------------------------------------------
(* Writes.                                                                  *)
(* One sequence after another. *)
LEMMA InjectiveConcat ==
  ASSUME NEW S, NEW s \in Seq(S), NEW t \in Seq(S),
         IsInjective(s), IsInjective(t), ToSet(s) \cap ToSet(t) = {}
  PROVE  IsInjective(s \o t)
<1> DEFINE u == s \o t
<1>1. \A i \in DOMAIN u : \/ i \in DOMAIN s /\ u[i] = s[i]
                          \/ i - Len(s) \in DOMAIN t /\ u[i] = t[i - Len(s)]
  OBVIOUS
<1>2. \A i \in DOMAIN s, k \in DOMAIN t : s[i] # t[k]
  BY DEF ToSet
<1>3. DOMAIN u \subseteq Nat /\ Len(s) \in Nat
  OBVIOUS
<1> HIDE DEF u
<1> SUFFICES ASSUME NEW i \in DOMAIN u, NEW k \in DOMAIN u, u[i] = u[k]
             PROVE  i = k
  BY DEF IsInjective, u
<1>4. CASE i \in DOMAIN s /\ u[i] = s[i]
  BY <1>1, <1>2, <1>4 DEF IsInjective
<1>5. CASE i - Len(s) \in DOMAIN t /\ u[i] = t[i - Len(s)]
  <2>1. k - Len(s) \in DOMAIN t /\ u[k] = t[k - Len(s)]
    BY <1>1, <1>2, <1>5
  <2>2. i - Len(s) = k - Len(s)
    BY <1>5, <2>1 DEF IsInjective
  <2> QED BY <1>3, <2>2
<1> QED BY <1>1, <1>4, <1>5

(* What stands somewhere in a sequence still does in a longer one. *)
LEMMA PieceKept ==
  ASSUME NEW S, NEW s \in Seq(S), NEW t \in Seq(S), NEW m \in Seq(S),
         NEW i \in 0..Len(s) - Len(m), SubSeq(s, i + 1, i + Len(m)) = m
  PROVE  /\ i \in 0..Len(s \o t) - Len(m)
         /\ SubSeq(s \o t, i + 1, i + Len(m)) = m
<1>1. i \in 0..Len(s \o t) - Len(m)
  OBVIOUS
<1>2. CASE m = <<>>
  BY <1>2, SubSeqEmpty
<1>3. CASE m # <<>>
  <2>1. i + 1 \in 1..Len(s) /\ i + Len(m) \in 1..Len(s)
    BY <1>3
  <2> QED BY <1>1, <2>1, SubSeqOfConcat1
<1> QED BY <1>1, <1>2, <1>3

LEMMA PieceAtEnd ==
  ASSUME NEW S, NEW s \in Seq(S), NEW m \in Seq(S)
  PROVE  /\ Len(s) \in 0..Len(s \o m) - Len(m)
         /\ SubSeq(s \o m, Len(s) + 1, Len(s) + Len(m)) = m
<1>1. Len(s) \in 0..Len(s \o m) - Len(m)
  OBVIOUS
<1>2. CASE m = <<>>
  BY <1>2, SubSeqEmpty
<1>3. CASE m # <<>>
  <2>1. /\ Len(s) + 1 \in Len(s) + 1..Len(s) + Len(m)
        /\ Len(s) + Len(m) \in Len(s) + 1..Len(s) + Len(m)
        /\ Len(s) + 1 - Len(s) = 1 /\ Len(s) + Len(m) - Len(s) = Len(m)
    BY <1>3
  <2>2. SubSeq(s \o m, Len(s) + 1, Len(s) + Len(m)) = SubSeq(m, 1, Len(m))
    BY <2>1, SubSeqOfConcat2
  <2> QED BY <1>1, <2>2, SubSeqFull
<1> QED BY <1>1, <1>2, <1>3

Bytes == (UNION {ToSet(Message[w]) : w \in Writer}) \cup {"close_notify"}

(* A byte on the wire is one of a write that returned, or the last word of  *)
(* a session that was closed.                                               *)
Accounted(byte) ==
  \/ \E w \in Writer : writer[w] = "done" /\ byte \in ToSet(Message[w])
  \/ byte = "close_notify" /\ ssl = "null"

Whole(w) ==
  \E i \in 0..Len(wire) - Len(Message[w]) :
    SubSeq(wire, i + 1, i + Len(Message[w])) = Message[w]

(* The writers take turns; in HTTP/1 none follows one that failed, and a    *)
(* blocking socket leaves no record, so the record that a socket did not    *)
(* take is of the writer whose turn it is, or was the last to be.           *)
TurnsAreKept ==
  /\ use \in Use
  /\ writer \in [Writer -> {"idle", "call", "wait", "done", "failed"}]
  /\ \A v, w \in Writer : writer[v] \in {"call", "wait"} /\ writer[w] \in {"call", "wait"} => v = w
  /\ use = "http1" /\ (\E w \in Writer : writer[w] = "failed") => ~busy
  /\ use \in {"client", "subscriber"} => pending = <<>>
  /\ pending # <<>> =>
       \E w \in Writer : writer[w] \in {"call", "wait", "failed"} /\ pending = Message[w]

WireIsAccounted ==
  /\ wire \in Seq(Bytes) /\ IsInjective(wire)
  /\ \A byte \in ToSet(wire) : Accounted(byte)
  /\ \A w \in Writer : writer[w] = "done" => Whole(w)

WritesInductive == TurnsAreKept /\ WireIsAccounted

LEMMA MessageBytes ==
  ASSUME NEW w \in Writer
  PROVE  /\ Message[w] \in Seq(Bytes) /\ IsInjective(Message[w])
         /\ ToSet(Message[w]) \subseteq Bytes /\ "close_notify" \notin ToSet(Message[w])
<1>1. ToSet(Message[w]) \subseteq Bytes
  BY DEF Bytes
<1> QED BY <1>1, MessageAssumption, SeqMonotonic

(* Where the wire and the writers that returned are as they were.           *)
LEMMA WireUntouched ==
  ASSUME WireIsAccounted, UNCHANGED wire, ssl = "null" => ssl' = "null",
         \A w \in Writer : writer[w] = "done" <=> writer'[w] = "done"
  PROVE  WireIsAccounted'
<1>1. \A byte : Accounted(byte) => Accounted(byte)'
  BY DEF Accounted
<1>2. \A w \in Writer : Whole(w) => Whole(w)'
  BY DEF Whole
<1> QED BY <1>1, <1>2 DEF WireIsAccounted

LEMMA WritersUntouched ==
  ASSUME WritesInductive, UNCHANGED <<use, pending, wire, writer>>,
         ssl = "null" => ssl' = "null"
  PROVE  WritesInductive'
<1>1. WireIsAccounted'
  BY WireUntouched DEF WritesInductive
<1>2. TurnsAreKept'
  BY DEF WritesInductive, TurnsAreKept, busy
<1> QED BY <1>1, <1>2 DEF WritesInductive

(* The wire takes more, all of it accounted for and none of it sent before. *)
LEMMA WireTakes ==
  ASSUME WireIsAccounted, NEW m \in Seq(Bytes), wire' = wire \o m, IsInjective(m),
         ToSet(wire) \cap ToSet(m) = {},
         \A byte \in ToSet(m) : Accounted(byte)',
         \A byte \in ToSet(wire) : Accounted(byte) => Accounted(byte)',
         \A w \in Writer : writer'[w] = "done" => writer[w] = "done" \/ m = Message[w]
  PROVE  WireIsAccounted'
<1>0. wire \in Seq(Bytes)
  BY DEF WireIsAccounted
<1>1. wire' \in Seq(Bytes) /\ IsInjective(wire')
  BY <1>0, InjectiveConcat, ConcatProperties DEF WireIsAccounted
<1>2. ToSet(wire') \subseteq ToSet(wire) \cup ToSet(m)
  BY <1>0, ConcatProperties DEF ToSet
<1>3. \A byte \in ToSet(wire') : Accounted(byte)'
  BY <1>2 DEF WireIsAccounted
<1>4. ASSUME NEW w \in Writer, writer'[w] = "done"
      PROVE  Whole(w)'
  <2>1. Message[w] \in Seq(Bytes)
    BY MessageBytes
  <2>2. CASE m = Message[w]
    BY <1>0, <2>2, PieceAtEnd DEF Whole
  <2>3. CASE writer[w] = "done"
    <3>1. PICK i \in 0..Len(wire) - Len(Message[w]) :
            SubSeq(wire, i + 1, i + Len(Message[w])) = Message[w]
      BY <2>3 DEF WireIsAccounted, Whole
    <3>2. /\ i \in 0..Len(wire \o m) - Len(Message[w])
          /\ SubSeq(wire \o m, i + 1, i + Len(Message[w])) = Message[w]
      BY <1>0, <2>1, <3>1, PieceKept
    <3> QED BY <3>2 DEF Whole
  <2> QED BY <1>4, <2>2, <2>3
<1> QED BY <1>1, <1>3, <1>4 DEF WireIsAccounted

LEMMA TurnStep ==
  ASSUME WritesInductive, NEW w \in Writer, Turn(w) \/ pollForWrite(w)
  PROVE  WritesInductive'
<1>1. /\ UNCHANGED <<use, pending, wire, ssl>> /\ writer[w] \in {"idle", "wait"}
      /\ writer' \in {[writer EXCEPT ![w] = "call"], [writer EXCEPT ![w] = "failed"]}
      /\ writer[w] = "idle" =>
           /\ ~busy /\ writer' = [writer EXCEPT ![w] = "call"]
           /\ use = "http1" => \A v \in Writer : writer[v] # "failed"
  BY TurnBegins DEF Begins, pollForWrite, lib
<1>2. WireIsAccounted'
  BY <1>1, WireUntouched DEF WritesInductive, TurnsAreKept
<1>3. ASSUME pending' # <<>>
      PROVE  \E v \in Writer : /\ writer'[v] \in {"call", "wait", "failed"}
                               /\ pending' = Message[v]
  <2>1. PICK v \in Writer : writer[v] \in {"call", "wait", "failed"} /\ pending = Message[v]
    BY <1>1, <1>3 DEF WritesInductive, TurnsAreKept
  <2>2. writer'[v] \in {"call", "wait", "failed"}
    BY <1>1, <2>1 DEF WritesInductive, TurnsAreKept
  <2> QED BY <1>1, <2>1, <2>2
<1>4. /\ use' \in Use
      /\ writer' \in [Writer -> {"idle", "call", "wait", "done", "failed"}]
      /\ use' \in {"client", "subscriber"} => pending' = <<>>
  BY <1>1 DEF WritesInductive, TurnsAreKept
<1>5. \A u, v \in Writer :
        writer'[u] \in {"call", "wait"} /\ writer'[v] \in {"call", "wait"} => u = v
  BY <1>1 DEF WritesInductive, TurnsAreKept, busy
<1>6. use' = "http1" /\ (\E v \in Writer : writer'[v] = "failed") => ~busy'
  BY <1>1 DEF WritesInductive, TurnsAreKept, busy
<1> QED BY <1>2, <1>3, <1>4, <1>5, <1>6 DEF WritesInductive, TurnsAreKept

(* The writer whose turn it is finds no record pending but its own.         *)
LEMMA PendingIsOwn ==
  ASSUME WritesInductive, ~Http2WriteFailed, NEW w \in Writer, writer[w] = "call", pending # <<>>
  PROVE  pending = Message[w]
<1>1. PICK v \in Writer : writer[v] \in {"call", "wait", "failed"} /\ pending = Message[v]
  BY DEF WritesInductive, TurnsAreKept
<1>2. writer[v] # "failed"
  BY <1>1 DEF WritesInductive, TurnsAreKept, busy, Http2WriteFailed, Use
<1> QED BY <1>1, <1>2 DEF WritesInductive, TurnsAreKept

(* So what SSL_write hands to the socket is the message, whole.             *)
LEMMA WholeMessageGoes ==
  ASSUME WritesInductive, ~Http2WriteFailed, NEW w \in Writer, writer[w] = "call",
         wire' = wire \o pending \o SubSeq(Message[w], Len(pending) + 1, Len(Message[w]))
  PROVE  wire' = wire \o Message[w]
<1>1. wire \in Seq(Bytes) /\ Message[w] \in Seq(Bytes)
  BY MessageBytes DEF WritesInductive, WireIsAccounted
<1>2. CASE pending = <<>>
  <2>1. wire \o <<>> = wire /\ Len(<<>>) + 1 = 1
    BY <1>1, ConcatEmptySeq
  <2> QED BY <1>1, <1>2, <2>1, SubSeqFull
<1>3. CASE pending # <<>>
  <2>1. pending = Message[w]
    BY <1>3, PendingIsOwn
  <2>2. SubSeq(Message[w], Len(Message[w]) + 1, Len(Message[w])) = <<>>
    BY <1>1, SubSeqEmpty
  <2>3. wire \o Message[w] \in Seq(Bytes)
    BY <1>1
  <2> QED BY <2>1, <2>2, <2>3, ConcatEmptySeq
<1> QED BY <1>2, <1>3

LEMMA WriteStep ==
  ASSUME WritesInductive, ~Http2WriteFailed, NEW w \in Writer,
         linen_tls_write_nb(w) \/ linen_tls_write(w)
  PROVE  WritesInductive'
<1>1. PICK answers \in {{"ok", "want", "error"}, {"ok", "error"}} :
        Write(w, answers) /\ (blocking => answers = {"ok", "error"})
  BY DEF linen_tls_write_nb, linen_tls_write
<1>2. UNCHANGED <<use, ssl>> /\ writer[w] = "call"
  BY <1>1 DEF Write, Call
<1>3. CASE ssl = "null"
  <2>1. UNCHANGED <<pending, wire>> /\ writer' = [writer EXCEPT ![w] = "failed"]
    BY <1>1, <1>3 DEF Write
  <2>2. WireIsAccounted'
    BY <1>2, <2>1, WireUntouched DEF WritesInductive, TurnsAreKept
  <2>3. TurnsAreKept'
    BY <1>2, <2>1 DEF WritesInductive, TurnsAreKept, busy
  <2> QED BY <2>2, <2>3 DEF WritesInductive
<1>4. CASE ssl # "null"
  <2>1. PICK answer \in answers :
          /\ SSL_write(Message[w], answer)
          /\ writer' = [writer EXCEPT ![w] = CASE answer = "ok" -> "done"
                                               [] answer = "want" -> "wait"
                                               [] OTHER -> "failed"]
    BY <1>1, <1>4 DEF Write
  <2>2. CASE answer = "error"
    <3>1. UNCHANGED <<pending, wire>> /\ writer' = [writer EXCEPT ![w] = "failed"]
      BY <2>1, <2>2 DEF SSL_write
    <3>2. WireIsAccounted'
      BY <1>2, <3>1, WireUntouched DEF WritesInductive, TurnsAreKept
    <3>3. TurnsAreKept'
      BY <1>2, <3>1 DEF WritesInductive, TurnsAreKept, busy
    <3> QED BY <3>2, <3>3 DEF WritesInductive
  <2>3. CASE answer = "want"
    <3>1. UNCHANGED wire /\ writer' = [writer EXCEPT ![w] = "wait"]
      BY <2>1, <2>3 DEF SSL_write
    <3>2. pending' = Message[w]
      BY <1>2, <2>1, <2>3, PendingIsOwn DEF SSL_write
    <3>3. use \notin {"client", "subscriber"}
      BY <1>1, <2>1, <2>3 DEF blocking
    <3>4. WireIsAccounted'
      BY <1>2, <3>1, WireUntouched DEF WritesInductive, TurnsAreKept
    <3>5. TurnsAreKept'
      BY <1>2, <3>1, <3>2, <3>3 DEF WritesInductive, TurnsAreKept, busy
    <3> QED BY <3>4, <3>5 DEF WritesInductive
  <2>4. CASE answer = "ok"
    <3>1. pending' = <<>> /\ writer' = [writer EXCEPT ![w] = "done"]
      BY <2>1, <2>4 DEF SSL_write
    <3>2. wire' = wire \o Message[w]
      BY <1>2, <2>1, <2>4, WholeMessageGoes DEF SSL_write
    <3>3. \A byte \in ToSet(wire) : Accounted(byte)
      BY DEF WritesInductive, WireIsAccounted
    <3>4. \A byte : Accounted(byte) => Accounted(byte)'
      BY <1>2, <3>1 DEF Accounted, WritesInductive, TurnsAreKept
    <3>5. writer'[w] = "done"
      BY <3>1 DEF WritesInductive, TurnsAreKept
    <3>6. \A byte \in ToSet(Message[w]) : Accounted(byte)'
      BY <3>5 DEF Accounted
    <3>7. \A byte \in ToSet(wire) : byte \notin ToSet(Message[w])
      <4> SUFFICES ASSUME NEW byte \in ToSet(wire), byte \in ToSet(Message[w])
                   PROVE  FALSE
        OBVIOUS
      <4>1. PICK v \in Writer : writer[v] = "done" /\ byte \in ToSet(Message[v])
        BY <1>4, <3>3 DEF Accounted
      <4>2. v # w
        BY <1>2, <4>1
      <4> QED BY <4>1, <4>2, MessageAssumption
    <3>8. WireIsAccounted'
      <4>1. Message[w] \in Seq(Bytes) /\ IsInjective(Message[w])
        BY MessageBytes
      <4>2. \A v \in Writer : writer'[v] = "done" => writer[v] = "done" \/ Message[w] = Message[v]
        BY <3>1 DEF WritesInductive, TurnsAreKept
      <4> QED BY <3>2, <3>4, <3>6, <3>7, <4>1, <4>2, WireTakes DEF WritesInductive
    <3>9. TurnsAreKept'
      BY <1>2, <3>1 DEF WritesInductive, TurnsAreKept, busy
    <3> QED BY <3>8, <3>9 DEF WritesInductive
  <2> QED BY <1>1, <2>1, <2>2, <2>3, <2>4
<1> QED BY <1>3, <1>4

LEMMA WriteThenCloseStep ==
  ASSUME WritesInductive, linen_tls_close
  PROVE  WritesInductive'
<1>1. UNCHANGED <<use, pending, writer>> /\ ssl' = "null"
  BY DEF linen_tls_close
<1>2. CASE UNCHANGED wire
  BY <1>1, <1>2, WritersUntouched
<1>3. CASE wire' = wire \o close_notify /\ ssl = "established"
  <2>1. close_notify \in Seq(Bytes) /\ IsInjective(close_notify)
        /\ ToSet(close_notify) = {"close_notify"}
    <3>1. "close_notify" \in Bytes
      BY DEF Bytes
    <3>3. <<"close_notify">> \in Seq(Bytes) /\ DOMAIN <<"close_notify">> = {1}
      BY <3>1
    <3>2. <<"close_notify">>[1] = "close_notify"
      OBVIOUS
    <3> QED BY <3>2, <3>3 DEF close_notify, IsInjective, ToSet
  <2>2. \A byte \in ToSet(wire) : byte # "close_notify"
    BY <1>3, MessageBytes DEF WritesInductive, WireIsAccounted, Accounted
  <2>3. \A byte : Accounted(byte) => Accounted(byte)'
    BY <1>1 DEF Accounted
  <2>4. Accounted("close_notify")'
    BY <1>1 DEF Accounted
  <2>5. WireIsAccounted'
    BY <1>1, <1>3, <2>1, <2>2, <2>3, <2>4, WireTakes DEF WritesInductive
  <2>6. TurnsAreKept'
    BY <1>1 DEF WritesInductive, TurnsAreKept, busy
  <2> QED BY <2>5, <2>6 DEF WritesInductive
<1> QED BY <1>2, <1>3 DEF linen_tls_close, SSL_shutdown

LEMMA WritesNextStep ==
  ASSUME WritesInductive, ~Http2WriteFailed, Next
  PROVE  WritesInductive'
<1>1. CASE \/ linen_tls_ctx_create \/ linen_tls_client_ctx_create
           \/ linen_tls_client_ctx_create_with_ca \/ linen_tls_set_alpn_protocols
           \/ linen_ssl_ctx_finalizer \/ linen_tls_new_session \/ linen_tls_handshake_nb
  <2>1. UNCHANGED <<use, pending, wire, writer>> /\ (ssl = "null" => ssl' = "null")
    BY <1>1 DEF linen_tls_ctx_create, linen_tls_client_ctx_create,
       linen_tls_client_ctx_create_with_ca, CreateContext, linen_tls_set_alpn_protocols,
       linen_ssl_ctx_finalizer, linen_tls_new_session, linen_tls_handshake_nb, lib
  <2> QED BY <2>1, WritersUntouched
<1>2. CASE linen_tls_read_nb \/ linen_tls_read \/ linen_tls_read_return \/ linen_tls_get_alpn
  <2>1. UNCHANGED <<use, pending, wire, writer, ssl>>
    BY <1>2
      DEF linen_tls_read_nb, linen_tls_read, linen_tls_read_return, linen_tls_get_alpn,
       Call, lib
  <2> QED BY <2>1, WritersUntouched
<1>3. CASE pollForRead \/ CloseSocket \/ linen_ssl_finalizer \/ Arrive
  <2>1. UNCHANGED <<use, pending, wire, writer>> /\ (ssl = "null" => ssl' = "null")
    BY <1>3 DEF pollForRead, CloseSocket, linen_ssl_finalizer, Arrive, lib
  <2> QED BY <2>1, WritersUntouched
<1> QED BY <1>1, <1>2, <1>3, TurnStep, WriteStep, WriteThenCloseStep DEF Next

LEMMA WritesStart ==
  ASSUME Init
  PROVE  WritesInductive
<1>1. /\ use \in Use /\ writer = [w \in Writer |-> "idle"]
      /\ pending = <<>> /\ wire = <<>>
  BY UsesAssumption DEF Init
<1>2. wire \in Seq(Bytes) /\ IsInjective(wire) /\ ToSet(wire) = {}
  BY <1>1, EmptyToSet
<1>3. WireIsAccounted
  BY <1>1, <1>2 DEF WireIsAccounted
<1>4. TurnsAreKept
  BY <1>1 DEF TurnsAreKept, busy
<1> QED BY <1>3, <1>4 DEF WritesInductive

(* The types of the session, which the properties of the others do not      *)
(* need: every flag that an OpenSSL call sets is a Boolean after it.        *)
LEMMA FlagIsBoolean ==
  ASSUME NEW answer, failed \in BOOLEAN, failed' = (failed \/ answer = "error")
  PROVE  failed' \in BOOLEAN
OBVIOUS

LEMMA TlsTypeStep ==
  ASSUME TypeOK, Next
  PROVE  TypeOK'
<1> DEFINE Flags == {alpn, failed, fatal, held} \subseteq BOOLEAN
<1>0. ASSUME Flags PROVE reach \subseteq {"context", "ssl"}
  BY DEF reach
<1>1. CASE \/ linen_tls_ctx_create \/ linen_tls_client_ctx_create
           \/ linen_tls_client_ctx_create_with_ca \/ linen_tls_set_alpn_protocols
           \/ linen_ssl_ctx_finalizer
  BY <1>1 DEF linen_tls_ctx_create, linen_tls_client_ctx_create, TypeOK, lib,
     linen_tls_client_ctx_create_with_ca, CreateContext, linen_tls_set_alpn_protocols,
     linen_ssl_ctx_finalizer
<1>2. CASE linen_tls_new_session \/ linen_tls_handshake_nb
  BY <1>2 DEF linen_tls_new_session, linen_tls_handshake_nb, TypeOK, lib
<1>3. CASE pollForRead \/ CloseSocket \/ linen_ssl_finalizer \/ Arrive
  BY <1>3, <1>0 DEF pollForRead, CloseSocket, linen_ssl_finalizer, Arrive, TypeOK, lib
<1>4. ASSUME NEW w \in Writer, Turn(w) \/ pollForWrite(w) PROVE TypeOK'
  BY <1>4, TurnBegins DEF Begins, pollForWrite, TypeOK, lib
<1>5. CASE linen_tls_read \/ linen_tls_get_alpn \/ linen_tls_close
  BY <1>5, <1>0
    DEF linen_tls_read, linen_tls_get_alpn, linen_tls_close, Call, TypeOK, lib
<1>6. ASSUME NEW answer, SSL_read(answer) PROVE fatal' \in {fatal, TRUE}
  BY <1>6 DEF SSL_read
<1>7. CASE linen_tls_read_nb
  <2>1. /\ UNCHANGED <<use, context, alpn, ssl, held, socket, writer>> /\ touched' = reach
        /\ reader' \in {"idle", "over", "wantRead", "wantWrite"}
    BY <1>7 DEF linen_tls_read_nb, Call
  <2>2. fatal' \in {fatal, TRUE}
    BY <1>6, <1>7 DEF linen_tls_read_nb
  <2>3. failed' \in BOOLEAN
    BY <1>7, FlagIsBoolean DEF linen_tls_read_nb, TypeOK
  <2> QED BY <2>1, <2>2, <2>3 DEF TypeOK, reach
<1>8. CASE linen_tls_read_return
  <2>1. /\ UNCHANGED <<use, context, alpn, ssl, held, socket, writer>> /\ touched' = reach
        /\ reader' \in {"idle", "over"}
    BY <1>8 DEF linen_tls_read_return
  <2>2. fatal' \in {fatal, TRUE}
    BY <1>6, <1>8 DEF linen_tls_read_return
  <2>3. failed' \in BOOLEAN
    BY <1>8, FlagIsBoolean DEF linen_tls_read_return, TypeOK
  <2> QED BY <2>1, <2>2, <2>3 DEF TypeOK, reach
<1>9. ASSUME NEW w \in Writer, linen_tls_write_nb(w) \/ linen_tls_write(w)
      PROVE  TypeOK'
  <2>1. PICK answers : Write(w, answers)
    BY <1>9 DEF linen_tls_write_nb, linen_tls_write
  <2>2. /\ UNCHANGED <<use, context, alpn, ssl, held, socket, reader>> /\ touched' = reach
        /\ \E r \in {"done", "wait", "failed"} : writer' = [writer EXCEPT ![w] = r]
    BY <2>1 DEF Write, Call
  <2>3. fatal' \in {fatal, TRUE}
    BY <2>1 DEF Write, SSL_write
  <2>4. failed' \in BOOLEAN
    BY <2>1, FlagIsBoolean DEF Write, TypeOK
  <2> QED BY <2>2, <2>3, <2>4 DEF TypeOK, reach
<1> QED BY <1>1, <1>2, <1>3, <1>4, <1>5, <1>7, <1>8, <1>9 DEF Next

LEMMA TlsTypeAlways == Spec => []TypeOK
<1>1. Init => TypeOK
  BY UsesAssumption DEF Init, TypeOK
<1>2. TypeOK /\ [Next]_vars => TypeOK'
  BY TlsTypeStep DEF vars, lib, TypeOK
<1> QED BY <1>1, <1>2, PTL DEF Spec

(* A write that failed has failed for good.                                 *)
LEMMA FailureStays ==
  ASSUME TypeOK, Http2WriteFailed, [Next]_vars
  PROVE  Http2WriteFailed'
<1>1. PICK v \in Writer : use = "http2" /\ writer[v] = "failed"
  BY DEF Http2WriteFailed
<1>2. CASE \/ linen_tls_ctx_create \/ linen_tls_client_ctx_create
           \/ linen_tls_client_ctx_create_with_ca \/ linen_tls_set_alpn_protocols
           \/ linen_ssl_ctx_finalizer \/ linen_tls_new_session \/ linen_tls_handshake_nb
  BY <1>1, <1>2
    DEF linen_tls_ctx_create, linen_tls_client_ctx_create, Http2WriteFailed,
       linen_tls_client_ctx_create_with_ca, CreateContext, linen_tls_set_alpn_protocols,
       linen_ssl_ctx_finalizer, linen_tls_new_session, linen_tls_handshake_nb
<1>3. CASE \/ linen_tls_read_nb \/ linen_tls_read \/ linen_tls_read_return
           \/ linen_tls_get_alpn
  BY <1>1, <1>3
    DEF linen_tls_read_nb, linen_tls_read, linen_tls_read_return, linen_tls_get_alpn,
       Call, Http2WriteFailed
<1>4. CASE \/ pollForRead \/ CloseSocket \/ linen_ssl_finalizer \/ Arrive
           \/ linen_tls_close \/ UNCHANGED vars
  BY <1>1, <1>4
    DEF pollForRead, CloseSocket, linen_ssl_finalizer, Arrive, linen_tls_close, vars,
       Http2WriteFailed
<1>5. ASSUME NEW w \in Writer,
             Turn(w) \/ pollForWrite(w) \/ linen_tls_write_nb(w) \/ linen_tls_write(w)
      PROVE  Http2WriteFailed'
  <2>1. /\ use' = use /\ writer[w] \in {"idle", "wait", "call"}
        /\ \E r : writer' = [writer EXCEPT ![w] = r]
    BY <1>5, TurnBegins
      DEF Begins, pollForWrite, linen_tls_write_nb, linen_tls_write, Write, Call
  <2>2. writer'[v] = "failed"
    BY <1>1, <2>1 DEF TypeOK
  <2> QED BY <1>1, <2>1, <2>2 DEF Http2WriteFailed
<1> QED BY <1>2, <1>3, <1>4, <1>5 DEF Next

(* WritesAreWhole: a write that returned went out whole, in one piece and   *)
(* once, with nothing in between, whoever uses the session: a write that    *)
(* timed out is retried or was the last (an HTTP/1 server), is never left   *)
(* half done (the blocking sockets), or keeps the lock until it is done (an *)
(* HTTP/2 server, as long as no write of it has failed).                    *)
THEOREM WritesGoOutWhole == Spec => []WritesAreWhole
<1> DEFINE WritesInv == Http2WriteFailed \/ WritesInductive
<1>1. Init => WritesInv
  BY WritesStart
<1>2. TypeOK /\ WritesInv /\ [Next]_vars => WritesInv'
  <2>1. WritesInductive /\ UNCHANGED vars => WritesInductive'
    BY WritersUntouched DEF vars, lib
  <2>2. WritesInductive /\ ~Http2WriteFailed /\ Next => WritesInductive'
    BY WritesNextStep
  <2> QED BY <2>1, <2>2, FailureStays
<1>3. WritesInductive /\ ~Http2WriteFailed => OwnBytes /\ NothingWritesBetween
  BY PendingIsOwn
    DEF WritesInductive, WireIsAccounted, Whole, OwnBytes, NothingWritesBetween
<1>4. Spec => []TypeOK
  BY TlsTypeAlways
<1>5. TypeOK /\ WritesInv => WritesAreWhole
  BY <1>3 DEF WritesAreWhole
<1> QED BY <1>1, <1>2, <1>4, <1>5, PTL DEF Spec

-----------------------------------------------------------------------------
(****************************************************************************)
(* The readers of lines, for any input, sizes of buffers and of reads: they *)
(* implement ByteSource.                                                    *)
(****************************************************************************)

Byte == UNION {ToSet(input) : input \in Input \cup SrcInput}

LEMMA BytesJoin ==
  \A s, t, u \in Seq(Byte) : (s \o t) \o u = s \o (t \o u)
BY ConcatAssociative

LEMMA InputBytes == Input \cup SrcInput \subseteq Seq(Byte)
<1> SUFFICES ASSUME NEW input \in Input \cup SrcInput PROVE input \in Seq(Byte)
  OBVIOUS
<1>1. ToSet(input) \subseteq Byte
  BY DEF Byte
<1> QED BY <1>1, ReaderAssumption, SeqMonotonic

(* The front and the rest of a sequence, and of two in a row.               *)
LEMMA FrontAndRest ==
  ASSUME NEW S, NEW s \in Seq(S), NEW d \in 0..Len(s)
  PROVE  /\ SubSeq(s, 1, d) \in Seq(S) /\ Len(SubSeq(s, 1, d)) = d
         /\ SubSeq(s, d + 1, Len(s)) \in Seq(S)
         /\ Len(SubSeq(s, d + 1, Len(s))) = Len(s) - d
         /\ \A i \in 1..d : SubSeq(s, 1, d)[i] = s[i]
         /\ \A i \in 1..Len(s) - d : SubSeq(s, d + 1, Len(s))[i] = s[d + i]
OBVIOUS

LEMMA FrontThenRest ==
  ASSUME NEW S, NEW s \in Seq(S), NEW d \in 0..Len(s)
  PROVE  SubSeq(s, 1, d) \o SubSeq(s, d + 1, Len(s)) = s
<1>1. /\ 1 \in 1..Len(s) + 1 /\ d \in 1 - 1..Len(s) /\ Len(s) \in d..Len(s)
  OBVIOUS
<1>2. SubSeq(s, 1, d) \o SubSeq(s, d + 1, Len(s)) = SubSeq(s, 1, Len(s))
  BY <1>1, ConcatAdjacentSubSeq
<1> QED BY <1>2, SubSeqFull

LEMMA FrontOfTwo ==
  ASSUME NEW S, NEW s \in Seq(S), NEW t \in Seq(S), NEW d \in 0..Len(s)
  PROVE  /\ SubSeq(s \o t, 1, d) = SubSeq(s, 1, d)
         /\ SubSeq(s \o t, d + 1, Len(s \o t)) = SubSeq(s, d + 1, Len(s)) \o t
<1>1. s \o t \in Seq(S) /\ Len(s \o t) = Len(s) + Len(t) /\ d \in 0..Len(s \o t)
  BY ConcatProperties
<1>2. \A i \in 1..Len(s) + Len(t) : (s \o t)[i] = IF i <= Len(s) THEN s[i] ELSE t[i - Len(s)]
  BY ConcatProperties
<1>3. SubSeq(s \o t, 1, d) = SubSeq(s, 1, d)
  <2>1. \A i \in 1..d : SubSeq(s \o t, 1, d)[i] = SubSeq(s, 1, d)[i]
    BY <1>1, <1>2, FrontAndRest
  <2> QED BY <1>1, <2>1, FrontAndRest, SeqEqual
<1>4. SubSeq(s \o t, d + 1, Len(s \o t)) = SubSeq(s, d + 1, Len(s)) \o t
  <2> DEFINE u == SubSeq(s \o t, d + 1, Len(s \o t))
             v == SubSeq(s, d + 1, Len(s))
  <2>1. u \in Seq(S) /\ Len(u) = Len(s) + Len(t) - d
        /\ \A i \in 1..Len(s) + Len(t) - d : u[i] = (s \o t)[d + i]
    BY <1>1, FrontAndRest
  <2>2. v \in Seq(S) /\ Len(v) = Len(s) - d /\ \A i \in 1..Len(s) - d : v[i] = s[d + i]
    BY FrontAndRest
  <2> HIDE DEF u, v
  <2>3. /\ v \o t \in Seq(S) /\ Len(v \o t) = Len(v) + Len(t)
        /\ \A i \in 1..Len(v) + Len(t) : (v \o t)[i] = IF i <= Len(v) THEN v[i] ELSE t[i - Len(v)]
    BY <2>2, ConcatProperties
  <2>4. ASSUME NEW i \in 1..Len(u) PROVE u[i] = (v \o t)[i]
    <3>1. i \in 1..Len(s) + Len(t) - d /\ d + i \in 1..Len(s) + Len(t)
      BY <2>1
    <3>2. CASE d + i <= Len(s)
      BY <1>2, <2>1, <2>2, <2>3, <3>1, <3>2
    <3>3. CASE ~(d + i <= Len(s))
      <4>1. /\ u[i] = (s \o t)[d + i] /\ d + i \in 1..Len(s) + Len(t)
            /\ ~(d + i <= Len(s))
        BY <2>1, <3>1, <3>3
      <4>2. u[i] = t[d + i - Len(s)]
        BY <1>2, <4>1
      <4>3. i \in 1..Len(v) + Len(t) /\ ~(i <= Len(v)) /\ i - Len(v) = d + i - Len(s)
        BY <2>2, <3>1, <3>3
      <4>4. (v \o t)[i] = t[i - Len(v)]
        BY <2>3, <4>3
      <4> QED BY <4>2, <4>3, <4>4
    <3> QED BY <3>2, <3>3
  <2>5. Len(u) = Len(v \o t)
    BY <2>1, <2>2, <2>3
  <2>6. u = v \o t
    BY <2>1, <2>3, <2>4, <2>5, SeqEqual
  <2> QED BY <2>6 DEF u, v
<1> QED BY <1>3, <1>4

LEMMA RestOfRest ==
  ASSUME NEW S, NEW s \in Seq(S), NEW p \in 0..Len(s), NEW d \in 0..Len(s) - p
  PROVE  /\ SubSeq(SubSeq(s, p + 1, Len(s)), d + 1, Len(s) - p) = SubSeq(s, p + d + 1, Len(s))
         /\ SubSeq(SubSeq(s, p + 1, Len(s)), 1, d) = SubSeq(s, p + 1, p + d)
<1> DEFINE r == SubSeq(s, p + 1, Len(s))
<1>1. r \in Seq(S) /\ Len(r) = Len(s) - p /\ \A i \in 1..Len(s) - p : r[i] = s[p + i]
  BY FrontAndRest
<1> HIDE DEF r
<1>2. SubSeq(r, d + 1, Len(s) - p) = SubSeq(s, p + d + 1, Len(s))
  <2>0. d \in 0..Len(r) /\ Len(r) - d = Len(s) - p - d
    BY <1>1
  <2>1. /\ SubSeq(r, d + 1, Len(r)) \in Seq(S)
        /\ Len(SubSeq(r, d + 1, Len(r))) = Len(s) - p - d
        /\ \A i \in 1..Len(s) - p - d : SubSeq(r, d + 1, Len(r))[i] = r[d + i]
    <3>1. /\ SubSeq(r, d + 1, Len(r)) \in Seq(S)
          /\ Len(SubSeq(r, d + 1, Len(r))) = Len(r) - d
          /\ \A i \in 1..Len(r) - d : SubSeq(r, d + 1, Len(r))[i] = r[d + i]
      BY <1>1, <2>0, FrontAndRest, Zenon
    <3> QED BY <2>0, <3>1, Zenon
  <2>2. /\ SubSeq(s, p + d + 1, Len(s)) \in Seq(S)
        /\ Len(SubSeq(s, p + d + 1, Len(s))) = Len(s) - p - d
        /\ \A i \in 1..Len(s) - p - d : SubSeq(s, p + d + 1, Len(s))[i] = s[p + d + i]
    BY FrontAndRest
  <2>3. \A i \in 1..Len(s) - p - d : r[d + i] = s[p + d + i]
    BY <1>1
  <2> QED BY <1>1, <2>1, <2>2, <2>3, SeqEqual
<1>3. SubSeq(r, 1, d) = SubSeq(s, p + 1, p + d)
  <2>1. /\ SubSeq(r, 1, d) \in Seq(S) /\ Len(SubSeq(r, 1, d)) = d
        /\ \A i \in 1..d : SubSeq(r, 1, d)[i] = r[i]
    BY <1>1, FrontAndRest
  <2>2. /\ SubSeq(s, p + 1, p + d) \in Seq(S) /\ Len(SubSeq(s, p + 1, p + d)) = d
        /\ \A i \in 1..d : SubSeq(s, p + 1, p + d)[i] = s[p + i]
    <3>1. PICK a, b : a = p + 1 /\ b = p + d
      OBVIOUS
    <3>2. a \in Int /\ b \in Int /\ a <= b + 1 /\ b - a + 1 = d /\ \A i \in a..b : s[i] \in S
      BY <3>1
    <3>3. /\ SubSeq(s, a, b) \in Seq(S)
          /\ Len(SubSeq(s, a, b)) = IF a <= b THEN b - a + 1 ELSE 0
          /\ \A i \in 1..b - a + 1 : SubSeq(s, a, b)[i] = s[a + i - 1]
      BY <3>2, SubSeqProperties
    <3>4. Len(SubSeq(s, a, b)) = d
      BY <3>2, <3>3
    <3>5. \A i \in 1..d : SubSeq(s, a, b)[i] = s[a + i - 1]
      BY <3>2, <3>3
    <3>6. \A i \in 1..d : a + i - 1 = p + i
      BY <3>1
    <3>7. \A i \in 1..d : SubSeq(s, a, b)[i] = s[p + i]
      BY <3>5, <3>6
    <3> QED BY <3>1, <3>3, <3>4, <3>7
  <2> QED BY <1>1, <2>1, <2>2, SeqEqual
<1> QED BY <1>2, <1>3 DEF r

LEMMA RestOfTwo ==
  ASSUME NEW S, NEW s \in Seq(S), NEW t \in Seq(S), NEW d \in 0..Len(t)
  PROVE  /\ SubSeq(s \o t, Len(s) + d + 1, Len(s \o t)) = SubSeq(t, d + 1, Len(t))
         /\ SubSeq(s \o t, 1, Len(s) + d) = s \o SubSeq(t, 1, d)
<1> DEFINE u == SubSeq(t, 1, d)
           v == SubSeq(t, d + 1, Len(t))
<1>1. u \in Seq(S) /\ v \in Seq(S) /\ u \o v = t /\ Len(u) = d
  BY FrontAndRest, FrontThenRest
<1> HIDE DEF u, v
<1>2. s \o t = (s \o u) \o v /\ s \o u \in Seq(S) /\ Len(s \o u) = Len(s) + d
  <2>0. u \in Seq(S) /\ v \in Seq(S)
    BY <1>1
  <2>1. (s \o u) \o v = s \o (u \o v)
    BY <2>0, ConcatAssociative, SMTT(30)
  <2> QED BY <1>1, <2>1, ConcatProperties
<1>3. /\ SubSeq(s \o t, 1, Len(s) + d) = SubSeq(s \o u, 1, Len(s) + d)
      /\ SubSeq(s \o t, Len(s) + d + 1, Len(s \o t))
           = SubSeq(s \o u, Len(s) + d + 1, Len(s \o u)) \o v
  <2> DEFINE w == s \o u
  <2>1. w \in Seq(S) /\ Len(s) + d \in 0..Len(w)
    BY <1>2
  <2> HIDE DEF w
  <2>2. /\ SubSeq(w \o v, 1, Len(s) + d) = SubSeq(w, 1, Len(s) + d)
        /\ SubSeq(w \o v, Len(s) + d + 1, Len(w \o v)) = SubSeq(w, Len(s) + d + 1, Len(w)) \o v
    BY <1>1, <2>1, FrontOfTwo
  <2> QED BY <1>2, <2>2 DEF w
<1>4. /\ SubSeq(s \o u, 1, Len(s \o u)) = s \o u
      /\ SubSeq(s \o u, Len(s \o u) + 1, Len(s \o u)) = <<>>
  BY <1>2, SubSeqFull, SubSeqEmpty
<1>5. <<>> \o v = v
  BY <1>1, ConcatEmptySeq
<1> QED BY <1>2, <1>3, <1>4, <1>5 DEF u, v

LEMMA WholeAndRest ==
  ASSUME NEW S, NEW s \in Seq(S), NEW t \in Seq(S)
  PROVE  /\ SubSeq(s \o t, 1, Len(s)) = s
         /\ SubSeq(s \o t, Len(s) + 1, Len(s \o t)) = t
         /\ Len(s) \in 0..Len(s \o t)
<1>1. /\ SubSeq(s \o t, 1, Len(s)) = SubSeq(s, 1, Len(s))
      /\ SubSeq(s \o t, Len(s) + 1, Len(s \o t)) = SubSeq(s, Len(s) + 1, Len(s)) \o t
  BY FrontOfTwo
<1>2. SubSeq(s, 1, Len(s)) = s /\ SubSeq(s, Len(s) + 1, Len(s)) = <<>> /\ <<>> \o t = t
  BY SubSeqFull, SubSeqEmpty, ConcatEmptySeq
<1> QED BY <1>1, <1>2, ConcatProperties

(* No CRLF in a sequence. *)
OneLine(s) == \A i \in 1..Len(s) - 1 : ~(s[i] = CR /\ s[i + 1] = LF)

LEMMA OneLineEmpty == OneLine(<<>>)
BY DEF OneLine

(* The first CRLF of a sequence is the first of any longer one.             *)
LEMMA FirstLine ==
  ASSUME NEW g \in Seq(Byte), NEW rest \in Seq(Byte),
         NEW e \in 1..Len(g) - 1, g[e] = CR, g[e + 1] = LF,
         \A i \in 1..e - 1 : ~(g[i] = CR /\ g[i + 1] = LF)
  PROVE  /\ e \in 1..Len(g \o rest) - 1
         /\ (g \o rest)[e] = CR /\ (g \o rest)[e + 1] = LF
         /\ \A i \in 1..Len(g \o rest) - 1 :
              (g \o rest)[i] = CR /\ (g \o rest)[i + 1] = LF => e <= i
         /\ SubSeq(g \o rest, 1, e - 1) = SubSeq(g, 1, e - 1)
         /\ SubSeq(g \o rest, e - 1 + 2 + 1, Len(g \o rest)) = SubSeq(g, e + 2, Len(g)) \o rest
<1>1. /\ Len(g \o rest) = Len(g) + Len(rest) /\ Len(g) \in Nat /\ Len(rest) \in Nat
      /\ \A i \in 1..Len(g) + Len(rest) :
           (g \o rest)[i] = IF i <= Len(g) THEN g[i] ELSE rest[i - Len(g)]
  BY ConcatProperties
<1>2. /\ e \in 1..Len(g \o rest) - 1
      /\ (g \o rest)[e] = CR /\ (g \o rest)[e + 1] = LF
  BY <1>1
<1>3. ASSUME NEW i \in 1..Len(g \o rest) - 1, (g \o rest)[i] = CR, (g \o rest)[i + 1] = LF,
             ~(e <= i)
      PROVE  FALSE
  <2>1. i \in 1..e - 1 /\ i <= Len(g) /\ i + 1 <= Len(g) /\ i + 1 \in 1..Len(g) + Len(rest)
    BY <1>1, <1>3
  <2>2. (g \o rest)[i] = g[i] /\ (g \o rest)[i + 1] = g[i + 1]
    BY <1>1, <2>1
  <2> QED BY <1>3, <2>1, <2>2
<1>4. SubSeq(g \o rest, 1, e - 1) = SubSeq(g, 1, e - 1)
  BY FrontOfTwo
<1>5. e + 1 \in 0..Len(g) /\ e + 1 + 1 = e + 2 /\ e - 1 + 2 + 1 = e + 2
  OBVIOUS
<1>6. SubSeq(g \o rest, e + 1 + 1, Len(g \o rest)) = SubSeq(g, e + 1 + 1, Len(g)) \o rest
  BY <1>5, FrontOfTwo
<1> QED BY <1>2, <1>3, <1>4, <1>5, <1>6

LEMMA ReaderConstants ==
  /\ RECVBUF_SIZE \in Nat \ {0} /\ LineSize \in Nat \ {0} /\ Retries \in Nat \ {0}
  /\ Chunk \in Nat \ {0} /\ maxLineBytes \in Nat
  /\ \A size \in Sizes : size \in Nat \ {0}
  /\ <<>> \in Seq(Byte)
BY ReaderAssumption

LEMMA SmallestOf ==
  ASSUME NEW S \in SUBSET Nat, S # {}
  PROVE  Rb!Min(S) \in S /\ \A k \in S : Rb!Min(S) <= k
BY LeastMember DEF Rb!Min

LEMMA SrcSmallestOf ==
  ASSUME NEW S \in SUBSET Nat, S # {}
  PROVE  Src!Min(S) \in S /\ \A k \in S : Src!Min(S) <= k
BY LeastMember DEF Src!Min

-----------------------------------------------------------------------------
(* RecvBuffer *)

RbInput == IF broken THEN <<>> ELSE line \o Rb!unread \o kernel \o peer

(* A reader holds no line that is complete, and no more than it was asked   *)
(* for; nothing is under way after a failure, and a peer that closed has    *)
(* nothing more to send.                                                    *)
RbTypes ==
  /\ {peer, kernel, buf, line} \subseteq Seq(Byte)
  /\ Len(buf) <= RECVBUF_SIZE /\ pos \in 0..Len(buf)
  /\ n \in Nat /\ retry \in 0..Retries - 1 /\ broken \in BOOLEAN

RbInv ==
  /\ RbTypes
  /\ link \in {"open", "closed", "reset"} /\ call \in {"none", "readline", "readn"}
  /\ link = "closed" => peer = <<>>
  /\ broken => call = "none"
  /\ call = "none" => line = <<>>
  /\ call = "readline" => OneLine(line) /\ Len(line) < LineSize
  /\ call = "readn" => Len(line) < n

RbKeeps == RbInv' /\ [Rb!Abstract!Next]_(Rb!Abstract!vars)

LEMMA RbAbstractVars ==
  ASSUME RbInput' = RbInput, UNCHANGED <<result, broken>>
  PROVE  UNCHANGED Rb!Abstract!vars
BY DEF Rb!Abstract!vars, RbInput

(* A read of t bytes, skipping the CRLF or not. *)
LEMMA RbTake ==
  ASSUME NEW t, NEW skipped, ~broken, UNCHANGED broken,
         result' = SubSeq(RbInput, 1, t),
         RbInput' = SubSeq(RbInput, t + skipped + 1, Len(RbInput))
  PROVE  Rb!Abstract!Take(t, skipped)
BY DEF Rb!Abstract!Take, RbInput

LEMMA RbRead ==
  ASSUME NEW t \in 0..Len(RbInput), t = 0 => RbInput = <<>>, ~broken, UNCHANGED broken,
         result' = SubSeq(RbInput, 1, t),
         RbInput' = SubSeq(RbInput, t + 1, Len(RbInput))
  PROVE  Rb!Abstract!Read
<1>1. t + 0 = t
  OBVIOUS
<1>2. Rb!Abstract!Take(t, 0)
  BY <1>1, RbTake
<1> QED BY <1>2 DEF Rb!Abstract!Read, RbInput

LEMMA RbFirstLine ==
  ASSUME NEW g \in Seq(Byte), NEW rest \in Seq(Byte), RbInput = g \o rest,
         NEW e \in 1..Len(g) - 1, g[e] = CR, g[e + 1] = LF,
         \A i \in 1..e - 1 : ~(g[i] = CR /\ g[i + 1] = LF),
         ~broken, UNCHANGED broken, result' = SubSeq(g, 1, e - 1),
         RbInput' = SubSeq(g, e + 2, Len(g)) \o rest
  PROVE  Rb!Abstract!ReadLine
<1>1. /\ e \in 1..Len(RbInput) - 1
      /\ RbInput[e] = CR /\ RbInput[e + 1] = LF
      /\ \A i \in 1..Len(RbInput) - 1 : RbInput[i] = CR /\ RbInput[i + 1] = LF => e <= i
      /\ SubSeq(RbInput, 1, e - 1) = SubSeq(g, 1, e - 1)
      /\ SubSeq(RbInput, e - 1 + 2 + 1, Len(RbInput)) = SubSeq(g, e + 2, Len(g)) \o rest
  BY FirstLine, ZenonT(40)
<1>2. Rb!Abstract!Take(e - 1, 2)
  BY <1>1, RbTake
<1>3. Rb!Abstract!ends = {i \in 1..Len(RbInput) - 1 : RbInput[i] = CR /\ RbInput[i + 1] = LF}
  BY DEF Rb!Abstract!ends, RbInput
<1>4. e \in Rb!Abstract!ends /\ \A j \in Rb!Abstract!ends : e <= j
  BY <1>1, <1>3
<1> QED BY <1>2, <1>4 DEF Rb!Abstract!ReadLine

LEMMA RbLastLine ==
  ASSUME RbInput \in Seq(Byte), OneLine(RbInput), ~broken, UNCHANGED broken,
         result' = RbInput, RbInput' = <<>>
  PROVE  Rb!Abstract!ReadLine
<1>1. Rb!Abstract!ends = {}
  BY DEF Rb!Abstract!ends, RbInput, OneLine
<1>2. /\ SubSeq(RbInput, 1, Len(RbInput)) = RbInput
      /\ SubSeq(RbInput, Len(RbInput) + 0 + 1, Len(RbInput)) = <<>>
  BY SubSeqFull
<1>3. Rb!Abstract!Take(Len(RbInput), 0)
  BY <1>2, RbTake
<1> QED BY <1>1, <1>3 DEF Rb!Abstract!ReadLine, RbInput

LEMMA RbUnread ==
  ASSUME RbTypes
  PROVE  /\ {peer, kernel, buf, line, Rb!unread} \subseteq Seq(Byte)
         /\ Len(Rb!unread) = Len(buf) - pos
         /\ Len(Rb!gathered) = Len(line) + Len(Rb!unread) /\ Rb!gathered \in Seq(Byte)
         /\ ~broken => RbInput = Rb!gathered \o kernel \o peer /\ RbInput \in Seq(Byte)
<1>1. Rb!unread \in Seq(Byte) /\ Len(Rb!unread) = Len(buf) - pos
  BY FrontAndRest DEF RbTypes, Rb!unread
<1> QED BY <1>1, ConcatProperties DEF RbTypes, Rb!gathered, RbInput

LEMMA RbGathered ==
  ASSUME RbInv
  PROVE  Rb!gathered \in Seq(Byte) /\ kernel \in Seq(Byte) /\ peer \in Seq(Byte)
BY RbUnread DEF RbInv

(* What the peer sends joins what has arrived. *)
LEMMA SentIsKept ==
  \A g, q, s, t \in Seq(Byte) : (g \o (q \o s)) \o t = (g \o q) \o (s \o t)
<1> SUFFICES ASSUME NEW g \in Seq(Byte), NEW q \in Seq(Byte),
                    NEW s \in Seq(Byte), NEW t \in Seq(Byte)
             PROVE  (g \o (q \o s)) \o t = (g \o q) \o (s \o t)
  OBVIOUS
<1>1. g \o (q \o s) = (g \o q) \o s
  BY BytesJoin, Zenon
<1>2. g \o q \in Seq(Byte)
  BY ConcatProperties
<1>3. ((g \o q) \o s) \o t = (g \o q) \o (s \o t)
  BY <1>2, BytesJoin, Zenon
<1> QED BY <1>1, <1>3

(* The peer sends, or hangs up. *)
LEMMA RbPeerStep ==
  ASSUME RbInv, Rb!Send \/ Rb!Hangup
  PROVE  RbKeeps
<1> USE DEF RbKeeps
<1>0. RbTypes
  BY DEF RbInv
<1>1. CASE Rb!Send
  <2>1. PICK k \in 1..Len(peer) : /\ kernel' = kernel \o SubSeq(peer, 1, k)
                                  /\ peer' = SubSeq(peer, k + 1, Len(peer))
    BY <1>1 DEF Rb!Send
  <2>2. /\ UNCHANGED <<link, buf, pos, call, n, line, retry, result, broken>>
        /\ link = "open"
    BY <1>1 DEF Rb!Send, Rb!bufVars, Rb!callVars
  <2>3. /\ SubSeq(peer, 1, k) \in Seq(Byte) /\ peer' \in Seq(Byte)
        /\ SubSeq(peer, 1, k) \o peer' = peer /\ kernel' \in Seq(Byte)
    BY <1>0, <2>1, FrontAndRest, FrontThenRest, ConcatProperties DEF RbTypes
  <2>4. Rb!gathered' = Rb!gathered
    BY <2>2 DEF Rb!gathered, Rb!unread
  <2>5. Rb!gathered \o kernel' \o peer' = Rb!gathered \o kernel \o peer
    <3>1. PICK g, s, t : g = Rb!gathered /\ s = SubSeq(peer, 1, k) /\ t = peer'
      OBVIOUS
    <3>2. g \in Seq(Byte) /\ kernel \in Seq(Byte) /\ s \in Seq(Byte) /\ t \in Seq(Byte)
      BY <2>3, <3>1, RbGathered
    <3>3. (g \o (kernel \o s)) \o t = (g \o kernel) \o (s \o t)
      <4>1. \A w, x \in Seq(Byte) : (g \o (kernel \o w)) \o x = (g \o kernel) \o (w \o x)
        BY <3>2, SentIsKept
      <4> QED BY <4>1, <3>2
    <3> QED BY <2>1, <2>3, <3>1, <3>3
  <2>6. RbInput' = RbInput
    BY <1>0, <2>2, <2>4, <2>5 DEF RbInput, Rb!gathered
  <2>7. RbInv'
    BY <2>2, <2>3 DEF RbInv, RbTypes
  <2> QED BY <2>2, <2>6, <2>7, RbAbstractVars
<1>2. CASE Rb!Hangup
  <2>1. /\ UNCHANGED <<peer, kernel, buf, pos, call, n, line, retry, result, broken>>
        /\ link' \in {"closed", "reset"} /\ (link' = "closed" => peer = <<>>)
    BY <1>2 DEF Rb!Hangup, Rb!bufVars, Rb!callVars
  <2>2. RbInput' = RbInput
    BY <2>1 DEF RbInput, Rb!unread
  <2>3. RbInv'
    BY <2>1 DEF RbInv, RbTypes
  <2> QED BY <2>1, <2>2, <2>3, RbAbstractVars
<1> QED BY <1>1, <1>2

(* A call begins. *)
LEMMA RbCallStep ==
  ASSUME RbInv, Rb!linen_recvbuf_readline \/ Rb!linen_recvbuf_readn
  PROVE  RbKeeps
<1>1. /\ UNCHANGED <<peer, kernel, link, buf, pos, result, broken>>
      /\ call = "none" /\ ~broken /\ line' = <<>> /\ retry' = 0
      /\ \/ call' = "readline" /\ UNCHANGED n
         \/ call' = "readn" /\ n' \in Sizes
  BY DEF Rb!linen_recvbuf_readline, Rb!linen_recvbuf_readn, Rb!bufVars
<1>2. RbInput' = RbInput
  BY <1>1 DEF RbInv, RbInput, Rb!unread
<1>3. RbTypes'
  BY <1>1, ReaderConstants DEF RbInv, RbTypes
<1>4. OneLine(line') /\ Len(line') = 0
  BY <1>1, OneLineEmpty
<1>5. RbInv'
  BY <1>1, <1>3, <1>4, ReaderConstants DEF RbInv
<1> QED BY <1>1, <1>2, <1>5, RbAbstractVars DEF RbKeeps

(* A read fails: the input is given up. *)
LEMMA RbErrorStep ==
  ASSUME RbInv, call # "none", Rb!Error, UNCHANGED <<peer, link>>,
         {kernel', buf'} \subseteq Seq(Byte), Len(buf') <= RECVBUF_SIZE, pos' \in 0..Len(buf')
  PROVE  RbKeeps
<1>1. /\ broken' = TRUE /\ call' = "none" /\ line' = <<>> /\ UNCHANGED <<n, retry, result>>
      /\ ~broken
  BY DEF Rb!Error, RbInv
<1>2. RbInv'
  BY <1>1 DEF RbInv, RbTypes
<1>3. Rb!Abstract!Fail
  BY <1>1 DEF Rb!Abstract!Fail
<1> QED BY <1>2, <1>3 DEF RbKeeps, Rb!Abstract!Next

(* A read returns, and the invariant holds of what is left.                 *)
LEMMA RbReturnStep ==
  ASSUME RbInv, call # "none", NEW b, Rb!Return(b), UNCHANGED <<peer, link>>,
         {kernel', buf'} \subseteq Seq(Byte), Len(buf') <= RECVBUF_SIZE, pos' \in 0..Len(buf')
  PROVE  /\ RbInv' /\ result' = b /\ ~broken /\ UNCHANGED broken
         /\ RbInput' = Rb!unread' \o kernel' \o peer
<1>1. /\ result' = b /\ call' = "none" /\ line' = <<>> /\ UNCHANGED <<n, retry, broken>>
      /\ ~broken
  BY DEF Rb!Return, RbInv
<1>2. RbInv'
  BY <1>1 DEF RbInv, RbTypes
<1>3. Rb!unread' \in Seq(Byte)
  BY <1>2, FrontAndRest DEF RbInv, RbTypes, Rb!unread
<1>4. <<>> \o Rb!unread' = Rb!unread'
  BY <1>3, ConcatEmptySeq
<1>5. RbInput' = line' \o Rb!unread' \o kernel' \o peer'
  BY <1>1 DEF RbInput
<1> QED BY <1>1, <1>2, <1>4, <1>5

(* Taking d bytes off the front of what is unread. *)
LEMMA RbTakeFront ==
  ASSUME RbTypes, NEW d \in 0..Len(Rb!unread), pos' = pos + d, UNCHANGED buf
  PROVE  /\ Rb!unread' = SubSeq(Rb!unread, d + 1, Len(Rb!unread))
         /\ Rb!unread' \in Seq(Byte) /\ pos' \in 0..Len(buf)
         /\ SubSeq(Rb!unread, 1, d) \in Seq(Byte) /\ Len(SubSeq(Rb!unread, 1, d)) = d
         /\ SubSeq(Rb!unread, 1, d) \o Rb!unread' = Rb!unread
<1>1. buf \in Seq(Byte) /\ pos \in 0..Len(buf) /\ d \in 0..Len(buf) - pos
      /\ Len(Rb!unread) = Len(buf) - pos /\ Rb!unread \in Seq(Byte)
  BY RbUnread DEF RbTypes
<1>2. Rb!unread' = SubSeq(buf, pos + d + 1, Len(buf))
  BY DEF Rb!unread
<1>3. SubSeq(Rb!unread, d + 1, Len(buf) - pos) = SubSeq(buf, pos + d + 1, Len(buf))
  BY <1>1, RestOfRest DEF Rb!unread
<1>4. Rb!unread' = SubSeq(Rb!unread, d + 1, Len(Rb!unread))
  BY <1>1, <1>2, <1>3
<1>5. d \in 0..Len(Rb!unread) /\ pos + d \in 0..Len(buf)
  BY <1>1
<1> QED BY <1>1, <1>4, <1>5, FrontAndRest, FrontThenRest

(* The inner loop of readline. *)
LEMMA RbScanStep ==
  ASSUME RbInv, Rb!ScanLine
  PROVE  RbKeeps
<1> DEFINE g == Rb!gathered
           rest == kernel \o peer
<1>1. /\ call = "readline" /\ Rb!unread # <<>> /\ ~broken
      /\ UNCHANGED <<peer, kernel, link, buf>>
      /\ RbTypes
  BY DEF Rb!ScanLine, RbInv
<1>2. /\ peer \in Seq(Byte) /\ kernel \in Seq(Byte) /\ buf \in Seq(Byte)
      /\ line \in Seq(Byte) /\ Rb!unread \in Seq(Byte) /\ g \in Seq(Byte)
      /\ Len(Rb!unread) = Len(buf) - pos /\ Len(g) = Len(line) + Len(Rb!unread)
      /\ Len(line) < LineSize /\ LineSize \in Nat /\ pos \in 0..Len(buf) /\ Len(line) \in Nat
      /\ Len(buf) <= RECVBUF_SIZE
  BY <1>1, RbUnread, ReaderConstants DEF RbInv, RbTypes
<1>3. rest \in Seq(Byte) /\ RbInput = g \o rest
  <2>0. g \in Seq(Byte) /\ kernel \in Seq(Byte) /\ peer \in Seq(Byte)
    BY <1>2
  <2>1. (g \o kernel) \o peer = g \o (kernel \o peer)
    BY <2>0, BytesJoin, Zenon
  <2> QED BY <1>1, <1>2, <2>1, RbUnread, ConcatProperties
<1>4. \A i \in 1..Len(line) : g[i] = line[i]
  BY <1>2, ConcatProperties DEF Rb!gathered
<1>5. Rb!lineEnds = {i \in Len(line) + 1..Len(g) : i > 1 /\ g[i - 1] = CR /\ g[i] = LF}
  BY DEF Rb!lineEnds
<1>6. \A i \in 1..Len(line) - 1 : ~(g[i] = CR /\ g[i + 1] = LF)
  <2>1. OneLine(line)
    BY <1>1 DEF RbInv
  <2>2. \A i \in 1..Len(line) - 1 : g[i] = line[i] /\ g[i + 1] = line[i + 1]
    BY <1>2, <1>4
  <2> QED BY <2>1, <2>2 DEF OneLine
<1> HIDE DEF g, rest
<1>7. CASE \E i \in Rb!lineEnds : i <= LineSize
  <2>0. PICK e : e = Rb!Min(Rb!lineEnds)
    OBVIOUS
  <2>1. /\ pos' = pos + e - Len(line) /\ Rb!Return(SubSeq(g, 1, e - 2))
    BY <1>7, <2>0 DEF Rb!ScanLine, g
  <2>2. e \in Rb!lineEnds /\ \A k \in Rb!lineEnds : e <= k
    <3>1. Rb!lineEnds # {}
      BY <1>7
    <3>2. Len(line) + 1..Len(g) \subseteq Nat
      BY <1>2
    <3>3. Rb!lineEnds \subseteq Nat
      BY <1>5, <3>2
    <3> QED BY <2>0, <3>1, <3>3, SmallestOf
  <2>3. /\ e \in Len(line) + 1..Len(g) /\ e - 1 \in 1..Len(g) - 1
        /\ g[e - 1] = CR /\ g[e - 1 + 1] = LF
    BY <1>2, <1>5, <2>2
  <2>4. ASSUME NEW i \in 1..e - 1 - 1, g[i] = CR /\ g[i + 1] = LF PROVE FALSE
    <3>1. CASE i + 1 <= Len(line)
      BY <1>2, <1>6, <2>3, <2>4, <3>1
    <3>2. CASE ~(i + 1 <= Len(line))
      <4>1. i + 1 \in Len(line) + 1..Len(g) /\ i + 1 > 1 /\ i + 1 - 1 = i
        BY <1>2, <2>3, <3>2
      <4>2. i + 1 \in Rb!lineEnds
        BY <1>5, <2>4, <4>1
      <4> QED BY <1>2, <2>2, <2>3, <4>2
    <3> QED BY <3>1, <3>2
  <2>5. PICK d : d = e - Len(line)
    OBVIOUS
  <2>6. d \in 0..Len(Rb!unread) /\ pos' = pos + d /\ e = Len(line) + d
    BY <1>2, <2>1, <2>3, <2>5
  <2>7. /\ Rb!unread' = SubSeq(Rb!unread, d + 1, Len(Rb!unread))
        /\ Rb!unread' \in Seq(Byte) /\ pos' \in 0..Len(buf)
    BY <1>1, <2>6, RbTakeFront
  <2>8. Rb!unread' = SubSeq(g, e + 1, Len(g))
    BY <1>2, <2>6, <2>7, RestOfTwo DEF g, Rb!gathered
  <2>9. /\ RbInv' /\ result' = SubSeq(g, 1, e - 2) /\ ~broken /\ UNCHANGED broken
        /\ RbInput' = Rb!unread' \o kernel' \o peer
    <3>1. Len(buf') <= RECVBUF_SIZE /\ pos' \in 0..Len(buf') /\ {kernel', buf'} \subseteq Seq(Byte)
      BY <1>1, <1>2, <2>7
    <3> QED BY <1>1, <2>1, <3>1, RbReturnStep
  <2>10. RbInput' = SubSeq(g, e - 1 + 2, Len(g)) \o rest
    <3>1. (Rb!unread' \o kernel) \o peer = Rb!unread' \o (kernel \o peer)
      <4>1. PICK u : u = Rb!unread'
        OBVIOUS
      <4>2. u \in Seq(Byte) /\ kernel \in Seq(Byte) /\ peer \in Seq(Byte)
        BY <1>2, <2>7, <4>1
      <4>3. (u \o kernel) \o peer = u \o (kernel \o peer)
        BY <4>2, BytesJoin, Zenon
      <4> QED BY <4>1, <4>3
    <3>2. e - 1 + 2 = e + 1
      BY <2>3
    <3> QED BY <1>1, <2>8, <2>9, <3>1, <3>2 DEF rest
  <2>11. Rb!Abstract!ReadLine
    <3>1. result' = SubSeq(g, 1, e - 1 - 1) /\ g \in Seq(Byte)
      BY <1>2, <2>3, <2>9
    <3> QED BY <1>3, <2>3, <2>4, <2>9, <2>10, <3>1, RbFirstLine
  <2> QED BY <2>9, <2>11 DEF RbKeeps, Rb!Abstract!Next
<1>8. CASE ~(\E i \in Rb!lineEnds : i <= LineSize) /\ Len(g) >= LineSize
  <2>1. pos' = pos + LineSize - Len(line) /\ Rb!Error
    BY <1>8 DEF Rb!ScanLine, g
  <2>2. pos' \in 0..Len(buf)
    BY <1>2, <1>8, <2>1
  <2> QED BY <1>1, <1>2, <2>1, <2>2, RbErrorStep
<1>9. CASE ~(\E i \in Rb!lineEnds : i <= LineSize) /\ ~(Len(g) >= LineSize)
  <2>1. /\ pos' = Len(buf) /\ line' = g
        /\ UNCHANGED <<call, n, retry, result, broken>>
    BY <1>9 DEF Rb!ScanLine, g
  <2>2. OneLine(g)
    <3> SUFFICES ASSUME NEW i \in 1..Len(g) - 1, g[i] = CR, g[i + 1] = LF PROVE FALSE
      BY DEF OneLine
    <3>1. CASE i + 1 <= Len(line)
      BY <1>2, <1>6, <3>1
    <3>2. CASE ~(i + 1 <= Len(line))
      <4>1. i + 1 \in Len(line) + 1..Len(g) /\ i + 1 > 1 /\ i + 1 - 1 = i /\ i + 1 <= LineSize
        BY <1>2, <1>9, <3>2
      <4>2. i + 1 \in Rb!lineEnds
        BY <1>5, <4>1
      <4> QED BY <1>9, <4>1, <4>2
    <3> QED BY <3>1, <3>2
  <2>3. Rb!unread' = <<>>
    BY <1>1, <1>2, <2>1 DEF Rb!unread
  <2>4. RbInput' = RbInput
    <3>1. g \o <<>> = g
      BY <1>2, ConcatEmptySeq
    <3>2. RbInput' = g \o <<>> \o kernel \o peer
      BY <1>1, <2>1, <2>3 DEF RbInput
    <3> QED BY <1>1, <3>1, <3>2, RbUnread DEF g
  <2>5. RbInv'
    <3>1. Len(g) < LineSize /\ g \in Seq(Byte) /\ Len(buf) \in 0..Len(buf)
      BY <1>2, <1>9
    <3> QED BY <1>1, <2>1, <2>2, <3>1 DEF RbInv, RbTypes
  <2> QED BY <2>1, <2>4, <2>5, RbAbstractVars DEF RbKeeps
<1> QED BY <1>7, <1>8, <1>9

(* The copy of readn. *)
LEMMA RbCopyStep ==
  ASSUME RbInv, Rb!CopyN
  PROVE  RbKeeps
<1> DEFINE u == Rb!unread
           rest == kernel \o peer
<1>1. /\ call = "readn" /\ u # <<>> /\ ~broken
      /\ UNCHANGED <<peer, kernel, link, buf>>
      /\ RbTypes
  BY DEF Rb!CopyN, RbInv
<1>2. /\ peer \in Seq(Byte) /\ kernel \in Seq(Byte) /\ buf \in Seq(Byte)
      /\ line \in Seq(Byte) /\ u \in Seq(Byte)
      /\ Len(u) = Len(buf) - pos /\ pos \in 0..Len(buf) /\ Len(buf) <= RECVBUF_SIZE
      /\ n \in Nat /\ Len(line) < n /\ Len(line) \in Nat /\ Len(u) \in Nat \ {0}
  BY <1>1, RbUnread DEF RbInv, RbTypes
<1>3. rest \in Seq(Byte) /\ line \o u \in Seq(Byte) /\ RbInput = (line \o u) \o rest
  <2>1. line \o u \in Seq(Byte) /\ rest \in Seq(Byte)
    BY <1>2, ConcatProperties
  <2>2. kernel \in Seq(Byte) /\ peer \in Seq(Byte)
    BY <1>2
  <2>3. ((line \o u) \o kernel) \o peer = (line \o u) \o (kernel \o peer)
    BY <2>1, <2>2, BytesJoin, Zenon
  <2> QED BY <1>1, <2>1, <2>3 DEF RbInput
<1>4. PICK k : k = Rb!Min({n - Len(line), Len(u)})
  OBVIOUS
<1>5. k \in {n - Len(line), Len(u)} /\ k <= n - Len(line) /\ k <= Len(u)
  <2>1. {n - Len(line), Len(u)} \in SUBSET Nat /\ {n - Len(line), Len(u)} # {}
    BY <1>2
  <2> QED BY <1>4, <2>1, SmallestOf
<1>6. k \in 1..Len(u)
  BY <1>2, <1>5
<1>7. PICK copied : copied = line \o SubSeq(u, 1, k)
  OBVIOUS
<1>8. /\ pos' = pos + k
      /\ IF Len(copied) = n THEN Rb!Return(copied)
         ELSE line' = copied /\ UNCHANGED <<call, n, retry, result, broken>>
  BY <1>4, <1>7 DEF Rb!CopyN
<1>9. /\ u' = SubSeq(u, k + 1, Len(u)) /\ u' \in Seq(Byte) /\ pos' \in 0..Len(buf)
      /\ SubSeq(u, 1, k) \in Seq(Byte) /\ Len(SubSeq(u, 1, k)) = k
      /\ SubSeq(u, 1, k) \o u' = u
  BY <1>1, <1>6, <1>8, RbTakeFront
<1>10. copied \in Seq(Byte) /\ Len(copied) = Len(line) + k
  BY <1>2, <1>7, <1>9, ConcatProperties
<1>11. copied \o u' = line \o u
  <2>1. PICK s, t : s = SubSeq(u, 1, k) /\ t = u'
    OBVIOUS
  <2>2. s \in Seq(Byte) /\ t \in Seq(Byte) /\ line \in Seq(Byte)
    BY <1>2, <1>9, <2>1
  <2>3. (line \o s) \o t = line \o (s \o t)
    BY <2>2, BytesJoin, Zenon
  <2> QED BY <1>7, <1>9, <2>1, <2>3
<1>12. copied \o u' \o kernel' \o peer' = RbInput
  BY <1>1, <1>11 DEF RbInput
<1> HIDE DEF u, rest
<1>13. CASE Len(copied) = n
  <2>1. Rb!Return(copied)
    BY <1>8, <1>13
  <2>2. /\ RbInv' /\ result' = copied /\ ~broken /\ UNCHANGED broken
        /\ RbInput' = u' \o kernel' \o peer
    <3>1. Len(buf') <= RECVBUF_SIZE /\ pos' \in 0..Len(buf') /\ {kernel', buf'} \subseteq Seq(Byte)
      BY <1>1, <1>2, <1>9
    <3> QED BY <1>1, <2>1, <3>1, RbReturnStep DEF u
  <2>3. PICK t : t = u'
    OBVIOUS
  <2>4. t \in Seq(Byte) /\ kernel \in Seq(Byte) /\ peer \in Seq(Byte) /\ rest \in Seq(Byte)
        /\ copied \in Seq(Byte)
    BY <1>2, <1>3, <1>9, <1>10, <2>3
  <2>5. (t \o kernel) \o peer = t \o (kernel \o peer)
    BY <2>4, BytesJoin, Zenon
  <2>6. copied \o (t \o rest) = (copied \o t) \o rest
    <3>1. PICK x, y : x = copied /\ y = rest
      OBVIOUS
    <3>2. x \in Seq(Byte) /\ t \in Seq(Byte) /\ y \in Seq(Byte)
      BY <2>4, <3>1
    <3>3. (x \o t) \o y = x \o (t \o y)
      BY <3>2, BytesJoin, Zenon
    <3> QED BY <3>1, <3>3
  <2>7. RbInput = copied \o RbInput'
    BY <1>1, <1>3, <1>11, <2>2, <2>3, <2>5, <2>6 DEF rest
  <2>8. RbInput' = t \o rest /\ t \o rest \in Seq(Byte)
    BY <1>1, <2>2, <2>3, <2>4, <2>5, ConcatProperties DEF rest
  <2>9. PICK r : r = RbInput'
    OBVIOUS
  <2>10. r \in Seq(Byte) /\ RbInput = copied \o r
    BY <2>7, <2>8, <2>9
  <2>11. /\ SubSeq(RbInput, 1, n) = copied /\ SubSeq(RbInput, n + 1, Len(RbInput)) = r
         /\ n \in 0..Len(RbInput)
    BY <1>10, <1>13, <2>10, WholeAndRest
  <2>12. Rb!Abstract!Read
    <3>1. n # 0
      BY <1>2
    <3> QED BY <2>2, <2>9, <2>11, <3>1, RbRead
  <2> QED BY <2>2, <2>12 DEF RbKeeps, Rb!Abstract!Next
<1>14. CASE Len(copied) # n
  <2>1. line' = copied /\ UNCHANGED <<call, n, retry, result, broken>>
    BY <1>8, <1>14
  <2>2. RbInput' = RbInput
    BY <1>1, <1>12, <2>1 DEF RbInput, u
  <2>3. Len(copied) < n
    <3>1. k <= n - Len(line) /\ k \in Int /\ n \in Int /\ Len(line) \in Int
      BY <1>2, <1>5, <1>6
    <3>2. Len(copied) = Len(line) + k
      BY <1>10
    <3> QED BY <3>1, <3>2, <1>14
  <2>4. RbInv'
    BY <1>1, <1>2, <1>9, <1>10, <2>1, <2>3 DEF RbInv, RbTypes
  <2> QED BY <2>1, <2>2, <2>4, RbAbstractVars DEF RbKeeps
<1> QED BY <1>13, <1>14

(* recvbuf_fill, with nothing unread. *)
LEMMA RbFillStep ==
  ASSUME RbInv, Rb!recvbuf_fill
  PROVE  RbKeeps
<1>1. /\ call # "none" /\ Rb!unread = <<>> /\ ~broken /\ pos' = 0
      /\ UNCHANGED <<peer, link>> /\ RbTypes
  BY DEF Rb!recvbuf_fill, RbInv
<1>2. /\ peer \in Seq(Byte) /\ kernel \in Seq(Byte) /\ buf \in Seq(Byte)
      /\ line \in Seq(Byte) /\ <<>> \in Seq(Byte) /\ RECVBUF_SIZE \in Nat \ {0}
      /\ Retries \in Nat \ {0} /\ retry \in 0..Retries - 1 /\ Len(kernel) \in Nat
  BY <1>1, ReaderConstants DEF RbTypes
<1>3. Rb!space = RECVBUF_SIZE /\ Rb!space # 0
  BY <1>1, <1>2 DEF Rb!space
<1>4. RbInput = line \o <<>> \o kernel \o peer /\ line \o <<>> = line
  BY <1>1, <1>2, ConcatEmptySeq DEF RbInput
<1>5. CASE /\ \E k \in 1..Rb!Min({Rb!space, Len(kernel)}) :
                /\ buf' = Rb!unread \o SubSeq(kernel, 1, k)
                /\ kernel' = SubSeq(kernel, k + 1, Len(kernel))
           /\ retry' = 0 /\ UNCHANGED <<call, n, line, result, broken>>
  <2>1. PICK k \in 1..Rb!Min({Rb!space, Len(kernel)}) :
          /\ buf' = <<>> \o SubSeq(kernel, 1, k)
          /\ kernel' = SubSeq(kernel, k + 1, Len(kernel))
    BY <1>1, <1>5
  <2>2. k \in 1..Len(kernel) /\ k <= RECVBUF_SIZE
    <3>1. {Rb!space, Len(kernel)} \in SUBSET Nat /\ {Rb!space, Len(kernel)} # {}
      BY <1>2, <1>3
    <3>2. Rb!Min({Rb!space, Len(kernel)}) \in {Rb!space, Len(kernel)}
          /\ Rb!Min({Rb!space, Len(kernel)}) <= Rb!space
          /\ Rb!Min({Rb!space, Len(kernel)}) <= Len(kernel)
      BY <3>1, SmallestOf
    <3> QED BY <1>2, <1>3, <3>2
  <2>3. PICK s, t : s = SubSeq(kernel, 1, k) /\ t = kernel'
    OBVIOUS
  <2>4. /\ s \in Seq(Byte) /\ t \in Seq(Byte) /\ s \o t = kernel /\ Len(s) = k
    BY <1>2, <2>1, <2>2, <2>3, FrontAndRest, FrontThenRest
  <2>5. buf' = s
    BY <2>1, <2>3, <2>4, ConcatEmptySeq
  <2>6. Rb!unread' = s
    <3>1. SubSeq(s, 1, Len(s)) = s
      BY <2>4, SubSeqFull
    <3> QED BY <1>1, <2>5, <3>1 DEF Rb!unread
  <2>7. RbInput' = RbInput
    <3>1. (line \o s) \o t = line \o (s \o t)
      <4>1. line \in Seq(Byte) /\ s \in Seq(Byte) /\ t \in Seq(Byte)
        BY <1>2, <2>4
      <4> QED BY <4>1, BytesJoin, Zenon
    <3>2. RbInput' = line \o s \o t \o peer
      BY <1>1, <1>5, <2>3, <2>6 DEF RbInput
    <3> QED BY <1>4, <2>4, <3>1, <3>2
  <2>8. RbInv'
    <3>1. /\ peer' \in Seq(Byte) /\ kernel' \in Seq(Byte) /\ buf' \in Seq(Byte)
          /\ line' \in Seq(Byte) /\ Len(buf') <= RECVBUF_SIZE /\ pos' \in 0..Len(buf')
          /\ retry' \in 0..Retries - 1
      BY <1>1, <1>2, <1>5, <2>2, <2>3, <2>4, <2>5
    <3> QED BY <1>1, <1>5, <3>1 DEF RbInv, RbTypes
  <2> QED BY <1>5, <2>7, <2>8, RbAbstractVars DEF RbKeeps
<1>6. CASE kernel = <<>> /\ link = "closed" /\ Rb!Return(line) /\ buf' = Rb!unread
           /\ UNCHANGED kernel
  <2>1. buf' = <<>> /\ kernel' = <<>> /\ peer = <<>> /\ peer' = <<>>
    BY <1>1, <1>6 DEF RbInv
  <2>2. /\ RbInv' /\ result' = line /\ ~broken /\ UNCHANGED broken
        /\ RbInput' = Rb!unread' \o kernel' \o peer
    <3>1. Len(buf') <= RECVBUF_SIZE /\ pos' \in 0..Len(buf') /\ {kernel', buf'} \subseteq Seq(Byte)
      BY <1>1, <1>2, <2>1
    <3> QED BY <1>1, <1>6, <3>1, RbReturnStep
  <2>3. Rb!unread' = <<>>
    BY <1>1, <2>1 DEF Rb!unread
  <2>4. RbInput' = <<>>
    BY <2>1, <2>2, <2>3
  <2>5. RbInput = line
    BY <1>2, <1>4, <1>6, <2>1, ConcatEmptySeq
  <2>6. CASE call = "readline"
    <3>1. OneLine(line)
      BY <2>6 DEF RbInv
    <3>2. Rb!Abstract!ReadLine
      BY <1>2, <2>2, <2>4, <2>5, <3>1, RbLastLine
    <3> QED BY <2>2, <3>2 DEF RbKeeps, Rb!Abstract!Next
  <2>7. CASE call = "readn"
    <3>1. /\ SubSeq(line, 1, Len(line)) = line
          /\ SubSeq(line, Len(line) + 1, Len(line)) = <<>>
          /\ Len(line) \in 0..Len(line) /\ (Len(line) = 0 => line = <<>>)
      BY <1>2, SubSeqFull, SubSeqEmpty
    <3>2. Rb!Abstract!Read
      BY <2>2, <2>4, <2>5, <3>1, RbRead
    <3> QED BY <2>2, <3>2 DEF RbKeeps, Rb!Abstract!Next
  <2> QED BY <1>1, <2>6, <2>7 DEF RbInv
<1>7. CASE /\ retry < Retries - 1 /\ retry' = retry + 1 /\ buf' = Rb!unread
           /\ UNCHANGED <<kernel, call, n, line, result, broken>>
  <2>1. buf' = <<>> /\ Rb!unread' = <<>>
    BY <1>1, <1>7 DEF Rb!unread
  <2>2. RbInput' = RbInput
    BY <1>1, <1>4, <1>7, <2>1 DEF RbInput
  <2>3. RbInv'
    <3>1. /\ Len(buf') <= RECVBUF_SIZE /\ pos' \in 0..Len(buf') /\ retry' \in 0..Retries - 1
          /\ buf' \in Seq(Byte)
      BY <1>1, <1>2, <1>7, <2>1
    <3> QED BY <1>1, <1>7, <3>1 DEF RbInv, RbTypes
  <2> QED BY <1>7, <2>2, <2>3, RbAbstractVars DEF RbKeeps
<1>8. CASE Rb!Error /\ buf' = Rb!unread /\ UNCHANGED kernel
  <2>1. Len(buf') <= RECVBUF_SIZE /\ pos' \in 0..Len(buf') /\ {kernel', buf'} \subseteq Seq(Byte)
    BY <1>1, <1>2, <1>8
  <2> QED BY <1>1, <1>8, <2>1, RbErrorStep
<1> QED BY <1>3, <1>5, <1>6, <1>7, <1>8 DEF Rb!recvbuf_fill

(* RecvBuffer!IsByteSource: the reads return the input, line by line or in  *)
(* the counts asked for, no byte twice and none left out, wherever the      *)
(* edges of the buffer fall.                                                *)
THEOREM RecvBufferIsByteSource == Rb!Spec => []Rb!TypeOK /\ Rb!IsByteSource
<1>1. Rb!Init => RbInv /\ Rb!Abstract!Init
  <2> SUFFICES ASSUME Rb!Init PROVE RbInv /\ Rb!Abstract!Init
    OBVIOUS
  <2>1. /\ peer \in Input /\ peer \in Seq(Byte) /\ kernel = <<>> /\ link = "open"
        /\ buf = <<>> /\ pos = 0 /\ call = "none" /\ n = 0 /\ line = <<>> /\ retry = 0
        /\ result = <<>> /\ broken = FALSE
    BY InputBytes DEF Rb!Init
  <2>2. RbInv
    <3>1. {peer, kernel, buf, line} \subseteq Seq(Byte) /\ Len(buf) = 0
      BY <2>1
    <3>2. Len(buf) <= RECVBUF_SIZE /\ pos \in 0..Len(buf) /\ retry \in 0..Retries - 1
      BY <2>1, <3>1, ReaderConstants
    <3>3. n \in Nat /\ broken \in BOOLEAN
      BY <2>1
    <3>4. RbTypes
      BY <3>1, <3>2, <3>3 DEF RbTypes
    <3> QED BY <2>1, <3>4 DEF RbInv
  <2>3. RbInput = peer
    <3>1. Rb!unread = <<>>
      BY <2>1 DEF Rb!unread
    <3>2. <<>> \o <<>> = <<>> /\ <<>> \o peer = peer
      BY <2>1, ReaderConstants, ConcatEmptySeq
    <3> QED BY <2>1, <3>1, <3>2 DEF RbInput
  <2> QED BY <2>1, <2>2, <2>3 DEF Rb!Abstract!Init, RbInput
<1>2. RbInv /\ [Rb!Next]_(Rb!vars) => RbKeeps
  <2> SUFFICES ASSUME RbInv, [Rb!Next]_(Rb!vars) PROVE RbKeeps
    OBVIOUS
  <2>1. CASE UNCHANGED Rb!vars
    <3>1. UNCHANGED <<peer, kernel, link, buf, pos, call, n, line, retry, result, broken>>
      BY <2>1 DEF Rb!vars, Rb!bufVars, Rb!callVars
    <3>2. RbInv' /\ RbInput' = RbInput
      BY <3>1 DEF RbInv, RbTypes, RbInput, Rb!unread
    <3> QED BY <3>1, <3>2, RbAbstractVars DEF RbKeeps
  <2> QED BY <2>1, RbPeerStep, RbCallStep, RbScanStep, RbCopyStep, RbFillStep
    DEF Rb!Next
<1>3. RbKeeps => RbInv' /\ [Rb!Abstract!Next]_(Rb!Abstract!vars)
  BY DEF RbKeeps
<1>4. RbInv => Rb!TypeOK
  BY ReaderConstants DEF RbInv, RbTypes, Rb!TypeOK
<1> QED BY <1>1, <1>2, <1>3, <1>4, PTL DEF Rb!Spec, Rb!IsByteSource, Rb!Abstract!Spec

-----------------------------------------------------------------------------
(* BufferedSource *)

SrcLeft == IF srcBroken THEN <<>> ELSE Src!unread \o srcKernel \o srcPeer

SrcTypes ==
  /\ srcPeer \in Seq(Byte) /\ srcKernel \in Seq(Byte) /\ bytes \in Seq(Byte)
  /\ srcPos \in 0..Len(bytes) /\ srcN \in Nat /\ scanned \in Nat
  /\ waiting \in BOOLEAN /\ srcBroken \in BOOLEAN
  /\ srcLink \in {"open", "closed", "reset"}
  /\ srcCall \in {"none", "readLine", "readN", "readSome"}

(* What was searched holds no CRLF, up to where the next search begins; a   *)
(* reader of bytes waits only when it has none, and one that has some does  *)
(* not wait.                                                                *)
SrcInv ==
  /\ SrcTypes
  /\ srcLink = "closed" => srcPeer = <<>>
  /\ srcBroken => srcCall = "none"
  /\ waiting => srcCall # "none"
  /\ waiting /\ srcCall # "readLine" => Src!unread = <<>>
  /\ ~waiting /\ srcCall \in {"readN", "readSome"} => Src!unread # <<>>
  /\ srcCall = "readN" => srcN # 0
  /\ srcCall = "readLine" =>
       /\ scanned = 0 \/ scanned < Len(Src!unread)
       /\ \A i \in 1..scanned : ~(Src!unread[i] = CR /\ Src!unread[i + 1] = LF)
       /\ waiting => OneLine(Src!unread)

SrcKeeps == SrcInv' /\ [Src!Abstract!Next]_(Src!Abstract!vars)

LEMMA SrcAbstractVars ==
  ASSUME SrcLeft' = SrcLeft, UNCHANGED <<srcResult, srcBroken>>
  PROVE  UNCHANGED Src!Abstract!vars
BY DEF Src!Abstract!vars, SrcLeft

LEMMA SrcTake ==
  ASSUME NEW t, NEW skipped, ~srcBroken, UNCHANGED srcBroken,
         srcResult' = SubSeq(SrcLeft, 1, t),
         SrcLeft' = SubSeq(SrcLeft, t + skipped + 1, Len(SrcLeft))
  PROVE  Src!Abstract!Take(t, skipped)
BY DEF Src!Abstract!Take, SrcLeft

LEMMA SrcRead ==
  ASSUME NEW t \in 0..Len(SrcLeft), t = 0 => SrcLeft = <<>>, ~srcBroken, UNCHANGED srcBroken,
         srcResult' = SubSeq(SrcLeft, 1, t),
         SrcLeft' = SubSeq(SrcLeft, t + 1, Len(SrcLeft))
  PROVE  Src!Abstract!Read
<1>1. t + 0 = t
  OBVIOUS
<1>2. Src!Abstract!Take(t, 0)
  BY <1>1, SrcTake
<1> QED BY <1>2 DEF Src!Abstract!Read, SrcLeft

LEMMA SrcFirstLine ==
  ASSUME NEW g \in Seq(Byte), NEW rest \in Seq(Byte), SrcLeft = g \o rest,
         NEW e \in 1..Len(g) - 1, g[e] = CR, g[e + 1] = LF,
         \A i \in 1..e - 1 : ~(g[i] = CR /\ g[i + 1] = LF),
         ~srcBroken, UNCHANGED srcBroken, srcResult' = SubSeq(g, 1, e - 1),
         SrcLeft' = SubSeq(g, e + 2, Len(g)) \o rest
  PROVE  Src!Abstract!ReadLine
<1>1. /\ e \in 1..Len(SrcLeft) - 1
      /\ SrcLeft[e] = CR /\ SrcLeft[e + 1] = LF
      /\ \A i \in 1..Len(SrcLeft) - 1 : SrcLeft[i] = CR /\ SrcLeft[i + 1] = LF => e <= i
      /\ SubSeq(SrcLeft, 1, e - 1) = SubSeq(g, 1, e - 1)
      /\ SubSeq(SrcLeft, e - 1 + 2 + 1, Len(SrcLeft)) = SubSeq(g, e + 2, Len(g)) \o rest
  BY FirstLine, ZenonT(40)
<1>2. Src!Abstract!Take(e - 1, 2)
  BY <1>1, SrcTake
<1>3. Src!Abstract!ends = {i \in 1..Len(SrcLeft) - 1 : SrcLeft[i] = CR /\ SrcLeft[i + 1] = LF}
  BY DEF Src!Abstract!ends, SrcLeft
<1>4. e \in Src!Abstract!ends /\ \A j \in Src!Abstract!ends : e <= j
  BY <1>1, <1>3
<1> QED BY <1>2, <1>4 DEF Src!Abstract!ReadLine

LEMMA SrcLastLine ==
  ASSUME SrcLeft \in Seq(Byte), OneLine(SrcLeft), ~srcBroken, UNCHANGED srcBroken,
         srcResult' = SrcLeft, SrcLeft' = <<>>
  PROVE  Src!Abstract!ReadLine
<1>1. Src!Abstract!ends = {}
  BY DEF Src!Abstract!ends, SrcLeft, OneLine
<1>2. /\ SubSeq(SrcLeft, 1, Len(SrcLeft)) = SrcLeft
      /\ SubSeq(SrcLeft, Len(SrcLeft) + 0 + 1, Len(SrcLeft)) = <<>>
  BY SubSeqFull
<1>3. Src!Abstract!Take(Len(SrcLeft), 0)
  BY <1>2, SrcTake
<1> QED BY <1>1, <1>3 DEF Src!Abstract!ReadLine, SrcLeft

LEMMA SrcUnread ==
  ASSUME SrcTypes
  PROVE  /\ Src!unread \in Seq(Byte) /\ srcKernel \in Seq(Byte) /\ srcPeer \in Seq(Byte)
         /\ Len(Src!unread) = Len(bytes) - srcPos
         /\ \A i \in 1..Len(bytes) - srcPos : Src!unread[i] = bytes[srcPos + i]
         /\ srcKernel \o srcPeer \in Seq(Byte)
         /\ ~srcBroken => SrcLeft = Src!unread \o (srcKernel \o srcPeer) /\ SrcLeft \in Seq(Byte)
<1>1. /\ Src!unread \in Seq(Byte) /\ Len(Src!unread) = Len(bytes) - srcPos
      /\ \A i \in 1..Len(bytes) - srcPos : Src!unread[i] = bytes[srcPos + i]
  BY FrontAndRest DEF SrcTypes, Src!unread
<1>2. Src!unread \in Seq(Byte) /\ srcKernel \in Seq(Byte) /\ srcPeer \in Seq(Byte)
  BY <1>1 DEF SrcTypes
<1>3. (Src!unread \o srcKernel) \o srcPeer = Src!unread \o (srcKernel \o srcPeer)
  BY <1>2, BytesJoin, Zenon
<1>4. srcKernel \o srcPeer \in Seq(Byte) /\ Src!unread \o (srcKernel \o srcPeer) \in Seq(Byte)
  BY <1>2, ConcatProperties
<1> QED BY <1>1, <1>2, <1>3, <1>4 DEF SrcLeft

(* The first d bytes of what is unread are taken. *)
LEMMA SrcTakeFront ==
  ASSUME SrcTypes, NEW d \in 0..Len(Src!unread), srcPos' = srcPos + d, UNCHANGED bytes
  PROVE  /\ Src!unread' = SubSeq(Src!unread, d + 1, Len(Src!unread))
         /\ Src!unread' \in Seq(Byte) /\ srcPos' \in 0..Len(bytes)
         /\ SubSeq(bytes, srcPos + 1, srcPos + d) = SubSeq(Src!unread, 1, d)
<1>1. /\ bytes \in Seq(Byte) /\ srcPos \in 0..Len(bytes) /\ d \in 0..Len(bytes) - srcPos
      /\ Len(Src!unread) = Len(bytes) - srcPos /\ Src!unread \in Seq(Byte)
      /\ srcPos + d \in 0..Len(bytes)
  BY SrcUnread DEF SrcTypes
<1>2. Src!unread' = SubSeq(bytes, srcPos + d + 1, Len(bytes))
  BY DEF Src!unread
<1>3. /\ SubSeq(Src!unread, d + 1, Len(bytes) - srcPos) = SubSeq(bytes, srcPos + d + 1, Len(bytes))
      /\ SubSeq(Src!unread, 1, d) = SubSeq(bytes, srcPos + 1, srcPos + d)
  BY <1>1, RestOfRest DEF Src!unread
<1>4. Src!unread' = SubSeq(Src!unread, d + 1, Len(Src!unread))
  BY <1>1, <1>2, <1>3
<1>5. d \in 0..Len(Src!unread)
  OBVIOUS
<1> QED BY <1>1, <1>3, <1>4, <1>5, FrontAndRest

LEMMA SrcPeerStep ==
  ASSUME SrcInv, Src!Send \/ Src!Hangup
  PROVE  SrcKeeps
<1>0. SrcTypes
  BY DEF SrcInv
<1>1. CASE Src!Send
  <2>1. PICK k \in 1..Len(srcPeer) : /\ srcKernel' = srcKernel \o SubSeq(srcPeer, 1, k)
                                     /\ srcPeer' = SubSeq(srcPeer, k + 1, Len(srcPeer))
    BY <1>1 DEF Src!Send
  <2>2. /\ UNCHANGED <<srcLink, bytes, srcPos, srcCall, srcN, scanned, waiting, srcResult,
                       srcBroken>>
        /\ srcLink = "open"
    BY <1>1 DEF Src!Send, Src!callVars
  <2>3. PICK s, t : s = SubSeq(srcPeer, 1, k) /\ t = srcPeer'
    OBVIOUS
  <2>4. /\ s \in Seq(Byte) /\ t \in Seq(Byte) /\ s \o t = srcPeer
        /\ srcKernel \in Seq(Byte) /\ srcKernel' = srcKernel \o s
    <3>1. srcPeer \in Seq(Byte) /\ srcKernel \in Seq(Byte) /\ k \in 0..Len(srcPeer)
      BY <1>0 DEF SrcTypes
    <3>2. s \in Seq(Byte) /\ t \in Seq(Byte)
      BY <2>1, <2>3, <3>1, FrontAndRest
    <3>3. s \o t = srcPeer
      BY <2>1, <2>3, <3>1, FrontThenRest
    <3> QED BY <2>1, <2>3, <3>1, <3>2, <3>3
  <2>5. srcKernel' \in Seq(Byte) /\ srcKernel' \o t = srcKernel \o srcPeer
    <3>1. srcKernel \in Seq(Byte) /\ s \in Seq(Byte) /\ t \in Seq(Byte)
      BY <2>4
    <3>2. (srcKernel \o s) \o t = srcKernel \o (s \o t)
      BY <3>1, BytesJoin, Zenon
    <3> QED BY <2>4, <3>1, <3>2, ConcatProperties
  <2>6. UNCHANGED Src!unread
    BY <2>2 DEF Src!unread
  <2>7. SrcTypes'
    BY <1>0, <2>2, <2>3, <2>4, <2>5 DEF SrcTypes
  <2>8. SrcInv'
    BY <2>2, <2>6, <2>7 DEF SrcInv, OneLine
  <2>9. SrcLeft' = SrcLeft
    <3>1. CASE srcBroken
      BY <2>2, <3>1 DEF SrcLeft
    <3>2. CASE ~srcBroken
      <4>1. SrcLeft = Src!unread \o (srcKernel \o srcPeer)
        BY <1>0, <3>2, SrcUnread
      <4>2. PICK u, q : u = Src!unread /\ q = srcKernel'
        OBVIOUS
      <4>3. u \in Seq(Byte) /\ q \in Seq(Byte) /\ t \in Seq(Byte)
        BY <1>0, <2>4, <2>5, <4>2, SrcUnread
      <4>4. (u \o q) \o t = u \o (q \o t)
        BY <4>3, BytesJoin, Zenon
      <4>5. SrcLeft' = u \o q \o t
        BY <2>2, <2>3, <2>6, <3>2, <4>2 DEF SrcLeft
      <4> QED BY <2>5, <4>1, <4>2, <4>4, <4>5
    <3> QED BY <3>1, <3>2
  <2> QED BY <2>2, <2>8, <2>9, SrcAbstractVars DEF SrcKeeps
<1>2. CASE Src!Hangup
  <2>1. /\ UNCHANGED <<srcPeer, srcKernel, bytes, srcPos, srcCall, srcN, scanned, waiting,
                       srcResult, srcBroken>>
        /\ srcLink' \in {"closed", "reset"} /\ (srcLink' = "closed" => srcPeer = <<>>)
    BY <1>2 DEF Src!Hangup, Src!callVars
  <2>2. UNCHANGED <<Src!unread, SrcLeft>>
    BY <2>1 DEF SrcLeft, Src!unread
  <2>3. SrcTypes'
    BY <1>0, <2>1 DEF SrcTypes
  <2>4. SrcInv'
    BY <2>1, <2>2, <2>3 DEF SrcInv, OneLine
  <2> QED BY <2>1, <2>2, <2>4, SrcAbstractVars DEF SrcKeeps
<1> QED BY <1>1, <1>2

(* A call begins; readN and readSome have to wait when nothing is unread.   *)
LEMMA SrcCallStep ==
  ASSUME SrcInv, Src!readLine \/ Src!readN \/ Src!readSome
  PROVE  SrcKeeps
<1>1. /\ UNCHANGED <<srcPeer, srcKernel, srcLink, bytes, srcPos, srcResult, srcBroken>>
      /\ srcCall = "none" /\ ~srcBroken /\ scanned' = 0
      /\ \/ srcCall' = "readLine" /\ UNCHANGED <<srcN, waiting>>
         \/ srcCall' = "readN" /\ srcN' \in Sizes /\ waiting' = (Src!unread = <<>>)
         \/ srcCall' = "readSome" /\ UNCHANGED srcN /\ waiting' = (Src!unread = <<>>)
  BY DEF Src!readLine, Src!readN, Src!readSome, Src!Start
<1>2. UNCHANGED <<Src!unread, SrcLeft>>
  BY <1>1 DEF SrcLeft, Src!unread
<1>3. waiting' \in BOOLEAN /\ (srcCall' = "readLine" => ~waiting')
      /\ (srcCall' # "readLine" => (waiting' <=> Src!unread = <<>>))
  <2>1. CASE srcCall' = "readLine"
    <3>1. UNCHANGED waiting /\ waiting \in BOOLEAN /\ ~waiting
      BY <1>1, <2>1 DEF SrcInv, SrcTypes
    <3> QED BY <2>1, <3>1
  <2>2. CASE srcCall' # "readLine"
    <3>1. waiting' = (Src!unread = <<>>)
      BY <1>1, <2>2
    <3> QED BY <2>2, <3>1
  <2> QED BY <2>1, <2>2
<1>4. SrcTypes'
  BY <1>1, <1>3, ReaderConstants DEF SrcInv, SrcTypes
<1>5. SrcInv'
  BY <1>1, <1>2, <1>3, <1>4, ReaderConstants DEF SrcInv
<1> QED BY <1>1, <1>2, <1>5, SrcAbstractVars DEF SrcKeeps

(* A chunk is received and joins what is unread. *)
LEMMA SrcReceive ==
  ASSUME SrcTypes, NEW k \in Src!Chunks,
         bytes' = Src!unread \o SubSeq(srcKernel, 1, k), srcPos' = 0,
         srcKernel' = SubSeq(srcKernel, k + 1, Len(srcKernel)),
         UNCHANGED <<srcPeer, srcBroken>>
  PROVE  /\ SrcLeft' = SrcLeft /\ bytes' \in Seq(Byte) /\ srcKernel' \in Seq(Byte)
         /\ Src!unread' = bytes' /\ srcPos' \in 0..Len(bytes')
         /\ Len(Src!unread') > Len(Src!unread) /\ Src!unread' # <<>>
         /\ \A i \in 1..Len(Src!unread) : Src!unread'[i] = Src!unread[i]
<1>1. k \in 1..Len(srcKernel)
  <2>1. {Chunk, Len(srcKernel)} \in SUBSET Nat /\ {Chunk, Len(srcKernel)} # {}
    BY ReaderConstants DEF SrcTypes
  <2>2. Src!Min({Chunk, Len(srcKernel)}) \in {Chunk, Len(srcKernel)}
        /\ Src!Min({Chunk, Len(srcKernel)}) <= Len(srcKernel)
    BY <2>1, SrcSmallestOf
  <2> QED BY <2>1, <2>2 DEF Src!Chunks
<1>2. PICK s, t, u, b : s = SubSeq(srcKernel, 1, k) /\ t = srcKernel' /\ u = Src!unread /\ b = bytes'
  OBVIOUS
<1>3. /\ s \in Seq(Byte) /\ t \in Seq(Byte) /\ s \o t = srcKernel /\ Len(s) = k
      /\ u \in Seq(Byte)
  <2>1. srcKernel \in Seq(Byte) /\ k \in 0..Len(srcKernel)
    BY <1>1 DEF SrcTypes
  <2>2. s \in Seq(Byte) /\ t \in Seq(Byte) /\ Len(s) = k
    BY <1>2, <2>1, FrontAndRest
  <2>3. s \o t = srcKernel
    BY <1>2, <2>1, FrontThenRest
  <2> QED BY <1>2, <2>2, <2>3, SrcUnread
<1>4. /\ b = u \o s /\ b \in Seq(Byte) /\ Len(b) = Len(u) + k
      /\ \A i \in 1..Len(u) : b[i] = u[i]
  BY <1>2, <1>3, ConcatProperties
<1>5. Src!unread' = b
  <2>1. SubSeq(b, 1, Len(b)) = b
    BY <1>4, SubSeqFull
  <2>2. Src!unread' = SubSeq(bytes', srcPos' + 1, Len(bytes')) /\ srcPos' + 1 = 1
    BY DEF Src!unread
  <2> QED BY <1>2, <2>1, <2>2
<1>6. SrcLeft' = SrcLeft
  <2>1. CASE srcBroken
    BY <2>1 DEF SrcLeft
  <2>2. CASE ~srcBroken
    <3>1. u \in Seq(Byte) /\ s \in Seq(Byte) /\ t \in Seq(Byte)
      BY <1>3
    <3>2. (u \o s) \o t = u \o (s \o t)
      BY <3>1, BytesJoin, Zenon
    <3>3. SrcLeft' = u \o s \o t \o srcPeer
      BY <1>2, <1>4, <1>5, <2>2 DEF SrcLeft
    <3> QED BY <1>2, <1>3, <2>2, <3>2, <3>3 DEF SrcLeft
  <2> QED BY <2>1, <2>2
<1>7. Len(b) > Len(u) /\ 0 \in 0..Len(b) /\ b # <<>>
  BY <1>1, <1>3, <1>4
<1>8. /\ bytes' \in Seq(Byte) /\ srcKernel' \in Seq(Byte)
      /\ Src!unread' = bytes' /\ srcPos' \in 0..Len(bytes')
      /\ Len(Src!unread') > Len(Src!unread) /\ Src!unread' # <<>>
  BY <1>2, <1>3, <1>4, <1>5, <1>7
<1>9. \A i \in 1..Len(Src!unread) : Src!unread'[i] = Src!unread[i]
  BY <1>2, <1>4, <1>5
<1> QED BY <1>6, <1>8, <1>9

(* feed: a chunk is received between two reads. *)
LEMMA SrcFeedStep ==
  ASSUME SrcInv, Src!feed
  PROVE  SrcKeeps
<1>1. PICK k \in Src!Chunks :
        /\ bytes' = Src!unread \o SubSeq(srcKernel, 1, k) /\ srcPos' = 0
        /\ srcKernel' = SubSeq(srcKernel, k + 1, Len(srcKernel))
  BY DEF Src!feed
<1>2. /\ srcCall = "none" /\ ~srcBroken
      /\ UNCHANGED <<srcPeer, srcLink, srcCall, srcN, scanned, waiting, srcResult, srcBroken>>
  BY DEF Src!feed, Src!callVars
<1>3. SrcLeft' = SrcLeft /\ bytes' \in Seq(Byte) /\ srcKernel' \in Seq(Byte)
      /\ srcPos' \in 0..Len(bytes')
  BY <1>1, <1>2, SrcReceive DEF SrcInv
<1>4. SrcTypes'
  BY <1>2, <1>3 DEF SrcInv, SrcTypes
<1>5. SrcInv'
  BY <1>2, <1>4 DEF SrcInv
<1> QED BY <1>2, <1>3, <1>5, SrcAbstractVars DEF SrcKeeps

(* A read returns, or fails, and nothing is under way.                      *)
LEMMA SrcEnd ==
  ASSUME SrcInv, srcCall # "none", srcCall' = "none", ~waiting', waiting' \in BOOLEAN,
         UNCHANGED <<srcPeer, srcLink, srcN, scanned>>, srcBroken' \in BOOLEAN,
         srcKernel' \in Seq(Byte), bytes' \in Seq(Byte), srcPos' \in 0..Len(bytes')
  PROVE  SrcInv' /\ ~srcBroken
<1>1. SrcTypes'
  BY DEF SrcInv, SrcTypes
<1> QED BY <1>1 DEF SrcInv

LEMMA SrcErrorStep ==
  ASSUME SrcInv, srcCall # "none", Src!Error, ~waiting', waiting' \in BOOLEAN,
         UNCHANGED <<srcPeer, srcLink>>,
         srcKernel' \in Seq(Byte), bytes' \in Seq(Byte), srcPos' \in 0..Len(bytes')
  PROVE  SrcKeeps
<1>1. srcBroken' = TRUE /\ srcCall' = "none" /\ UNCHANGED <<srcN, scanned, srcResult>>
  BY DEF Src!Error
<1>2. SrcInv' /\ ~srcBroken
  BY <1>1, SrcEnd
<1>3. Src!Abstract!Fail
  BY <1>1, <1>2 DEF Src!Abstract!Fail
<1> QED BY <1>2, <1>3 DEF SrcKeeps, Src!Abstract!Next

LEMMA SrcReturnStep ==
  ASSUME SrcInv, srcCall # "none", NEW b, Src!Return(b), ~waiting', waiting' \in BOOLEAN,
         UNCHANGED <<srcPeer, srcLink>>,
         srcKernel' \in Seq(Byte), bytes' \in Seq(Byte), srcPos' \in 0..Len(bytes')
  PROVE  /\ SrcInv' /\ srcResult' = b /\ ~srcBroken /\ UNCHANGED srcBroken
         /\ SrcLeft' = Src!unread' \o (srcKernel' \o srcPeer)
<1>1. /\ srcResult' = b /\ srcCall' = "none" /\ UNCHANGED <<srcN, scanned, srcBroken>>
  BY DEF Src!Return
<1>2. srcBroken' \in BOOLEAN
  BY <1>1 DEF SrcInv, SrcTypes
<1>3. SrcInv' /\ ~srcBroken
  BY <1>1, <1>2, SrcEnd
<1>4. PICK u, q, p : u = Src!unread' /\ q = srcKernel' /\ p = srcPeer
  OBVIOUS
<1>5. u \in Seq(Byte) /\ q \in Seq(Byte) /\ p \in Seq(Byte)
  <2>1. SrcTypes'
    BY <1>3 DEF SrcInv
  <2>2. Src!unread' \in Seq(Byte)
    BY <2>1, FrontAndRest DEF SrcTypes, Src!unread
  <2> QED BY <1>4, <2>2 DEF SrcInv, SrcTypes
<1>6. (u \o q) \o p = u \o (q \o p)
  BY <1>5, BytesJoin, Zenon
<1>7. SrcLeft' = u \o q \o srcPeer
  BY <1>1, <1>3, <1>4 DEF SrcLeft
<1> QED BY <1>1, <1>3, <1>4, <1>6, <1>7

(* The search of readLine, from where the last one stopped.                 *)
LEMMA SrcScanStep ==
  ASSUME SrcInv, Src!ScanLine
  PROVE  SrcKeeps
<1>1. /\ srcCall = "readLine" /\ ~waiting /\ ~srcBroken
      /\ UNCHANGED <<srcPeer, srcKernel, srcLink, bytes>> /\ SrcTypes
  BY DEF Src!ScanLine, SrcInv
<1>2. PICK g, rest, p : g = Src!unread /\ rest = srcKernel \o srcPeer /\ p = srcPos
  OBVIOUS
<1>3. /\ g \in Seq(Byte) /\ rest \in Seq(Byte) /\ SrcLeft = g \o rest
      /\ Len(g) = Len(bytes) - p /\ p \in 0..Len(bytes) /\ scanned \in Nat
      /\ \A i \in 1..Len(bytes) - p : g[i] = bytes[p + i]
      /\ Len(bytes) \in Nat /\ bytes \in Seq(Byte) /\ srcKernel \in Seq(Byte)
  BY <1>1, <1>2, SrcUnread DEF SrcTypes
<1>4. /\ scanned = 0 \/ scanned < Len(g)
      /\ \A i \in 1..scanned : ~(g[i] = CR /\ g[i + 1] = LF)
  BY <1>1, <1>2 DEF SrcInv
<1>5. PICK found : found = {i \in p + scanned..Len(bytes) - 2 :
                               bytes[i + 1] = CR /\ bytes[i + 2] = LF}
  OBVIOUS
<1>6. found = Src!findCRLF(srcPos + scanned)
  BY <1>2, <1>5 DEF Src!findCRLF
<1>7. ASSUME NEW i \in 1..Len(g) - 1, g[i] = CR /\ g[i + 1] = LF
      PROVE  p + i - 1 \in found
  <2>1. i \in Nat /\ ~(i <= scanned)
    BY <1>3, <1>4, <1>7
  <2>2. p + i - 1 \in p + scanned..Len(bytes) - 2
    BY <1>3, <2>1
  <2>3. /\ i \in 1..Len(bytes) - p /\ i + 1 \in 1..Len(bytes) - p
        /\ p + i - 1 + 1 = p + i /\ p + i - 1 + 2 = p + (i + 1)
    BY <1>3
  <2>4. g[i] = bytes[p + i] /\ g[i + 1] = bytes[p + (i + 1)]
    BY <1>3, <2>3
  <2> QED BY <1>5, <1>7, <2>2, <2>3, <2>4
<1>8. CASE found # {}
  <2>1. PICK m : m = Src!Min(found)
    OBVIOUS
  <2>2. /\ srcPos' = m + 2 /\ UNCHANGED waiting
        /\ Src!decode(SubSeq(bytes, p + 1, m))
    BY <1>2, <1>6, <1>8, <2>1 DEF Src!ScanLine
  <2>3. m \in found /\ \A k \in found : m <= k
    <3>1. p + scanned..Len(bytes) - 2 \subseteq Nat
      BY <1>3
    <3>2. found \subseteq Nat
      BY <1>5, <3>1
    <3> QED BY <1>8, <2>1, <3>2, SrcSmallestOf
  <2>4. m \in p + scanned..Len(bytes) - 2 /\ bytes[m + 1] = CR /\ bytes[m + 2] = LF
    BY <1>5, <2>3
  <2>5. PICK e : e = m - p + 1
    OBVIOUS
  <2>6. /\ e \in 1..Len(g) - 1 /\ m = p + e - 1 /\ m = p + (e - 1)
        /\ m + 1 = p + e /\ m + 2 = p + (e + 1)
        /\ e \in 1..Len(bytes) - p /\ e + 1 \in 1..Len(bytes) - p
    BY <1>3, <2>4, <2>5
  <2>7. g[e] = CR /\ g[e + 1] = LF
    BY <1>3, <2>4, <2>6
  <2>8. ASSUME NEW i \in 1..e - 1, g[i] = CR /\ g[i + 1] = LF PROVE FALSE
    <3>1. i \in 1..Len(g) - 1
      BY <1>3, <2>6
    <3>2. m <= p + i - 1
      BY <1>7, <2>3, <2>8, <3>1
    <3> QED BY <1>3, <2>6, <3>1, <3>2
  <2>9. e + 1 \in 0..Len(Src!unread) /\ srcPos' = srcPos + (e + 1)
    BY <1>2, <1>3, <2>2, <2>6
  <2>10. /\ Src!unread' = SubSeq(g, e + 1 + 1, Len(g)) /\ srcPos' \in 0..Len(bytes)
    BY <1>1, <1>2, <2>9, SrcTakeFront
  <2>11. SubSeq(bytes, p + 1, m) = SubSeq(g, 1, e - 1)
    <3>1. e - 1 \in 0..Len(bytes) - p /\ bytes \in Seq(Byte) /\ p \in 0..Len(bytes)
      BY <1>3, <2>6
    <3>2. SubSeq(SubSeq(bytes, p + 1, Len(bytes)), 1, e - 1) = SubSeq(bytes, p + 1, p + (e - 1))
      BY <3>1, RestOfRest
    <3> QED BY <1>2, <2>6, <3>2 DEF Src!unread
  <2>12. ~waiting' /\ waiting' \in BOOLEAN
    BY <1>1, <2>2 DEF SrcTypes
  <2>13. srcKernel' \in Seq(Byte) /\ bytes' \in Seq(Byte) /\ srcPos' \in 0..Len(bytes')
    BY <1>1, <1>3, <2>10
  <2>14. CASE Src!Error
    BY <1>1, <2>12, <2>13, <2>14, SrcErrorStep
  <2>15. CASE Src!Return(SubSeq(bytes, p + 1, m))
    <3>1. /\ SrcInv' /\ srcResult' = SubSeq(bytes, p + 1, m) /\ UNCHANGED srcBroken
          /\ SrcLeft' = Src!unread' \o (srcKernel' \o srcPeer)
      BY <1>1, <2>12, <2>13, <2>15, SrcReturnStep
    <3>2. e + 1 + 1 = e + 2
      BY <2>6
    <3>3. SrcLeft' = SubSeq(g, e + 2, Len(g)) \o rest
      BY <1>1, <1>2, <2>10, <3>1, <3>2
    <3>4. Src!Abstract!ReadLine
      BY <1>1, <1>3, <2>6, <2>7, <2>8, <2>11, <3>1, <3>3, SrcFirstLine
    <3> QED BY <3>1, <3>4 DEF SrcKeeps, Src!Abstract!Next
  <2> QED BY <2>2, <2>14, <2>15 DEF Src!decode
<1>9. CASE found = {} /\ Len(Src!unread) > maxLineBytes
  <2>1. Src!Error /\ UNCHANGED <<srcPos, waiting>>
    BY <1>6, <1>9 DEF Src!ScanLine
  <2>2. ~waiting' /\ waiting' \in BOOLEAN
    BY <1>1, <2>1 DEF SrcTypes
  <2>3. srcKernel' \in Seq(Byte) /\ bytes' \in Seq(Byte) /\ srcPos' \in 0..Len(bytes')
    BY <1>1, <1>2, <1>3, <2>1
  <2> QED BY <1>1, <2>1, <2>2, <2>3, SrcErrorStep
<1>10. CASE found = {} /\ ~(Len(Src!unread) > maxLineBytes)
  <2>1. /\ scanned' = IF g = <<>> THEN 0 ELSE Len(g) - 1
        /\ waiting' = TRUE /\ UNCHANGED <<srcPos, srcCall, srcN, srcResult, srcBroken>>
    BY <1>2, <1>6, <1>10 DEF Src!ScanLine
  <2>2. UNCHANGED <<Src!unread, SrcLeft>>
    BY <1>1, <2>1 DEF Src!unread, SrcLeft
  <2>3. OneLine(g)
    BY <1>7, <1>10 DEF OneLine
  <2>4. scanned' \in Nat /\ (scanned' = 0 \/ scanned' < Len(g)) /\ scanned' <= Len(g)
        /\ (scanned' # 0 => scanned' = Len(g) - 1)
    BY <1>3, <2>1
  <2>5. SrcTypes'
    BY <1>1, <2>1, <2>4 DEF SrcTypes
  <2>6. \A i \in 1..scanned' : ~(g[i] = CR /\ g[i + 1] = LF)
    BY <2>3, <2>4 DEF OneLine
  <2>7. Src!unread' = g
    BY <1>2, <2>2
  <2>8. SrcInv'
    <3>1. OneLine(Src!unread')
      BY <2>3, <2>7
    <3> QED BY <1>1, <2>1, <2>4, <2>5, <2>6, <2>7, <3>1 DEF SrcInv, OneLine
  <2> QED BY <2>1, <2>2, <2>8, SrcAbstractVars DEF SrcKeeps
<1> QED BY <1>8, <1>9, <1>10

(* A result that is the front of the input, and the input is the rest.      *)
LEMMA SrcPiece ==
  ASSUME NEW b \in Seq(Byte), NEW r \in Seq(Byte), SrcLeft = b \o r, SrcLeft' = r,
         b = <<>> => SrcLeft = <<>>,
         ~srcBroken, UNCHANGED srcBroken, srcResult' = b
  PROVE  Src!Abstract!Read
<1>1. /\ SubSeq(SrcLeft, 1, Len(b)) = b /\ SubSeq(SrcLeft, Len(b) + 1, Len(SrcLeft)) = r
      /\ Len(b) \in 0..Len(SrcLeft)
  BY WholeAndRest
<1>2. Len(b) = 0 => SrcLeft = <<>>
  OBVIOUS
<1> QED BY <1>1, <1>2, SrcRead

(* readN and readSome return from the buffer. *)
LEMMA SrcTakeStep ==
  ASSUME SrcInv, Src!TakeBuffered
  PROVE  SrcKeeps
<1>1. /\ srcCall \in {"readN", "readSome"} /\ ~waiting /\ ~srcBroken
      /\ UNCHANGED <<srcPeer, srcKernel, srcLink, bytes, waiting>> /\ SrcTypes
      /\ Src!unread # <<>> /\ (srcCall = "readN" => srcN \in Nat \ {0})
  BY DEF Src!TakeBuffered, SrcInv, SrcTypes
<1>2. PICK g, rest, p : g = Src!unread /\ rest = srcKernel \o srcPeer /\ p = srcPos
  OBVIOUS
<1>3. /\ g \in Seq(Byte) /\ rest \in Seq(Byte) /\ SrcLeft = g \o rest
      /\ Len(g) = Len(bytes) - p /\ p \in 0..Len(bytes)
      /\ bytes \in Seq(Byte) /\ srcKernel \in Seq(Byte) /\ Len(bytes) \in Nat
      /\ Len(g) \in Nat \ {0}
  BY <1>1, <1>2, SrcUnread DEF SrcTypes
<1>4. PICK stop : stop = IF srcCall = "readN" THEN Src!Min({Len(bytes), p + srcN})
                         ELSE Len(bytes)
  OBVIOUS
<1>5. srcPos' = stop /\ Src!Return(SubSeq(bytes, p + 1, stop))
  BY <1>2, <1>4 DEF Src!TakeBuffered
<1>6. stop \in p + 1..Len(bytes)
  <2>1. CASE srcCall = "readN"
    <3>1. {Len(bytes), p + srcN} \in SUBSET Nat /\ {Len(bytes), p + srcN} # {}
      BY <1>1, <1>3, <2>1
    <3>2. stop \in {Len(bytes), p + srcN} /\ stop <= Len(bytes)
      BY <1>4, <2>1, <3>1, SrcSmallestOf
    <3>3. p \in Int /\ Len(bytes) \in Int /\ p + 1 <= Len(bytes)
      BY <1>3
    <3>4. srcN \in Int /\ srcN >= 1
      BY <1>1, <2>1
    <3>5. CASE stop = Len(bytes)
      BY <3>3, <3>5
    <3>6. CASE stop = p + srcN
      BY <3>2, <3>3, <3>4, <3>6
    <3> QED BY <3>2, <3>5, <3>6
  <2>2. CASE srcCall # "readN"
    BY <1>3, <1>4, <2>2
  <2> QED BY <2>1, <2>2
<1>7. PICK d : d = stop - p
  OBVIOUS
<1>8. d \in 1..Len(g) /\ stop = p + d /\ d \in 0..Len(Src!unread) /\ srcPos' = srcPos + d
      /\ d \in 0..Len(bytes) - p
  BY <1>2, <1>3, <1>5, <1>6, <1>7
<1>9. /\ Src!unread' = SubSeq(g, d + 1, Len(g)) /\ srcPos' \in 0..Len(bytes)
      /\ SubSeq(bytes, p + 1, stop) = SubSeq(g, 1, d)
  BY <1>1, <1>2, <1>8, SrcTakeFront
<1>10. PICK b, t : b = SubSeq(g, 1, d) /\ t = SubSeq(g, d + 1, Len(g))
  OBVIOUS
<1>11. b \in Seq(Byte) /\ t \in Seq(Byte) /\ b \o t = g /\ Len(b) = d
  <2>1. d \in 0..Len(g)
    BY <1>8
  <2> QED BY <1>3, <1>10, <2>1, FrontAndRest, FrontThenRest
<1>12. ~waiting' /\ waiting' \in BOOLEAN
  BY <1>1 DEF SrcTypes
<1>13. /\ SrcInv' /\ srcResult' = b /\ UNCHANGED srcBroken /\ SrcLeft' = t \o rest
  <2>1. srcKernel' \in Seq(Byte) /\ bytes' \in Seq(Byte) /\ srcPos' \in 0..Len(bytes')
    BY <1>1, <1>3, <1>9
  <2>2. Src!Return(b)
    BY <1>5, <1>9, <1>10
  <2>3. /\ SrcInv' /\ srcResult' = b /\ UNCHANGED srcBroken
        /\ SrcLeft' = Src!unread' \o (srcKernel' \o srcPeer)
    BY <1>1, <1>12, <2>1, <2>2, SrcReturnStep
  <2> QED BY <1>1, <1>2, <1>9, <1>10, <2>3
<1>14. (b \o t) \o rest = b \o (t \o rest) /\ t \o rest \in Seq(Byte)
  <2>1. b \in Seq(Byte) /\ t \in Seq(Byte) /\ rest \in Seq(Byte)
    BY <1>3, <1>11
  <2> QED BY <2>1, ConcatAssociative, ConcatProperties
<1>15. b # <<>>
  BY <1>8, <1>11
<1>16. Src!Abstract!Read
  <2>1. PICK r : r = t \o rest
    OBVIOUS
  <2>2. r \in Seq(Byte) /\ SrcLeft = b \o r /\ SrcLeft' = r /\ b \in Seq(Byte)
    BY <1>3, <1>11, <1>13, <1>14, <2>1
  <2> QED BY <1>1, <1>13, <1>15, <2>2, SrcPiece
<1> QED BY <1>13, <1>16 DEF SrcKeeps, Src!Abstract!Next

(* recv: a chunk, the end of input, or a failure. *)
LEMMA SrcFillStep ==
  ASSUME SrcInv, Src!fill
  PROVE  SrcKeeps
<1>1. /\ waiting /\ waiting' = FALSE /\ srcCall # "none" /\ ~srcBroken
      /\ UNCHANGED <<srcPeer, srcLink>> /\ SrcTypes
      /\ srcCall # "readLine" => Src!unread = <<>>
  BY DEF Src!fill, SrcInv
<1>2. /\ srcKernel \in Seq(Byte) /\ srcPeer \in Seq(Byte) /\ bytes \in Seq(Byte)
      /\ srcPos \in 0..Len(bytes) /\ <<>> \in Seq(Byte) /\ Len(bytes) \in 0..Len(bytes)
      /\ Src!unread \in Seq(Byte) /\ srcKernel \o srcPeer \in Seq(Byte)
      /\ SrcLeft = Src!unread \o (srcKernel \o srcPeer)
  BY <1>1, ReaderConstants, SrcUnread DEF SrcTypes
<1>3. ~waiting' /\ waiting' \in BOOLEAN
  BY <1>1
<1>4. ASSUME NEW k \in Src!Chunks, srcKernel' = SubSeq(srcKernel, k + 1, Len(srcKernel)),
             srcCall = "readSome", Src!Return(SubSeq(srcKernel, 1, k)),
             UNCHANGED <<bytes, srcPos>>
      PROVE  SrcKeeps
  <2>1. k \in 1..Len(srcKernel)
    <3>1. {Chunk, Len(srcKernel)} \in SUBSET Nat /\ {Chunk, Len(srcKernel)} # {}
      BY <1>2, ReaderConstants
    <3>2. Src!Min({Chunk, Len(srcKernel)}) \in {Chunk, Len(srcKernel)}
          /\ Src!Min({Chunk, Len(srcKernel)}) <= Len(srcKernel)
      BY <3>1, SrcSmallestOf
    <3> QED BY <3>1, <3>2 DEF Src!Chunks
  <2>2. PICK s, t : s = SubSeq(srcKernel, 1, k) /\ t = srcKernel'
    OBVIOUS
  <2>3. s \in Seq(Byte) /\ t \in Seq(Byte) /\ Len(s) = k /\ s \o t = srcKernel
    <3>1. k \in 0..Len(srcKernel)
      BY <2>1
    <3> QED BY <1>2, <1>4, <2>2, <3>1, FrontAndRest, FrontThenRest
  <2>4. /\ SrcInv' /\ srcResult' = s /\ UNCHANGED srcBroken
        /\ SrcLeft' = Src!unread' \o (srcKernel' \o srcPeer)
    <3>1. srcKernel' \in Seq(Byte) /\ bytes' \in Seq(Byte) /\ srcPos' \in 0..Len(bytes')
      BY <1>2, <1>4, <2>2, <2>3
    <3>2. Src!Return(s)
      BY <1>4, <2>2
    <3> QED BY <1>1, <1>3, <3>1, <3>2, SrcReturnStep
  <2>5. Src!unread = <<>> /\ Src!unread' = <<>>
    BY <1>1, <1>4 DEF Src!unread
  <2>6. PICK r, p : r = t \o srcPeer /\ p = srcPeer
    OBVIOUS
  <2>7. r \in Seq(Byte) /\ s \o r = srcKernel \o srcPeer
    <3>1. s \in Seq(Byte) /\ t \in Seq(Byte) /\ p \in Seq(Byte)
      BY <1>2, <2>3, <2>6
    <3>2. (s \o t) \o p = s \o (t \o p) /\ t \o p \in Seq(Byte)
      BY <3>1, ConcatAssociative, ConcatProperties
    <3> QED BY <2>3, <2>6, <3>2
  <2>8. SrcLeft = s \o r /\ SrcLeft' = r
    BY <1>2, <2>2, <2>4, <2>5, <2>6, <2>7, ConcatEmptySeq
  <2>9. s # <<>>
    BY <2>1, <2>3
  <2>10. Src!Abstract!Read
    BY <1>1, <2>3, <2>4, <2>7, <2>8, <2>9, SrcPiece
  <2> QED BY <2>4, <2>10 DEF SrcKeeps, Src!Abstract!Next
<1>5. ASSUME NEW k \in Src!Chunks, srcKernel' = SubSeq(srcKernel, k + 1, Len(srcKernel)),
             srcCall # "readSome",
             bytes' = Src!unread \o SubSeq(srcKernel, 1, k), srcPos' = 0,
             UNCHANGED <<srcCall, srcN, scanned, srcResult, srcBroken>>
      PROVE  SrcKeeps
  <2>1. /\ SrcLeft' = SrcLeft /\ bytes' \in Seq(Byte) /\ srcKernel' \in Seq(Byte)
        /\ srcPos' \in 0..Len(bytes')
        /\ Len(Src!unread') > Len(Src!unread) /\ Src!unread' # <<>>
        /\ \A i \in 1..Len(Src!unread) : Src!unread'[i] = Src!unread[i]
    BY <1>1, <1>5, SrcReceive
  <2>2. SrcTypes'
    BY <1>1, <1>5, <2>1 DEF SrcTypes
  <2>3. srcCall = "readLine" =>
          /\ scanned = 0 \/ scanned < Len(Src!unread')
          /\ \A i \in 1..scanned : ~(Src!unread'[i] = CR /\ Src!unread'[i + 1] = LF)
    <3> SUFFICES ASSUME srcCall = "readLine"
                 PROVE  /\ scanned = 0 \/ scanned < Len(Src!unread')
                        /\ \A i \in 1..scanned :
                             ~(Src!unread'[i] = CR /\ Src!unread'[i + 1] = LF)
      OBVIOUS
    <3>1. /\ scanned = 0 \/ scanned < Len(Src!unread)
          /\ \A i \in 1..scanned : ~(Src!unread[i] = CR /\ Src!unread[i + 1] = LF)
      BY DEF SrcInv
    <3>2. PICK u, v : u = Src!unread /\ v = Src!unread'
      OBVIOUS
    <3>3. /\ u \in Seq(Byte) /\ v \in Seq(Byte) /\ Len(v) > Len(u) /\ scanned \in Nat
          /\ \A i \in 1..Len(u) : v[i] = u[i]
      <4>1. v \in Seq(Byte)
        BY <2>2, <3>2, FrontAndRest DEF SrcTypes, Src!unread
      <4> QED BY <1>1, <1>2, <2>1, <3>2, <4>1 DEF SrcTypes
    <3>4. /\ scanned = 0 \/ scanned < Len(v)
          /\ \A i \in 1..scanned : ~(v[i] = CR /\ v[i + 1] = LF)
      <4>1. CASE scanned = 0
        BY <4>1
      <4>2. CASE scanned # 0
        <5>1. Len(u) \in Nat /\ Len(v) \in Nat /\ scanned < Len(u)
          BY <3>1, <3>2, <3>3, <4>2
        <5>2. \A i \in 1..scanned : i \in 1..Len(u) /\ i + 1 \in 1..Len(u)
          BY <3>3, <5>1
        <5>3. \A i \in 1..scanned : ~(u[i] = CR /\ u[i + 1] = LF)
          BY <3>1, <3>2
        <5> QED BY <3>3, <5>1, <5>2, <5>3
      <4> QED BY <4>1, <4>2
    <3> QED BY <3>2, <3>4
  <2>4. SrcInv'
    BY <1>1, <1>5, <2>1, <2>2, <2>3 DEF SrcInv
  <2> QED BY <1>5, <2>1, <2>4, SrcAbstractVars DEF SrcKeeps
<1>6. CASE /\ srcKernel = <<>> /\ srcLink = "closed" /\ srcPos' = Len(bytes)
           /\ IF srcCall = "readLine" THEN Src!decode(Src!unread) ELSE Src!Return(<<>>)
           /\ UNCHANGED <<srcKernel, bytes>>
  <2>1. srcKernel' = <<>> /\ srcPeer = <<>>
    BY <1>6 DEF SrcInv
  <2>2. Src!unread' = <<>>
    BY <1>2, <1>6 DEF Src!unread
  <2>3. <<>> \o <<>> = <<>> /\ Src!unread \o <<>> = Src!unread
    BY <1>2, ConcatEmptySeq
  <2>4. SrcLeft = Src!unread
    BY <1>2, <1>6, <2>1, <2>3
  <2>5. srcKernel' \in Seq(Byte) /\ bytes' \in Seq(Byte) /\ srcPos' \in 0..Len(bytes')
    BY <1>2, <1>6
  <2>6. CASE Src!Error
    BY <1>1, <1>3, <2>5, <2>6, SrcErrorStep
  <2>7. CASE srcCall = "readLine" /\ Src!Return(Src!unread)
    <3>1. /\ SrcInv' /\ srcResult' = Src!unread /\ UNCHANGED srcBroken
          /\ SrcLeft' = Src!unread' \o (srcKernel' \o srcPeer)
      BY <1>1, <1>3, <2>5, <2>7, SrcReturnStep
    <3>2. OneLine(Src!unread)
      BY <1>1, <2>7 DEF SrcInv
    <3>3. SrcLeft' = <<>>
      BY <2>1, <2>2, <2>3, <3>1
    <3>4. Src!Abstract!ReadLine
      BY <1>1, <1>2, <2>4, <3>1, <3>2, <3>3, SrcLastLine
    <3> QED BY <3>1, <3>4 DEF SrcKeeps, Src!Abstract!Next
  <2>8. CASE srcCall # "readLine" /\ Src!Return(<<>>)
    <3>1. /\ SrcInv' /\ srcResult' = <<>> /\ UNCHANGED srcBroken
          /\ SrcLeft' = Src!unread' \o (srcKernel' \o srcPeer)
      BY <1>1, <1>3, <2>5, <2>8, SrcReturnStep
    <3>2. SrcLeft' = <<>> /\ SrcLeft = <<>>
      BY <1>1, <2>1, <2>2, <2>3, <2>4, <2>8, <3>1
    <3>3. Src!Abstract!Read
      BY <1>1, <1>2, <2>3, <3>1, <3>2, SrcPiece
    <3> QED BY <3>1, <3>3 DEF SrcKeeps, Src!Abstract!Next
  <2> QED BY <1>6, <2>6, <2>7, <2>8 DEF Src!decode
<1>7. CASE Src!Error /\ UNCHANGED <<srcKernel, bytes, srcPos>>
  BY <1>1, <1>2, <1>3, <1>7, SrcErrorStep
<1> QED BY <1>4, <1>5, <1>6, <1>7 DEF Src!fill

(* BufferedSource!IsByteSource: the reads return the input, all of it and   *)
(* in order, although a search for a CRLF goes on where the last one        *)
(* stopped, and although chunks arrive between the calls.                   *)
THEOREM BufferedSourceIsByteSource == Src!Spec => []Src!TypeOK /\ Src!IsByteSource
<1>1. Src!Init => SrcInv /\ Src!Abstract!Init
  <2> SUFFICES ASSUME Src!Init PROVE SrcInv /\ Src!Abstract!Init
    OBVIOUS
  <2>1. /\ srcPeer \in SrcInput /\ srcPeer \in Seq(Byte) /\ srcKernel = <<>>
        /\ srcLink = "open" /\ bytes = <<>> /\ srcPos = 0 /\ srcCall = "none" /\ srcN = 0
        /\ scanned = 0 /\ waiting = FALSE /\ srcResult = <<>> /\ srcBroken = FALSE
    BY InputBytes DEF Src!Init
  <2>2. SrcTypes
    <3>1. srcKernel \in Seq(Byte) /\ bytes \in Seq(Byte) /\ srcPos \in 0..Len(bytes)
      BY <2>1, ReaderConstants
    <3> QED BY <2>1, <3>1 DEF SrcTypes
  <2>3. SrcInv
    BY <2>1, <2>2 DEF SrcInv
  <2>4. SrcLeft = srcPeer
    <3>1. Src!unread = <<>>
      BY <2>1 DEF Src!unread
    <3>2. <<>> \o <<>> = <<>> /\ <<>> \o srcPeer = srcPeer
      BY <2>1, ReaderConstants, ConcatEmptySeq
    <3> QED BY <2>1, <3>1, <3>2 DEF SrcLeft
  <2> QED BY <2>1, <2>3, <2>4 DEF Src!Abstract!Init, SrcLeft
<1>2. SrcInv /\ [Src!Next]_(Src!vars) => SrcKeeps
  <2> SUFFICES ASSUME SrcInv, [Src!Next]_(Src!vars) PROVE SrcKeeps
    OBVIOUS
  <2>1. CASE UNCHANGED Src!vars
    <3>1. UNCHANGED <<srcPeer, srcKernel, srcLink, bytes, srcPos, srcCall, srcN, scanned,
                      waiting, srcResult, srcBroken>>
      BY <2>1 DEF Src!vars, Src!callVars
    <3>2. UNCHANGED <<Src!unread, SrcLeft>>
      BY <3>1 DEF Src!unread, SrcLeft
    <3>3. SrcTypes'
      BY <3>1 DEF SrcInv, SrcTypes
    <3>4. SrcInv'
      BY <3>1, <3>2, <3>3 DEF SrcInv, OneLine
    <3> QED BY <3>1, <3>2, <3>4, SrcAbstractVars DEF SrcKeeps
  <2> QED BY <2>1, SrcPeerStep, SrcCallStep, SrcFeedStep, SrcScanStep, SrcTakeStep,
        SrcFillStep
          DEF Src!Next
<1>3. SrcKeeps => SrcInv' /\ [Src!Abstract!Next]_(Src!Abstract!vars)
  BY DEF SrcKeeps
<1>4. SrcInv => Src!TypeOK
  <2> SUFFICES ASSUME SrcInv PROVE Src!TypeOK
    OBVIOUS
  <2>1. waiting /\ srcCall # "readLine" => srcPos = Len(bytes)
    <3> SUFFICES ASSUME waiting, srcCall # "readLine" PROVE srcPos = Len(bytes)
      OBVIOUS
    <3>1. Src!unread = <<>> /\ SrcTypes
      BY DEF SrcInv
    <3>2. Len(Src!unread) = Len(bytes) - srcPos
      BY <3>1, SrcUnread
    <3> QED BY <3>1, <3>2 DEF SrcTypes
  <2> QED BY <2>1 DEF SrcInv, SrcTypes, Src!TypeOK
<1> QED BY <1>1, <1>2, <1>3, <1>4, PTL DEF Src!Spec, Src!IsByteSource, Src!Abstract!Spec

(* IsByteSource of MCNetwork, put together. *)
THEOREM ReadersReturnTheInput == Rb!Spec /\ Src!Spec => IsByteSource
BY RecvBufferIsByteSource, BufferedSourceIsByteSource, PTL DEF IsByteSource
=============================================================================
