--------------------------- MODULE ProgressProofs ---------------------------
(***************************************************************************)
(* The log of a progress screen only grows by messages of the job whose    *)
(* effect the hook has run last, for any jobs, connections and sizes of    *)
(* the boxes.                                                              *)
(***************************************************************************)
EXTENDS Progress, SequenceTheorems, TLAPS

(* The messages of a sequence are all about job j. *)
About(q, j) == q \in Seq([job : {j}, n : Nat])

(* What is on its way to socket s is about the job of that socket; a handler *)
(* that has not subscribed or has ended holds nothing; and a socket that is  *)
(* open was opened by the effect that was run last.                          *)
OnTheWay(s) == /\ About(box[s], socket[s].job)
               /\ About(hand[s], socket[s].job)
               /\ About(wire[s], socket[s].job)

AtRest(s)   == handler[s] \in {"absent", "accept", "ended"} =>
                 s \notin subs /\ box[s] = <<>> /\ hand[s] = <<>>

OpenIsLast(s) == socket[s].open => socket[s].job = effect

Shape == /\ published \in Nat
         /\ handed \in Seq([job : Jobs, n : Nat])
         /\ subs \subseteq Sockets
         /\ DOMAIN box = Sockets
         /\ DOMAIN hand = Sockets
         /\ DOMAIN wire = Sockets
         /\ handler \in [Sockets -> Handlers]
         /\ socket \in [Sockets -> [job : Jobs \cup {None}, open : BOOLEAN]]
         /\ effect \in Jobs \cup {None}
         /\ shown \in [job : Jobs \cup {None}, log : Seq([job : Jobs \cup {None}, n : Nat])]

Inv == Shape /\ \A s \in Sockets : OnTheWay(s) /\ AtRest(s) /\ OpenIsLast(s)

-----------------------------------------------------------------------------
LEMMA NothingAbout == ASSUME NEW j PROVE About(<<>>, j)
BY DEF About

LEMMA InitInv == Init => Inv
<1> SUFFICES ASSUME Init PROVE Inv
  OBVIOUS
<1>1. <<>> \in Seq([job : Jobs, n : Nat]) /\ <<>> \in Seq([job : Jobs \cup {None}, n : Nat])
  OBVIOUS
<1>2. Shape
  BY <1>1 DEF Init, Shape, NoScreen, Handlers
<1>3. ASSUME NEW s \in Sockets PROVE OnTheWay(s) /\ AtRest(s) /\ OpenIsLast(s)
  <2>1. /\ box[s] = <<>> /\ hand[s] = <<>> /\ wire[s] = <<>>
        /\ s \notin subs /\ ~socket[s].open
    BY DEF Init
  <2>2. OnTheWay(s)
    BY <2>1, NothingAbout DEF OnTheWay
  <2> QED BY <2>1, <2>2 DEF AtRest, OpenIsLast
<1> QED BY <1>2, <1>3 DEF Inv

(* The head, the tail and an extension of a sequence of messages about j. *)
LEMMA AboutParts ==
  ASSUME NEW j, NEW q, About(q, j)
  PROVE  /\ q # <<>> => About(<<Head(q)>>, j) /\ About(Tail(q), j)
         /\ \A m \in [job : {j}, n : Nat] : About(Append(q, m), j)
<1> DEFINE M == [job : {j}, n : Nat]
<1>1. q \in Seq(M)
  BY DEF About
<1>2. q # <<>> => Head(q) \in M /\ Tail(q) \in Seq(M)
  BY <1>1, HeadTailProperties
<1>3. \A m \in M : Append(q, m) \in Seq(M)
  BY <1>1, AppendProperties
<1>4. q # <<>> => <<Head(q)>> \in Seq(M)
  BY <1>2
<1> QED BY <1>2, <1>3, <1>4 DEF About

LEMMA StepInv == Inv /\ [Next]_vars => Inv'
<1> SUFFICES ASSUME Inv, [Next]_vars PROVE Inv'
  OBVIOUS
<1> USE DEF Inv
<1> DEFINE Same(s) == /\ UNCHANGED <<box[s], hand[s], wire[s], handler[s], socket[s]>>
                      /\ s \in subs' => s \in subs
<1>same. ASSUME NEW s \in Sockets, Same(s), effect' = effect
         PROVE  (OnTheWay(s) /\ AtRest(s) /\ OpenIsLast(s))'
  BY <1>same DEF OnTheWay, AtRest, OpenIsLast, About
<1>1. ASSUME NEW j \in Jobs, Publish(j) PROVE Inv'
  <2>1. handed' \in Seq([job : Jobs, n : Nat])
    <3>1. CASE Subscribers(j) = {}
      BY <1>1, <3>1 DEF Publish, Shape
    <3>2. CASE Subscribers(j) # {}
      <4>1. [job |-> j, n |-> published + 1] \in [job : Jobs, n : Nat]
        BY DEF Shape
      <4>2. handed \in Seq([job : Jobs, n : Nat])
        BY DEF Shape
      <4> QED BY <1>1, <3>2, <4>1, <4>2, AppendProperties DEF Publish
    <3> QED BY <3>1, <3>2
  <2>2. Shape'
    BY <1>1, <2>1 DEF Publish, Shape, serving, page
  <2>3. \A s \in Sockets : Same(s)
    BY <1>1 DEF Publish, serving, page
  <2>4. effect' = effect
    BY <1>1 DEF Publish, page
  <2> QED BY <2>2, <2>3, <2>4, <1>same
<1>2. CASE Deliver
  <2> DEFINE m == Head(handed)
  <2>1. m \in [job : Jobs, n : Nat] /\ handed' \in Seq([job : Jobs, n : Nat])
    BY <1>2, HeadTailProperties DEF Deliver, Shape
  <2>2. /\ box' = [s \in Sockets |-> IF s \in Subscribers(m.job) THEN Put(box[s], m) ELSE box[s]]
        /\ UNCHANGED <<published, subs, handler, hand, watch, wire, socket, shown, effect>>
    BY <1>2 DEF Deliver, serving, page
  <2>3. Shape'
    BY <2>1, <2>2 DEF Shape
  <2>4. ASSUME NEW s \in Sockets PROVE (OnTheWay(s) /\ AtRest(s) /\ OpenIsLast(s))'
    <3>1. CASE s \in Subscribers(m.job)
      <4>1. s \in subs /\ m \in [job : {socket[s].job}, n : Nat]
        BY <2>1, <3>1 DEF Subscribers
      <4>2. About(box[s], socket[s].job) /\ About(Append(box[s], m), socket[s].job)
        BY <4>1, AboutParts DEF OnTheWay
      <4>3. About(box'[s], socket[s].job)
        BY <2>2, <3>1, <4>2 DEF Put
      <4> QED BY <2>2, <4>1, <4>3 DEF OnTheWay, AtRest, OpenIsLast, About
    <3>2. CASE s \notin Subscribers(m.job)
      BY <2>2, <3>2, <1>same
    <3> QED BY <3>1, <3>2
  <2> QED BY <2>3, <2>4
<1>3. ASSUME NEW t \in Sockets, Serve(t) \/ Watch(t) PROVE Inv'
  <2>0. /\ UNCHANGED <<published, handed, socket, shown, effect>>
        /\ \A s \in Sockets \ {t} : Same(s)
        /\ DOMAIN box' = Sockets /\ DOMAIN hand' = Sockets /\ DOMAIN wire' = Sockets
        /\ handler' \in [Sockets -> Handlers]
        /\ subs' \subseteq Sockets
    BY <1>3 DEF Serve, Subscribe, Take, Hangup, StartSend, Send, SendFails, Watch, Leave,
                Staying, Becomes, Shape, Handlers, broker, page, serving
  <2>1. Shape'
    BY <2>0 DEF Shape
  <2>2. (OnTheWay(t) /\ AtRest(t) /\ OpenIsLast(t))'
    <3> DEFINE j == socket[t].job
    <3>0. socket' = socket /\ effect' = effect
      BY <2>0
    <3>1. CASE Subscribe(t)
      BY <3>0, <3>1 DEF Subscribe, Becomes, Shape, OnTheWay, AtRest, OpenIsLast, About
    <3>2. CASE Take(t)
      <4>1. About(<<Head(box[t])>>, j) /\ About(Tail(box[t]), j)
        BY <3>2, AboutParts DEF Take, OnTheWay
      <4>2. /\ hand'[t] = <<Head(box[t])>> /\ box'[t] = Tail(box[t])
            /\ wire' = wire /\ handler'[t] = "got"
        BY <3>2 DEF Take, Becomes, Shape
      <4> QED BY <3>0, <4>1, <4>2 DEF OnTheWay, AtRest, OpenIsLast, About
    <3>3. CASE Hangup(t) \/ SendFails(t)
      <4>1. /\ hand'[t] = <<>> /\ box'[t] = <<>> /\ t \notin subs' /\ wire' = wire
        BY <3>3 DEF Hangup, SendFails, Leave, Staying, Shape
      <4> QED BY <3>0, <4>1, NothingAbout DEF OnTheWay, AtRest, OpenIsLast, About
    <3>4. CASE StartSend(t)
      BY <3>0, <3>4 DEF StartSend, Becomes, Shape, OnTheWay, AtRest, OpenIsLast, About, broker
    <3>5. CASE Send(t)
      <4>1. /\ hand'[t] = <<>> /\ wire'[t] = hand[t] /\ box' = box /\ handler'[t] = "wait"
        BY <3>5 DEF Send, Becomes, Shape, broker
      <4> QED BY <3>0, <4>1, NothingAbout DEF OnTheWay, AtRest, OpenIsLast, About
    <3>6. CASE Watch(t)
      BY <3>0, <3>6 DEF Watch, OnTheWay, AtRest, OpenIsLast, About, broker
    <3> QED BY <1>3, <3>1, <3>2, <3>3, <3>4, <3>5, <3>6 DEF Serve
  <2> QED BY <2>0, <2>1, <2>2, <1>same
<1>r. ASSUME NEW screen, Render(screen),
             screen \in [job : Jobs \cup {None}, log : Seq([job : Jobs \cup {None}, n : Nat])]
      PROVE  Inv'
  <2>1. shown' = screen /\ UNCHANGED <<published, handed, subs, box, handler, hand, wire, socket, effect>>
    BY <1>r DEF Render, broker, serving
  <2>2. Shape'
    BY <1>r, <2>1 DEF Shape
  <2>3. \A s \in Sockets : Same(s)
    BY <2>1
  <2> QED BY <2>1, <2>2, <2>3, <1>same
<1>4. CASE Unmount \/ \E j \in Jobs : Show(j)
  <2> DEFINE Screen == [job : Jobs \cup {None}, log : Seq([job : Jobs \cup {None}, n : Nat])]
  <2>1. NoScreen \in Screen
    BY DEF NoScreen
  <2>2. \A j \in Jobs : [shown EXCEPT !.job = j] \in Screen
    BY DEF Shape
  <2> QED BY <1>4, <1>r, <2>1, <2>2 DEF Unmount, Show
<1>5. CASE Effects
  <2>0. /\ effect' = shown.job /\ shown.job \in Jobs \cup {None}
        /\ UNCHANGED <<published, handed, subs, box, hand, wire, shown>>
    BY <1>5 DEF Effects, Shape, broker
  <2>1. CASE shown.job = None
    <3>1. /\ socket' = Closing /\ handler' = handler
      BY <1>5, <2>1 DEF Effects
    <3>2. /\ \A s \in Sockets : socket'[s].job = socket[s].job /\ ~socket'[s].open
          /\ socket' \in [Sockets -> [job : Jobs \cup {None}, open : BOOLEAN]]
      BY <3>1 DEF Closing, Shape
    <3>3. Shape'
      BY <2>0, <3>1, <3>2 DEF Shape
    <3>4. ASSUME NEW s \in Sockets PROVE (OnTheWay(s) /\ AtRest(s) /\ OpenIsLast(s))'
      BY <2>0, <3>1, <3>2 DEF OnTheWay, AtRest, OpenIsLast, About
    <3> QED BY <3>3, <3>4
  <2>2. ASSUME NEW t \in Sockets, Free(t), Becomes(t, "accept"), shown.job # None,
               socket' = [Closing EXCEPT ![t] = [job |-> shown.job, open |-> TRUE]]
        PROVE  Inv'
    <3>1. /\ socket'[t] = [job |-> shown.job, open |-> TRUE]
          /\ \A s \in Sockets \ {t} : socket'[s].job = socket[s].job /\ ~socket'[s].open
          /\ socket' \in [Sockets -> [job : Jobs \cup {None}, open : BOOLEAN]]
      BY <2>0, <2>2 DEF Closing, Shape
    <3>2. Shape'
      BY <2>0, <2>2, <3>1 DEF Shape, Becomes, Handlers
    <3>3. (OnTheWay(t) /\ AtRest(t) /\ OpenIsLast(t))'
      <4>1. box[t] = <<>> /\ hand[t] = <<>> /\ wire[t] = <<>> /\ t \notin subs
        BY <2>2 DEF AtRest, Free
      <4>2. box'[t] = <<>> /\ hand'[t] = <<>> /\ wire'[t] = <<>> /\ t \notin subs'
        BY <2>0, <4>1
      <4>3. OnTheWay(t)'
        BY <4>2, NothingAbout DEF OnTheWay
      <4> QED BY <2>0, <3>1, <4>2, <4>3 DEF AtRest, OpenIsLast
    <3>4. ASSUME NEW s \in Sockets \ {t} PROVE (OnTheWay(s) /\ AtRest(s) /\ OpenIsLast(s))'
      BY <2>0, <2>2, <3>1 DEF OnTheWay, AtRest, OpenIsLast, About, Becomes, Shape
    <3> QED BY <3>2, <3>3, <3>4
  <2> QED BY <1>5, <2>1, <2>2 DEF Effects
<1>6. ASSUME NEW t \in Sockets, Receive(t) PROVE Inv'
  <2>1. wire[t] \in Seq([job : Jobs \cup {None}, n : Nat])
    <3>1. socket[t].job \in Jobs \cup {None}
      BY DEF Shape
    <3>2. wire[t] \in Seq([job : {socket[t].job}, n : Nat])
      BY DEF OnTheWay, About
    <3>3. [job : {socket[t].job}, n : Nat] \subseteq [job : Jobs \cup {None}, n : Nat]
      BY <3>1
    <3> DEFINE A == [job : {socket[t].job}, n : Nat]
               B == [job : Jobs \cup {None}, n : Nat]
    <3>4. A \subseteq B /\ wire[t] \in Seq(A)
      BY <3>2, <3>3
    <3> HIDE DEF A, B
    <3>5. wire[t] \in Seq(B)
      BY <3>4
    <3> QED BY <3>5 DEF B
  <2>2. shown' \in [job : Jobs \cup {None}, log : Seq([job : Jobs \cup {None}, n : Nat])]
        /\ shown'.job = shown.job
    <3> DEFINE B == [job : Jobs \cup {None}, n : Nat]
    <3>1. shown \in [job : Jobs \cup {None}, log : Seq(B)] /\ wire[t] \in Seq(B)
      BY <2>1 DEF Shape
    <3>2. shown' = shown \/ shown' = [shown EXCEPT !.log = @ \o wire[t]]
      BY <1>6 DEF Receive
    <3> HIDE DEF B
    <3>3. shown.log \o wire[t] \in Seq(B)
      BY <3>1, ConcatProperties
    <3>4. shown' \in [job : Jobs \cup {None}, log : Seq(B)] /\ shown'.job = shown.job
      BY <3>1, <3>2, <3>3
    <3> QED BY <3>4 DEF B
  <2>3. /\ wire' = [wire EXCEPT ![t] = <<>>]
        /\ UNCHANGED <<published, handed, subs, box, handler, hand, socket, effect>>
    BY <1>6 DEF Receive, broker, serving
  <2>4. Shape'
    BY <2>2, <2>3 DEF Shape
  <2>5. ASSUME NEW s \in Sockets PROVE (OnTheWay(s) /\ AtRest(s) /\ OpenIsLast(s))'
    <3>1. About(wire'[s], socket[s].job)
      BY <2>3, NothingAbout DEF OnTheWay, Shape
    <3> QED BY <2>2, <2>3, <3>1 DEF OnTheWay, AtRest, OpenIsLast, About
  <2> QED BY <2>4, <2>5
<1>7. CASE UNCHANGED vars
  BY <1>7 DEF vars, broker, serving, page, Shape, OnTheWay, AtRest, OpenIsLast, About
<1> QED BY <1>1, <1>2, <1>3, <1>4, <1>5, <1>6, <1>7 DEF Next

-----------------------------------------------------------------------------
(* A step that adds to the log adds messages of the job of the last effect. *)
LEMMA StepOwn ==
  Inv /\ [Next]_vars =>
    \A i \in DOMAIN shown'.log : i > Len(shown.log) => shown'.log[i].job = effect
<1> SUFFICES ASSUME Inv, [Next]_vars,
                    NEW i \in DOMAIN shown'.log, i > Len(shown.log)
             PROVE  shown'.log[i].job = effect
  OBVIOUS
<1> USE DEF Inv
<1>0. shown.log \in Seq([job : Jobs \cup {None}, n : Nat])
  BY DEF Shape
<1>1. CASE shown'.log = shown.log
  BY <1>0, <1>1
<1>2. CASE shown'.log # shown.log
  <2>1. PICK s \in Sockets : Receive(s)
    <3>1. CASE Unmount
      <4>1. shown'.log = <<>>
        BY <3>1 DEF Unmount, Render, NoScreen
      <4> QED BY <4>1
    <3>2. ASSUME NEW j \in Jobs, Show(j) PROVE FALSE
      BY <3>2, <1>2 DEF Show, Render, Shape
    <3> QED BY <1>2, <3>1, <3>2
            DEF Next, Publish, Deliver, Effects, Serve, Watch, Subscribe, Take, Hangup, StartSend, Send,
                SendFails, Leave, vars, page
  <2>2. socket[s].open /\ shown'.log = shown.log \o wire[s]
    BY <1>2, <2>1 DEF Receive, Shape
  <2>3. wire[s] \in Seq([job : {effect}, n : Nat])
    BY <2>2 DEF OnTheWay, OpenIsLast, About
  <2> DEFINE A == [job : {effect}, n : Nat]
             B == [job : Jobs \cup {None}, n : Nat]
  <2>4. shown.log \in Seq(B) /\ wire[s] \in Seq(A)
    BY <1>0, <2>3
  <2> HIDE DEF A, B
  <2>5. i - Len(shown.log) \in 1 .. Len(wire[s])
        /\ shown'.log[i] = wire[s][i - Len(shown.log)]
    <3> DEFINE p == shown.log
               q == wire[s]
    <3>1. p \in Seq(A \cup B) /\ q \in Seq(A \cup B)
      BY <2>4
    <3>2. i \in DOMAIN (p \o q) /\ i > Len(p) /\ shown'.log = p \o q
      BY <2>2
    <3> HIDE DEF p, q
    <3>3. Len(p) \in Nat /\ Len(q) \in Nat /\ Len(p \o q) = Len(p) + Len(q)
          /\ i \in 1 .. Len(p) + Len(q)
      BY <3>1, <3>2, ConcatProperties, LenProperties
    <3>4. (p \o q)[i] = q[i - Len(p)]
      BY <3>1, <3>2, <3>3, ConcatProperties
    <3>5. i - Len(p) \in 1 .. Len(q)
      BY <3>2, <3>3
    <3> QED BY <3>2, <3>4, <3>5 DEF p, q
  <2>6. wire[s][i - Len(shown.log)] \in A
    BY <2>4, <2>5, ElementOfSeq
  <2>7. shown'.log[i] \in A
    BY <2>5, <2>6
  <2> QED BY <2>7 DEF A
<1> QED BY <1>1, <1>2

(* Whatever order messages, disconnections and changes of the screen come   *)
(* in, the log of the screen is only given messages of the job for which    *)
(* the effect of the hook was run last: those of the job on the screen,     *)
(* but for the time between a render and its effects (progress.py:58-65,    *)
(* main.py:275-291, useProgress.ts:16-30).                                  *)
THEOREM LogIsOwn == Spec => OwnMessages
<1>1. Init /\ [][Next]_vars => []Inv
  BY InitInv, StepInv, PTL
<1>2. Inv /\ [Next]_vars => [\A i \in DOMAIN shown'.log :
         i > Len(shown.log) => shown'.log[i].job = effect]_vars
  BY StepOwn
<1> QED BY <1>1, <1>2, PTL DEF Spec, OwnMessages
=============================================================================
