------------------------------ MODULE Progress ------------------------------
(***************************************************************************)
(* Progress of a job, from the worker thread that publishes it to the      *)
(* screen that shows it: the broker of server/progress.py, the handler of  *)
(* one WebSocket in server/main.py, and the useProgress hook of the page.  *)
(***************************************************************************)
EXTENDS Naturals, Sequences

CONSTANTS Jobs,         \* ids of jobs
          Sockets,      \* connections there may be at once, closed ones included
          BoxSize,      \* QUEUE_MAXSIZE
          MaxMessages   \* bound on the messages published

ASSUME ProgressAssumption == BoxSize \in Nat \ {0} /\ MaxMessages \in Nat

VARIABLES
  published,  \* messages published so far, which numbers them
  handed,     \* the _deliver calls waiting on the event loop
  subs,       \* the sockets whose handler is inside broker.subscribe
  box,        \* the asyncio.Queue of each subscription
  handler,    \* the coroutine that serves each socket
  hand,       \* the message a handler has taken from its box (none or one)
  watch,      \* the sockets whose disconnection the handler has been told of
  wire,       \* sent and not yet received by the page
  socket,     \* each socket of the page: its job, and whether it is open
  shown,      \* the job of the progress screen as rendered, with the log it shows
  effect,     \* the job that the effect of the hook was last run for
  dropped     \* history: the messages that found a box full

broker  == <<published, handed, subs, box>>
serving == <<handler, hand, watch>>
page    == <<socket, shown, effect>>
vars    == <<broker, serving, wire, page, dropped>>

None     == "none"
Message  == [job : Jobs, n : 1..MaxMessages]
Handlers == {"absent", "accept", "wait", "got", "sending", "ended"}
NoScreen == [job |-> None, log |-> <<>>]

Init == /\ published = 0
        /\ handed = <<>>
        /\ subs = {}
        /\ box = [s \in Sockets |-> <<>>]
        /\ handler = [s \in Sockets |-> "absent"]
        /\ hand = [s \in Sockets |-> <<>>]
        /\ watch = {}
        /\ wire = [s \in Sockets |-> <<>>]
        /\ socket = [s \in Sockets |-> [job |-> None, open |-> FALSE]]
        /\ shown = NoScreen /\ effect = None
        /\ dropped = {}

-----------------------------------------------------------------------------
(* The broker *)

Subscribers(j) == {s \in subs : socket[s].job = j}

\* A worker thread publishes; nobody listening, nothing is kept.
Publish(j) ==
  /\ published < MaxMessages
  /\ published' = published + 1
  /\ handed' = IF Subscribers(j) = {} THEN handed
               ELSE Append(handed, [job |-> j, n |-> published + 1])
  /\ UNCHANGED <<subs, box, serving, wire, page, dropped>>

\* queue.put_nowait, the QueueFull it raises being swallowed.
Put(q, m) == IF Len(q) < BoxSize THEN Append(q, m) ELSE q

Full(s) == Len(box[s]) = BoxSize

\* The event loop runs the oldest of the calls it was handed.
Deliver ==
  /\ handed # <<>>
  /\ LET m == Head(handed)  S == Subscribers(m.job) IN
     /\ box' = [s \in Sockets |-> IF s \in S THEN Put(box[s], m) ELSE box[s]]
     /\ dropped' = IF \E s \in S : Full(s) THEN dropped \cup {m} ELSE dropped
  /\ handed' = Tail(handed)
  /\ UNCHANGED <<published, subs, serving, wire, page>>

-----------------------------------------------------------------------------
(* progress_ws, the handler of socket s *)

Becomes(s, h) == handler' = [handler EXCEPT ![s] = h]

\* The subscription is taken after the handshake.
Subscribe(s) == /\ handler[s] = "accept"
                /\ Becomes(s, "wait")
                /\ subs' = subs \cup {s}
                /\ UNCHANGED <<published, handed, box, hand, watch, wire, page, dropped>>

\* The task that waits on the box gets a message.
Take(s) == /\ handler[s] = "wait"
           /\ box[s] # <<>>
           /\ Becomes(s, "got")
           /\ hand' = [hand EXCEPT ![s] = <<Head(box[s])>>]
           /\ box' = [box EXCEPT ![s] = Tail(@)]
           /\ UNCHANGED <<published, handed, subs, watch, wire, page, dropped>>

\* until_disconnected returns: receive() says that the client has left.
Watch(s) == /\ handler[s] \in {"wait", "got", "sending"}
            /\ ~socket[s].open
            /\ watch' = watch \cup {s}
            /\ UNCHANGED <<broker, handler, hand, wire, page, dropped>>

\* Mutant of Staying: the entry of the job goes with the first that leaves.
StayingNone(s) == subs \ Subscribers(socket[s].job)

\* The subscriptions that are left when s goes.
Staying(s) == subs \ {s}

\* The handler leaves the subscription, whichever way.
Leave(s) == /\ Becomes(s, "ended")
            /\ subs' = Staying(s)
            /\ hand' = [hand EXCEPT ![s] = <<>>]
            /\ box' = [box EXCEPT ![s] = <<>>]
            /\ UNCHANGED <<published, handed, watch, wire, page, dropped>>

\* Mutant of Disconnected: only a message wakes the handler.
OnMessage(s) == handler[s] = "got" /\ s \in watch

\* Awake, from a message or from the watch, it looks at the watch first.
Disconnected(s) == handler[s] \in {"wait", "got"} /\ s \in watch

Hangup(s) == Disconnected(s) /\ Leave(s)

StartSend(s) == /\ handler[s] = "got"
                /\ s \notin watch
                /\ Becomes(s, "sending")
                /\ UNCHANGED <<broker, hand, watch, wire, page, dropped>>

\* The message goes once the connection takes it; one may be under way.
Send(s) == /\ handler[s] = "sending"
           /\ socket[s].open /\ wire[s] = <<>>
           /\ Becomes(s, "wait")
           /\ wire' = [wire EXCEPT ![s] = hand[s]]
           /\ hand' = [hand EXCEPT ![s] = <<>>]
           /\ UNCHANGED <<broker, watch, page, dropped>>

\* Sending to a client that has left raises.
SendFails(s) == handler[s] = "sending" /\ ~socket[s].open /\ Leave(s)

-----------------------------------------------------------------------------
(* The page *)

\* Mutant of Closing: leaving a screen forgets its socket and leaves it open.
NotClosing == socket

\* The cleanup of the effect closes the socket it opened.
Closing == [s \in Sockets |-> [socket[s] EXCEPT !.open = FALSE]]

Free(s) == handler[s] \in {"absent", "ended"} /\ wire[s] = <<>>

\* A screen is rendered, or another job on it (the log of the first stays), or
\* it is taken away; the effects of that run later, and before the next render.
Render(screen) == /\ effect = shown.job
                  /\ shown' = screen
                  /\ UNCHANGED <<broker, serving, wire, socket, effect, dropped>>

Show(j) == /\ shown.job # j
           /\ \E s \in Sockets : Free(s)
           /\ Render([shown EXCEPT !.job = j])

Unmount == shown.job # None /\ Render(NoScreen)

\* The cleanup of the effect for the last job, and the effect for this one.
Effects == /\ effect # shown.job
           /\ effect' = shown.job
           /\ \/ /\ shown.job = None
                 /\ socket' = Closing
                 /\ UNCHANGED <<handler, watch>>
              \/ /\ shown.job # None
                 /\ \E s \in Sockets :
                      /\ Free(s)
                      /\ Becomes(s, "accept")
                      /\ watch' = watch \ {s}
                      /\ socket' = [Closing EXCEPT ![s] = [job |-> shown.job, open |-> TRUE]]
           /\ UNCHANGED <<broker, hand, wire, shown, dropped>>

\* onmessage; a socket that is closed no longer calls it, and on a screen that
\* was taken away it has no effect.
Receive(s) ==
  /\ wire[s] # <<>>
  /\ shown' = IF socket[s].open /\ shown.job # None
              THEN [shown EXCEPT !.log = @ \o wire[s]] ELSE shown
  /\ wire' = [wire EXCEPT ![s] = <<>>]
  /\ UNCHANGED <<broker, serving, socket, effect, dropped>>

-----------------------------------------------------------------------------
Serve(s) == Subscribe(s) \/ Take(s) \/ Hangup(s) \/ StartSend(s) \/ Send(s) \/ SendFails(s)

Next == \/ \E j \in Jobs : Publish(j) \/ Show(j)
        \/ Deliver \/ Unmount \/ Effects
        \/ \E s \in Sockets : Serve(s) \/ Watch(s) \/ Receive(s)

\* The loop runs what it was handed and the coroutines that can run; the page
\* runs the effects of a render and reads its socket.  Nobody owes a message, a
\* screen or its end.
Fairness == /\ WF_vars(Deliver) /\ WF_vars(Effects)
            /\ \A s \in Sockets : WF_vars(Serve(s)) /\ WF_vars(Watch(s)) /\ WF_vars(Receive(s))

Spec == Init /\ [][Next]_vars /\ Fairness

-----------------------------------------------------------------------------
(* What the broadcast promises *)

\* The variables hold what the code can put in them.
TypeOK ==
  /\ published \in 0..MaxMessages
  /\ handed \in Seq(Message)
  /\ subs \subseteq Sockets
  /\ box \in [Sockets -> Seq(Message)] /\ \A s \in Sockets : Len(box[s]) <= BoxSize
  /\ handler \in [Sockets -> Handlers]
  /\ watch \subseteq Sockets
  /\ \A s \in Sockets : hand[s] \in Seq(Message) /\ wire[s] \in Seq(Message)
  /\ socket \in [Sockets -> [job : Jobs \cup {None}, open : BOOLEAN]]
  /\ effect \in Jobs \cup {None}
  /\ shown.job \in Jobs \cup {None} /\ shown.log \in Seq(Message)
  /\ dropped \subseteq Message

\* The handler and the subscription of a client that has left come to an end,
\* also when its job never publishes again and when a send is under way.
NothingPilesUp == \A s \in Sockets :
  (socket[s].job # None /\ ~socket[s].open) ~> (s \notin subs /\ handler[s] = "ended")

\* What is added to the log is about the job whose effect was run last, however
\* late the messages of the jobs before it arrive.  That is the job on the screen,
\* but for the time between the render of another job and its effects: what
\* arrives then for the job that was there before is added to the log still.
OwnMessages == [][\A i \in DOMAIN shown'.log :
                    i > Len(shown.log) => shown'.log[i].job = effect]_vars

\* The log never goes back to an older message of a job, not even after the
\* screen has been on another job and returned.
InOrder == \A i, k \in DOMAIN shown.log :
  i < k /\ shown.log[i].job = shown.log[k].job => shown.log[i].n < shown.log[k].n

\* The screen has caught up with a message: it shows it or a later one.
Caught(m) == \E i \in DOMAIN shown.log : shown.log[i].job = m.job /\ shown.log[i].n >= m.n

Open(j, s) == socket[s] = [job |-> j, open |-> TRUE]

\* A message published for an open socket whose handler is past its handshake
\* comes to be shown, unless a box was full or the screen is left: a
\* subscription outlasts that of an earlier screen of the same job.
KeptIsShown == \A m \in Message :
  (/\ handed # <<>> /\ Head(handed) = m
   /\ \E s \in Sockets : Open(m.job, s) /\ handler[s] \in {"wait", "got", "sending"})
    ~> (Caught(m) \/ m \in dropped \/ \A s \in Sockets : ~Open(m.job, s))
=============================================================================
