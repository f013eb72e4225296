--------------------------- MODULE BlockingSelect ---------------------------
(***************************************************************************)
(* What chan/select promises its caller (src/stdlib.lisp, its docstring):  *)
(* one blocking choice over several channels.  There are no wake fds here  *)
(* and no polling: a selector waits, and while something it asked for is   *)
(* ready it is answered.                                                   *)
(***************************************************************************)
EXTENDS Naturals, Sequences

CONSTANTS Channels, Producers, Selectors, Watch, Cap, MaxSends, Bounded

VARIABLES
    buf,       \* channel -> the messages in it, oldest first
    tx,        \* producer -> the channels it holds an open sender of
    rx,        \* selector -> the channels it holds an open receiver of
    sent,      \* messages sent so far; each message is its number
    waiting,   \* selectors whose call has not been answered
    answer     \* selector -> the answer to its last call

vars == <<buf, tx, rx, sent, waiting, answer>>

Hung(c) == \A p \in Producers : c \notin tx[p]

Init ==
    /\ buf = [c \in Channels |-> <<>>]
    /\ tx \in [Producers -> SUBSET Channels]
    /\ rx = [s \in Selectors |-> Watch[s]]
    /\ sent = 0
    /\ waiting = {}
    /\ answer = [s \in Selectors |-> <<"none">>]

Send(p, c) ==
    /\ c \in tx[p]
    /\ sent < MaxSends
    /\ Len(buf[c]) < Cap[c]
    /\ \E s \in Selectors : c \in rx[s]
    /\ sent' = sent + 1
    /\ buf' = [buf EXCEPT ![c] = Append(@, sent')]
    /\ UNCHANGED <<tx, rx, waiting, answer>>

Clone(p, q, c) ==
    /\ c \in tx[p]
    /\ tx' = [tx EXCEPT ![q] = @ \cup {c}]
    /\ UNCHANGED <<buf, rx, sent, waiting, answer>>

CloseTx(p, c) ==
    /\ tx' = [tx EXCEPT ![p] = @ \ {c}]
    /\ UNCHANGED <<buf, rx, sent, waiting, answer>>

CloseRx(s, c) ==
    /\ rx' = [rx EXCEPT ![s] = @ \ {c}]
    /\ UNCHANGED <<buf, tx, sent, waiting, answer>>

\* chan/recv takes a message past the selectors.
Recv(s, c) ==
    /\ s \notin waiting
    /\ c \in rx[s] /\ buf[c] # <<>>
    /\ buf' = [buf EXCEPT ![c] = Tail(@)]
    /\ UNCHANGED <<tx, rx, sent, waiting, answer>>

Ask(s) ==
    /\ s \notin waiting
    /\ waiting' = waiting \cup {s}
    /\ answer' = [answer EXCEPT ![s] = <<"none">>]
    /\ UNCHANGED <<buf, tx, rx, sent>>

Answer(s, a) ==
    /\ s \in waiting
    /\ waiting' = waiting \ {s}
    /\ answer' = [answer EXCEPT ![s] = a]
    /\ UNCHANGED <<tx, rx, sent>>

\* The oldest message of a ready channel, and only ever to one caller.
Deliver(s, c) ==
    /\ c \in Watch[s]
    /\ Watch[s] \subseteq rx[s]
    /\ buf[c] # <<>>
    /\ Answer(s, <<"message", Head(buf[c])>>)
    /\ buf' = [buf EXCEPT ![c] = Tail(@)]

Disconnected(s) ==
    /\ Watch[s] \subseteq rx[s]
    /\ \E c \in Watch[s] : buf[c] = <<>> /\ Hung(c)
    /\ Answer(s, <<"disconnected">>)
    /\ UNCHANGED buf

ClosedReceiver(s) ==
    /\ ~ Watch[s] \subseteq rx[s]
    /\ Answer(s, <<"error">>)
    /\ UNCHANGED buf

Serve(s) ==
    (\E c \in Channels : Deliver(s, c)) \/ Disconnected(s) \/ ClosedReceiver(s)

\* Only a call with a bound times out; any call may be aborted, or find the
\* process out of descriptors.
GiveUp(s) ==
    /\ \E a \in {<<"timeout">>, <<"aborted">>, <<"error">>} :
           /\ a = <<"timeout">> => s \in Bounded
           /\ Answer(s, a)
    /\ UNCHANGED buf

Next ==
    \/ \E p \in Producers, c \in Channels :
          \/ Send(p, c) \/ CloseTx(p, c)
          \/ \E q \in Producers : Clone(p, q, c)
    \/ \E s \in Selectors :
          \/ Ask(s) \/ Serve(s) \/ GiveUp(s)
          \/ \E c \in Channels : CloseRx(s, c) \/ Recv(s, c)

Fairness == \A s \in Selectors : WF_vars(Serve(s))

Spec == Init /\ [][Next]_vars /\ Fairness
=============================================================================
