------------------------------ MODULE Channel -------------------------------
(***************************************************************************)
(* concurrent/channel.cpp: a script in a pool thread (the server) and the  *)
(* script that started it (the client) exchange messages over two queues.  *)
(* Both ends are channel objects with the queues crossed, so one operator  *)
(* per method serves both.  When the server's script is over, run() writes *)
(* the message "channel is finished" and then sets the shared flag.        *)
(*                                                                         *)
(* Messages are numbered; End is "channel is finished", which scripts are  *)
(* taken not to write themselves.                                          *)
(***************************************************************************)
EXTENDS Integers, Sequences

CONSTANTS
  End,          \* the message "channel is finished"
  MaxMessages   \* bound on the calls of write, per end

ASSUME ChannelAssumption ==
  MaxMessages \in Nat \ {0} /\ End \notin 1..MaxMessages

Ends == {"server", "client"}
Peer(p) == IF p = "server" THEN "client" ELSE "server"

VARIABLES
  queue,     \* queue[p]: the queue end p reads; its peer writes it
  asleep,    \* the ends that sleep on the condition of their queue
  finished,  \* m_finished, shared by both ends
  pc,        \* "script", "write", "wait" (in read), "join" (in base::wait),
             \*   "end", "flag", "done" (the end of run), "gone" (the client)
  calls,     \* calls of write so far
  pushed,    \* history: what was put into queue[p]
  taken,     \* history: what read took out of it
  told,      \* history: the ends to which read has returned End
  pastEnd    \* history: the client reads again after it was told

vars == <<queue, asleep, finished, pc, calls, pushed, taken, told, pastEnd>>

Init ==
  /\ queue = [p \in Ends |-> <<>>]
  /\ asleep = {}
  /\ finished = FALSE
  /\ pc = [p \in Ends |-> "script"]
  /\ calls = [p \in Ends |-> 0]
  /\ pushed = [p \in Ends |-> <<>>]
  /\ taken = [p \in Ends |-> <<>>]
  /\ told = {}
  /\ pastEnd = FALSE

Goto(p, l) == pc' = [pc EXCEPT ![p] = l]

\* push and notify_one, under the mutex of the queue.
Put(p, message) ==
  /\ queue' = [queue EXCEPT ![Peer(p)] = Append(@, message)]
  /\ pushed' = [pushed EXCEPT ![Peer(p)] = Append(@, message)]
  /\ asleep' = asleep \ {Peer(p)}

\* front and pop.
Take(p) ==
  /\ queue' = [queue EXCEPT ![p] = Tail(@)]
  /\ taken' = [taken EXCEPT ![p] = Append(@, Head(queue[p]))]
  /\ told' = IF Head(queue[p]) = End THEN told \cup {p} ELSE told
  /\ Goto(p, "script")

\* channel::write looks at the flag before it takes the mutex; a message for
\* a finished channel is dropped.
Write(p) ==
  /\ pc[p] = "script"
  /\ calls[p] < MaxMessages
  /\ calls' = [calls EXCEPT ![p] = @ + 1]
  /\ Goto(p, IF finished THEN "script" ELSE "write")
  /\ UNCHANGED <<queue, asleep, finished, pushed, taken, told, pastEnd>>

\* Mutant: the reader is not notified.
WritePush_NoNotify(p) ==
  /\ pc[p] = "write"
  /\ queue' = [queue EXCEPT ![Peer(p)] = Append(@, calls[p])]
  /\ pushed' = [pushed EXCEPT ![Peer(p)] = Append(@, calls[p])]
  /\ Goto(p, "script")
  /\ UNCHANGED <<asleep, finished, calls, taken, told, pastEnd>>

WritePush(p) ==
  /\ pc[p] = "write"
  /\ Put(p, calls[p])
  /\ Goto(p, "script")
  /\ UNCHANGED <<finished, calls, taken, told, pastEnd>>

\* Mutant: a finished channel is over for the reader, messages or not.
ReadFinished_Early(p) ==
  /\ pc[p] = "script"
  /\ finished
  /\ told' = told \cup {p}
  /\ UNCHANGED <<queue, asleep, finished, pc, calls, pushed, taken, pastEnd>>

\* channel::read on a finished channel without messages.
ReadFinished(p) ==
  /\ pc[p] = "script"
  /\ finished
  /\ queue[p] = <<>>
  /\ told' = told \cup {p}
  /\ UNCHANGED <<queue, asleep, finished, pc, calls, pushed, taken, pastEnd>>

\* channel::read with a message at hand.
ReadMessage(p) ==
  /\ pc[p] = "script"
  /\ queue[p] # <<>>
  /\ Take(p)
  /\ UNCHANGED <<asleep, finished, calls, pushed, pastEnd>>

\* Mutant: read does not look at the flag.
ReadWait_Always(p) ==
  /\ pc[p] = "script"
  /\ queue[p] = <<>>
  /\ asleep' = asleep \cup {p}
  /\ pastEnd' = (pastEnd \/ (p \in told /\ ~finished))
  /\ Goto(p, "wait")
  /\ UNCHANGED <<queue, finished, calls, pushed, taken, told>>

\* channel::read waits for a message.
ReadWait(p) ==
  /\ pc[p] = "script"
  /\ queue[p] = <<>>
  /\ ~finished
  /\ asleep' = asleep \cup {p}
  /\ pastEnd' = (pastEnd \/ p \in told)
  /\ Goto(p, "wait")
  /\ UNCHANGED <<queue, finished, calls, pushed, taken, told>>

\* The reader was notified.  (Waking without a notification, it finds the
\* queue as it was and sleeps again.)
ReadWake(p) ==
  /\ pc[p] = "wait"
  /\ p \notin asleep
  /\ queue[p] # <<>>
  /\ Take(p)
  /\ UNCHANGED <<asleep, finished, calls, pushed, pastEnd>>

-----------------------------------------------------------------------------
(* The end of channel::run.                                                *)

\* The script returned or failed: both are followed by the same steps.
ScriptEnds ==
  /\ pc["server"] = "script"
  /\ Goto("server", "end")
  /\ UNCHANGED <<queue, asleep, finished, calls, pushed, taken, told, pastEnd>>

\* Mutant: the channel ends without its last message.
WriteEnd_Silent ==
  /\ pc["server"] = "end"
  /\ Goto("server", "flag")
  /\ UNCHANGED <<queue, asleep, finished, calls, pushed, taken, told, pastEnd>>

\* write("channel is finished").
WriteEnd ==
  /\ pc["server"] = "end"
  /\ IF finished THEN UNCHANGED <<queue, pushed, asleep>> ELSE Put("server", End)
  /\ Goto("server", "flag")
  /\ UNCHANGED <<finished, calls, taken, told, pastEnd>>

SetFinished ==
  /\ pc["server"] = "flag"
  /\ finished' = TRUE
  /\ Goto("server", "done")
  /\ UNCHANGED <<queue, asleep, calls, pushed, taken, told, pastEnd>>

-----------------------------------------------------------------------------
(* The client.                                                             *)

\* base::wait polls the flag.
Join ==
  /\ pc["client"] = "script"
  /\ Goto("client", "join")
  /\ UNCHANGED <<queue, asleep, finished, calls, pushed, taken, told, pastEnd>>

Joined ==
  /\ pc["client"] = "join"
  /\ finished
  /\ Goto("client", "script")
  /\ UNCHANGED <<queue, asleep, finished, calls, pushed, taken, told, pastEnd>>

\* The client's object is collected; the server keeps the queues alive.
Gone ==
  /\ pc["client"] = "script"
  /\ Goto("client", "gone")
  /\ UNCHANGED <<queue, asleep, finished, calls, pushed, taken, told, pastEnd>>

Use(p) ==
  \/ Write(p) \/ WritePush(p)
  \/ ReadFinished(p) \/ ReadMessage(p) \/ ReadWait(p) \/ ReadWake(p)

Server == Use("server") \/ ScriptEnds \/ WriteEnd \/ SetFinished
Client == Use("client") \/ Join \/ Joined \/ Gone

Next == Server \/ Client

Spec == Init /\ [][Next]_vars

\* Threads keep running, and a script that can go on does.  The client's
\* script may do anything between its calls.
LiveSpec ==
  /\ Spec
  /\ WF_vars(Server)
  /\ WF_vars(WritePush("client") \/ ReadWake("client") \/ Joined)

-----------------------------------------------------------------------------

TypeOK ==
  /\ queue \in [Ends -> Seq(1..MaxMessages \cup {End})]
  /\ asleep \subseteq Ends
  /\ finished \in BOOLEAN
  /\ pc \in [Ends -> {"script", "write", "wait", "join", "end", "flag",
                      "done", "gone"}]
  /\ calls \in [Ends -> 0..MaxMessages]

\* When read tells the client that the channel is finished, the client has
\* received every message of the server, in order and once; the server is
\* never told before its own script is over.
EndMeansAll ==
  /\ \A p \in Ends : pushed[p] = taken[p] \o queue[p]
  /\ "client" \in told =>
       /\ pc["server"] \in {"flag", "done"}
       /\ queue["client"] = <<>>
       /\ taken["client"] = [i \in 1..calls["server"] |-> i] \o <<End>>
  /\ "server" \notin told

\* No reader sleeps on a queue with a message, and on a finished channel the
\* client can only be left in wait() if it read on after "channel is
\* finished" in the moment before the flag was set.
WaitsForSomething ==
  /\ TypeOK
  /\ \A p \in asleep : queue[p] = <<>>
  /\ finished /\ pc["client"] = "wait" => queue["client"] # <<>> \/ pastEnd

\* A client that waits for ever in read faces a server that waits for ever
\* as well, or has read past the end; a client in wait() is only kept by a
\* server that waits for it.
ClientReturns ==
  /\ <>[](pc["client"] = "wait") => <>[](pc["server"] = "wait" \/ pastEnd)
  /\ <>[](pc["client"] = "join") => <>[](pc["server"] = "wait")
=============================================================================
