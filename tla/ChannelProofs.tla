--------------------------- MODULE ChannelProofs ----------------------------
(***************************************************************************)
(* Proof that the end of a channel means the end of its messages, and that *)
(* nobody sleeps on a message, for any number of messages.                 *)
(*                                                                         *)
(* What was put into a queue is what was taken and what is in it (Order).  *)
(* What the server has put into the client's queue is the sequence of its  *)
(* writes, with "channel is finished" behind it once run() has come that   *)
(* far (Sent).  So that message can only be the last one in the queue: the *)
(* reader who takes it has taken all, and until then the queue is not      *)
(* empty (Ended).                                                          *)
(***************************************************************************)
EXTENDS Channel, TLAPS, SequenceTheorems

Messages == 1..MaxMessages \cup {End}

\* The first n messages.
Count(n) == [i \in 1..n |-> i]

Over == pc["server"] \in {"flag", "done"}

Types ==
  /\ TypeOK
  /\ queue \in [Ends -> Seq(Messages)]
  /\ pushed \in [Ends -> Seq(Messages)] /\ taken \in [Ends -> Seq(Messages)]
  /\ told \subseteq Ends
  /\ pastEnd \in BOOLEAN

\* The program counters of the two ends, and the flag that run sets last.
Phase ==
  /\ pc["client"] \in {"script", "write", "wait", "join", "gone"}
  /\ pc["server"] \in {"script", "write", "wait", "end", "flag", "done"}
  /\ finished <=> pc["server"] = "done"
  /\ \A p \in Ends : pc[p] = "write" => calls[p] >= 1

Order == \A p \in Ends : pushed[p] = taken[p] \o queue[p]

Sent ==
  pushed["client"] =
    IF pc["server"] = "write" THEN Count(calls["server"] - 1)
    ELSE IF Over THEN Append(Count(calls["server"]), End)
    ELSE Count(calls["server"])

\* No client writes "channel is finished".
NoEnd == queue["server"] \in Seq(1..MaxMessages)

Ended ==
  /\ "server" \notin told
  /\ "client" \in told <=> Over /\ queue["client"] = <<>>

Waiting ==
  /\ \A p \in asleep : queue[p] = <<>>
  /\ Over /\ pc["client"] = "wait" => queue["client"] # <<>> \/ pastEnd

Inv == Types /\ Phase /\ Order /\ Sent /\ NoEnd /\ Ended /\ Waiting

-----------------------------------------------------------------------------
(* Sequences.                                                              *)

\* The head may move from one part to the other.
LEMMA ConcatHeadTail ==
  ASSUME NEW S, NEW s \in Seq(S), NEW t \in Seq(S), t # <<>>
  PROVE  Append(s, Head(t)) \o Tail(t) = s \o t
<1>1. /\ Head(t) \in S /\ Tail(t) \in Seq(S) /\ Len(Tail(t)) = Len(t) - 1
      /\ \A i \in 1..Len(Tail(t)) : Tail(t)[i] = t[i + 1]
  BY HeadTailProperties
<1>2. Len(t) \in Nat \ {0} /\ Head(t) = t[1]
  BY EmptySeq
<1>3. <<Head(t)>> \in Seq(S) /\ Len(<<Head(t)>>) = 1 /\ <<Head(t)>>[1] = Head(t)
  BY <1>1
<1>4. <<Head(t)>> \o Tail(t) = t
  <2> DEFINE u == <<Head(t)>> \o Tail(t)
  <2>1. /\ u \in Seq(S) /\ Len(u) = Len(t)
        /\ \A i \in 1..Len(t) : u[i] = IF i <= 1 THEN <<Head(t)>>[i] ELSE Tail(t)[i - 1]
    BY <1>1, <1>2, <1>3, ConcatProperties
  <2> HIDE DEF u
  <2>2. ASSUME NEW i \in 1..Len(u) PROVE u[i] = t[i]
    <3>1. CASE i = 1
      BY <1>2, <1>3, <2>1, <3>1
    <3>2. CASE i # 1
      <4>1. i - 1 \in 1..Len(Tail(t)) /\ (i - 1) + 1 = i
        BY <1>1, <1>2, <2>1, <3>2
      <4>2. u[i] = Tail(t)[i - 1]
        BY <1>2, <2>1, <3>2
      <4> QED
        BY <1>1, <4>1, <4>2
    <3> QED
      BY <3>1, <3>2
  <2>3. u = t
    BY <2>1, <2>2, SeqEqual
  <2> QED
    BY <2>3 DEF u
<1>5. Append(s, Head(t)) = s \o <<Head(t)>>
  BY <1>1, AppendIsConcat
<1> QED
  BY <1>1, <1>3, <1>4, <1>5, ConcatAssociative

\* The messages are counted one by one.
LEMMA CountProperties ==
  ASSUME NEW n \in 0..MaxMessages
  PROVE  /\ Count(n) \in Seq(Messages) /\ Len(Count(n)) = n
         /\ \A i \in 1..n : Count(n)[i] = i /\ i # End
         /\ n >= 1 => Append(Count(n - 1), n) = Count(n)
<1>1. n \in Nat /\ MaxMessages \in Nat /\ End \notin 1..MaxMessages
  BY ChannelAssumption
<1>2. ASSUME NEW m \in 0..MaxMessages
      PROVE  /\ Count(m) \in Seq(Messages) /\ Len(Count(m)) = m
             /\ \A i \in 1..m : Count(m)[i] = i
  BY <1>1 DEF Count, Messages
<1>3. \A i \in 1..n : i # End
  BY <1>1
<1>4. ASSUME n >= 1 PROVE Append(Count(n - 1), n) = Count(n)
  <2>1. n - 1 \in 0..MaxMessages /\ n \in Messages
    BY <1>1, <1>4 DEF Messages
  <2> DEFINE a == Append(Count(n - 1), n)
  <2>2. /\ a \in Seq(Messages) /\ Len(a) = n /\ a[n] = n
        /\ \A i \in 1..(n - 1) : a[i] = i
    BY <1>1, <1>2, <2>1, AppendProperties
  <2> HIDE DEF a
  <2>3. \A i \in 1..Len(a) : a[i] = Count(n)[i]
    BY <1>1, <1>2, <2>2
  <2>4. a = Count(n)
    BY <1>2, <2>2, <2>3, SeqEqual
  <2> QED
    BY <2>4 DEF a
<1> QED
  BY <1>2, <1>3, <1>4

-----------------------------------------------------------------------------
(* The queues.                                                             *)

\* "channel is finished" is at the head of the client's queue exactly when it is
\* alone in it.
LEMMA HeadIsEnd ==
  ASSUME Inv, queue["client"] # <<>>
  PROVE  Head(queue["client"]) = End <=> Over /\ Tail(queue["client"]) = <<>>
<1>0. PICK q, t, u, n : q = queue["client"] /\ t = taken["client"] /\ u = pushed["client"]
                       /\ n = calls["server"]
  OBVIOUS
<1>1. /\ q \in Seq(Messages) /\ t \in Seq(Messages) /\ u \in Seq(Messages)
      /\ u = t \o q /\ n \in 0..MaxMessages /\ n \in Nat
      /\ pc["server"] = "write" => n >= 1
  BY <1>0, ChannelAssumption DEF Inv, Types, TypeOK, Order, Phase, Ends
<1>2. /\ Len(q) \in Nat \ {0} /\ Len(t) \in Nat /\ Head(q) = q[1]
      /\ Len(Tail(q)) = Len(q) - 1 /\ Tail(q) \in Seq(Messages)
  BY <1>0, <1>1, EmptySeq, HeadTailProperties
<1>3. Tail(q) = <<>> <=> Len(q) = 1
  <2>1. Tail(q) # <<>> => Len(Tail(q)) # 0
    BY <1>2, EmptySeq
  <2>2. Tail(q) = <<>> => Len(Tail(q)) = 0
    BY EmptySeq
  <2> QED
    BY <1>2, <2>1, <2>2
<1>4. /\ Len(u) = Len(t) + Len(q) /\ Len(t) + 1 \in 1..Len(u)
      /\ u[Len(t) + 1] = q[1]
  BY <1>1, <1>2
<1>5. CASE Over
  <2>1. u = Append(Count(n), End) /\ End \in Messages
    BY <1>0, <1>5 DEF Inv, Sent, Over, Messages
  <2>2. /\ Count(n) \in Seq(Messages) /\ Len(Count(n)) = n
        /\ \A i \in 1..n : Count(n)[i] = i /\ i # End
    BY <1>1, CountProperties
  <2>3. /\ Len(u) = n + 1 /\ u[n + 1] = End
        /\ \A i \in 1..n : u[i] # End
    BY <2>1, <2>2, AppendProperties
  <2>4. u[Len(t) + 1] = End <=> Len(t) + 1 = n + 1
    BY <1>1, <1>2, <1>4, <2>3
  <2>5. Head(q) = End <=> Over /\ Tail(q) = <<>>
    BY <1>1, <1>2, <1>3, <1>4, <1>5, <2>3, <2>4
  <2> QED
    BY <1>0, <2>5
<1>6. CASE ~Over
  <2>1. PICK m \in 0..MaxMessages : u = Count(m)
    BY <1>0, <1>1, <1>6, ChannelAssumption DEF Inv, Sent
  <2>2. \A i \in 1..Len(u) : u[i] # End
    BY <2>1, CountProperties
  <2> QED
    BY <1>0, <1>2, <1>4, <1>6, <2>2
<1> QED
  BY <1>5, <1>6

\* A step that touches no queue, and of the history at most pastEnd.
QueuesKept == UNCHANGED <<queue, pushed, taken, told>>

\* A step that touches no queue keeps what is said of the queues.
LEMMA OrderKept ==
  ASSUME Inv, QueuesKept PROVE Order' /\ NoEnd'
BY DEF Inv, QueuesKept, Order, NoEnd

\* read takes the head of the queue.
LEMMA TakeStep ==
  ASSUME Inv, NEW p \in Ends, pc[p] \in {"script", "wait"}, queue[p] # <<>>, Take(p),
         UNCHANGED <<asleep, finished, calls, pushed, pastEnd>>
  PROVE  Inv'
<1>0. /\ queue[p] \in Seq(Messages) /\ taken[p] \in Seq(Messages)
      /\ queue \in [Ends -> Seq(Messages)] /\ taken \in [Ends -> Seq(Messages)]
      /\ pc \in [Ends -> {"script", "write", "wait", "join", "end", "flag",
                          "done", "gone"}]
  BY DEF Inv, Types, TypeOK
<1>1. Head(queue[p]) \in Messages /\ Tail(queue[p]) \in Seq(Messages)
  BY <1>0, HeadTailProperties
<1>2. /\ queue'[p] = Tail(queue[p]) /\ queue' \in [Ends -> Seq(Messages)]
      /\ \A r \in Ends : r # p => queue'[r] = queue[r]
  BY <1>0, <1>1 DEF Take
<1>3. /\ taken'[p] = Append(taken[p], Head(queue[p])) /\ taken' \in [Ends -> Seq(Messages)]
      /\ \A r \in Ends : r # p => taken'[r] = taken[r]
  <2>1. Append(taken[p], Head(queue[p])) \in Seq(Messages)
    BY <1>0, <1>1, AppendProperties
  <2> QED
    BY <1>0, <2>1 DEF Take
<1>4. /\ pc' \in [Ends -> {"script", "write", "wait", "join", "end", "flag",
                           "done", "gone"}]
      /\ pc'[p] = "script" /\ \A r \in Ends : r # p => pc'[r] = pc[r]
  BY <1>0 DEF Take, Goto
<1>5. Types'
  BY <1>2, <1>3, <1>4 DEF Inv, Types, TypeOK, Take, Messages
<1>6. Order'
  <2>1. pushed[p] = taken'[p] \o queue'[p]
    BY <1>0, <1>2, <1>3, ConcatHeadTail, SMTT(30) DEF Inv, Order
  <2> QED
    BY <1>2, <1>3, <2>1 DEF Inv, Order
<1>7. Phase'
  BY <1>4 DEF Inv, Phase, Ends
<1>8. (Over' <=> Over) /\ Sent'
  BY <1>4 DEF Inv, Sent, Over, Ends
<1>9. CASE p = "server"
  <2>1. Head(queue["server"]) \in 1..MaxMessages /\ Tail(queue["server"]) \in Seq(1..MaxMessages)
    BY <1>9, HeadTailProperties DEF Inv, NoEnd
  <2>2. NoEnd'
    BY <1>2, <1>9, <2>1 DEF NoEnd
  <2>3. told' = told
    BY <1>9, <2>1, ChannelAssumption DEF Take
  <2>4. Ended'
    BY <1>2, <1>8, <1>9, <2>3 DEF Inv, Ended, Ends
  <2>5. Waiting'
    BY <1>2, <1>4, <1>8, <1>9 DEF Inv, Types, TypeOK, Waiting, Ends
  <2> QED
    BY <1>5, <1>6, <1>7, <1>8, <2>2, <2>4, <2>5 DEF Inv
<1>10. CASE p = "client"
  <2>1. NoEnd'
    BY <1>2, <1>10 DEF Inv, NoEnd, Ends
  <2>2. /\ Head(queue["client"]) = End <=> Over /\ queue'["client"] = <<>>
        /\ "client" \notin told
    BY <1>2, <1>10, HeadIsEnd DEF Inv, Ended
  <2>3. Ended'
    BY <1>8, <1>10, <2>2 DEF Inv, Ended, Take
  <2>4. Waiting'
    BY <1>2, <1>4, <1>10 DEF Inv, Types, TypeOK, Waiting, Ends
  <2> QED
    BY <1>5, <1>6, <1>7, <1>8, <2>1, <2>3, <2>4 DEF Inv
<1> QED
  BY <1>9, <1>10 DEF Ends

\* push: what Put does to the queue of the peer.
LEMMA PutQueues ==
  ASSUME Inv, NEW p \in Ends, NEW m \in Messages, Put(p, m), taken' = taken
  PROVE  /\ queue' \in [Ends -> Seq(Messages)] /\ pushed' \in [Ends -> Seq(Messages)]
         /\ Peer(p) \in Ends /\ Peer(p) # p
         /\ queue'[Peer(p)] = Append(queue[Peer(p)], m) /\ queue'[p] = queue[p]
         /\ pushed'[Peer(p)] = Append(pushed[Peer(p)], m) /\ pushed'[p] = pushed[p]
         /\ queue'[Peer(p)] # <<>> /\ asleep' = asleep \ {Peer(p)}
         /\ Order'
<1>0. PICK r \in Ends : r = Peer(p) /\ r # p /\ \A x \in Ends : x = r \/ x = p
  BY DEF Peer, Ends
<1>1. /\ queue \in [Ends -> Seq(Messages)] /\ pushed \in [Ends -> Seq(Messages)]
      /\ queue[r] \in Seq(Messages) /\ pushed[r] \in Seq(Messages)
      /\ taken[r] \in Seq(Messages)
  BY DEF Inv, Types
<1>2. /\ Append(queue[r], m) \in Seq(Messages) /\ Append(queue[r], m) # <<>>
      /\ Append(pushed[r], m) \in Seq(Messages)
  BY <1>1, AppendProperties
<1>3. /\ queue' = [queue EXCEPT ![r] = Append(@, m)]
      /\ pushed' = [pushed EXCEPT ![r] = Append(@, m)]
      /\ asleep' = asleep \ {r}
  BY <1>0 DEF Put
<1>4. /\ queue' \in [Ends -> Seq(Messages)] /\ pushed' \in [Ends -> Seq(Messages)]
      /\ queue'[r] = Append(queue[r], m) /\ queue'[p] = queue[p]
      /\ pushed'[r] = Append(pushed[r], m) /\ pushed'[p] = pushed[p]
  BY <1>0, <1>1, <1>2, <1>3
<1>5. Order'
  <2>1. pushed'[r] = taken[r] \o queue'[r]
    <3>1. PICK a \in Seq(Messages), b \in Seq(Messages) :
            a = taken[r] /\ b = queue[r]
      BY <1>1
    <3>2. pushed[r] = a \o b
      BY <3>1 DEF Inv, Order
    <3>3. Append(a \o b, m) = a \o Append(b, m)
      OBVIOUS
    <3>4. Append(pushed[r], m) = a \o Append(b, m)
      BY <3>2, <3>3
    <3> QED
      BY <1>4, <3>1, <3>4
  <2>2. pushed'[p] = taken[p] \o queue'[p]
    BY <1>4 DEF Inv, Order
  <2> QED
    BY <1>0, <2>1, <2>2 DEF Order
<1> QED
  BY <1>0, <1>2, <1>3, <1>4, <1>5

-----------------------------------------------------------------------------
(* The actions.                                                            *)

\* The message is pushed: the server's next number, or one of the client's.
LEMMA WritePushStep ==
  ASSUME Inv, NEW p \in Ends, WritePush(p) PROVE Inv'
<1>0. PICK m : m = calls[p]
  OBVIOUS
<1>1. /\ pc[p] = "write" /\ Put(p, m) /\ pc' = [pc EXCEPT ![p] = "script"]
      /\ UNCHANGED <<finished, calls, taken, told, pastEnd>>
  BY <1>0 DEF WritePush, Goto
<1>2. m \in 1..MaxMessages /\ m \in Messages /\ MaxMessages \in Nat
  BY <1>0, <1>1, ChannelAssumption DEF Inv, Types, TypeOK, Phase, Messages
<1>3. /\ queue' \in [Ends -> Seq(Messages)] /\ pushed' \in [Ends -> Seq(Messages)]
      /\ Peer(p) \in Ends /\ Peer(p) # p
      /\ queue'[Peer(p)] = Append(queue[Peer(p)], m) /\ queue'[p] = queue[p]
      /\ pushed'[Peer(p)] = Append(pushed[Peer(p)], m) /\ pushed'[p] = pushed[p]
      /\ queue'[Peer(p)] # <<>> /\ asleep' = asleep \ {Peer(p)}
      /\ Order'
  BY <1>1, <1>2, PutQueues
<1>4. /\ pc' \in [Ends -> {"script", "write", "wait", "join", "end", "flag",
                           "done", "gone"}]
      /\ pc'[p] = "script" /\ \A r \in Ends : r # p => pc'[r] = pc[r]
  BY <1>1 DEF Inv, Types, TypeOK
<1>5. Types'
  BY <1>1, <1>3, <1>4 DEF Inv, Types, TypeOK, Messages
<1>6. Phase' /\ (Over' <=> Over)
  BY <1>1, <1>4 DEF Inv, Phase, Over, Ends
<1>7. \A r \in asleep' : queue'[r] = <<>>
  BY <1>3 DEF Inv, Types, TypeOK, Waiting, Peer, Ends
<1>8. CASE p = "server"
  <2>1. Peer(p) = "client" /\ ~Over /\ m = calls["server"]
    BY <1>0, <1>1, <1>8 DEF Peer, Over
  <2>2. Sent'
    <3>1. pushed["client"] = Count(m - 1)
      BY <1>1, <1>8, <2>1 DEF Inv, Sent
    <3>2. Append(Count(m - 1), m) = Count(m)
      BY <1>2, CountProperties
    <3>3. pushed'["client"] = Count(m)
      BY <1>3, <2>1, <3>1, <3>2
    <3> QED
      BY <1>1, <1>4, <1>6, <1>8, <2>1, <3>3 DEF Sent
  <2>3. NoEnd' /\ Ended' /\ Waiting'
    BY <1>1, <1>3, <1>6, <1>7, <1>8, <2>1 DEF Inv, NoEnd, Ended, Waiting
  <2> QED
    BY <1>3, <1>5, <1>6, <2>2, <2>3 DEF Inv
<1>9. CASE p = "client"
  <2>1. Peer(p) = "server" /\ pc'["server"] = pc["server"]
    BY <1>4, <1>9 DEF Peer, Ends
  <2>2. Sent'
    BY <1>1, <1>3, <1>6, <1>9, <2>1 DEF Inv, Sent
  <2>3. NoEnd'
    <3>1. queue["server"] \in Seq(1..MaxMessages)
      BY DEF Inv, NoEnd
    <3>2. Append(queue["server"], m) \in Seq(1..MaxMessages)
      BY <1>2, <3>1, AppendProperties
    <3> QED
      BY <1>3, <2>1, <3>2 DEF NoEnd
  <2>4. Ended' /\ Waiting'
    BY <1>1, <1>3, <1>4, <1>6, <1>7, <1>9, <2>1 DEF Inv, Ended, Waiting
  <2> QED
    BY <1>3, <1>5, <1>6, <2>2, <2>3, <2>4 DEF Inv
<1> QED
  BY <1>8, <1>9 DEF Ends

\* run() writes "channel is finished": no message comes behind it.
LEMMA WriteEndStep ==
  ASSUME Inv, WriteEnd PROVE Inv'
<1>1. /\ pc["server"] = "end" /\ ~finished /\ Put("server", End)
      /\ pc' = [pc EXCEPT !["server"] = "flag"]
      /\ UNCHANGED <<finished, calls, taken, told, pastEnd>>
  BY DEF WriteEnd, Goto, Inv, Phase
<1>2. "server" \in Ends /\ End \in Messages /\ Peer("server") = "client"
  BY DEF Ends, Messages, Peer
<1>3. /\ queue' \in [Ends -> Seq(Messages)] /\ pushed' \in [Ends -> Seq(Messages)]
      /\ queue'["server"] = queue["server"] /\ queue'["client"] # <<>>
      /\ pushed'["client"] = Append(pushed["client"], End)
      /\ asleep' = asleep \ {"client"}
      /\ Order'
  BY <1>1, <1>2, PutQueues
<1>4. /\ pc' \in [Ends -> {"script", "write", "wait", "join", "end", "flag",
                           "done", "gone"}]
      /\ pc'["server"] = "flag" /\ pc'["client"] = pc["client"]
  BY <1>1 DEF Inv, Types, TypeOK, Ends
<1>5. Types' /\ Phase'
  BY <1>1, <1>3, <1>4 DEF Inv, Types, TypeOK, Messages, Phase, Ends
<1>6. ~Over /\ Over'
  BY <1>1, <1>4 DEF Over
<1>7. Sent'
  BY <1>1, <1>3, <1>4, <1>6 DEF Inv, Sent
<1>8. NoEnd' /\ Ended'
  BY <1>1, <1>3, <1>6 DEF Inv, NoEnd, Ended
<1>9. Waiting'
  BY <1>3 DEF Inv, Types, TypeOK, Waiting, Ends
<1> QED
  BY <1>3, <1>5, <1>7, <1>8, <1>9 DEF Inv

\* Steps that only move a program counter: write before the mutex, wait and its
\* end, the end of the script, the flag, the collected client.
LEMMA WriteStep ==
  ASSUME Inv, NEW p \in Ends, Write(p) PROVE Inv'
<1>1. /\ pc[p] = "script" /\ QueuesKept /\ calls[p] < MaxMessages
      /\ calls' = [calls EXCEPT ![p] = @ + 1]
      /\ pc' = [pc EXCEPT ![p] = IF finished THEN "script" ELSE "write"]
      /\ UNCHANGED <<asleep, finished, pastEnd>>
  BY DEF Write, Goto, QueuesKept
<1>2. /\ calls' \in [Ends -> 0..MaxMessages] /\ calls'[p] = calls[p] + 1
      /\ calls[p] \in Nat /\ \A r \in Ends : r # p => calls'[r] = calls[r]
  BY <1>1, ChannelAssumption DEF Inv, Types, TypeOK
<1>3. /\ pc' \in [Ends -> {"script", "write", "wait", "join", "end", "flag",
                           "done", "gone"}]
      /\ pc'[p] = (IF finished THEN "script" ELSE "write")
      /\ \A r \in Ends : r # p => pc'[r] = pc[r]
  BY <1>1 DEF Inv, Types, TypeOK
<1>4. Types'
  BY <1>1, <1>2, <1>3 DEF Inv, Types, TypeOK, QueuesKept
<1>5. Phase'
  BY <1>1, <1>2, <1>3 DEF Inv, Phase, Ends
<1>6. Over' <=> Over
  BY <1>1, <1>3 DEF Over, Ends
<1>7. Sent'
  <2>1. CASE p = "server"
    <3>1. ~finished /\ ~Over /\ pushed["client"] = Count(calls["server"])
      BY <1>1, <2>1 DEF Inv, Phase, Over, Sent
    <3>2. calls'["server"] - 1 = calls["server"] /\ pc'["server"] = "write"
      BY <1>2, <1>3, <2>1, <3>1
    <3> QED
      BY <1>1, <3>1, <3>2 DEF Sent, QueuesKept
  <2>2. CASE p = "client"
    BY <1>1, <1>2, <1>3, <1>6, <2>2 DEF Inv, Sent, QueuesKept, Ends
  <2> QED
    BY <2>1, <2>2 DEF Ends
<1>8. Ended' /\ Waiting'
  BY <1>1, <1>3, <1>6 DEF Inv, Ended, Waiting, QueuesKept, Ends
<1> QED
  BY <1>1, <1>4, <1>5, <1>7, <1>8, OrderKept DEF Inv

\* A step of one end that touches no queue.
LEMMA MoveStep ==
  ASSUME Inv, QueuesKept, UNCHANGED <<asleep, calls, pastEnd>>,
         ScriptEnds \/ SetFinished \/ Join \/ Joined \/ Gone
  PROVE  Inv'
<1>1. Types'
  BY DEF ScriptEnds, SetFinished, Join, Joined, Gone, Goto, Inv, Types, TypeOK,
         QueuesKept, Ends
<1>2. Phase' /\ (Over' <=> Over)
  BY DEF ScriptEnds, SetFinished, Join, Joined, Gone, Goto, Inv, Types, TypeOK,
         Phase, Over, Ends
<1>3. pc'["server"] = "write" <=> pc["server"] = "write"
  BY DEF ScriptEnds, SetFinished, Join, Joined, Gone, Goto, Inv, Types, TypeOK, Ends
<1>4. pc'["client"] = "wait" <=> pc["client"] = "wait"
  BY DEF ScriptEnds, SetFinished, Join, Joined, Gone, Goto, Inv, Types, TypeOK, Ends
<1>5. Sent'
  BY <1>2, <1>3 DEF Inv, Sent, QueuesKept
<1>6. Ended' /\ Waiting'
  BY <1>2, <1>4 DEF Inv, Ended, Waiting, QueuesKept
<1> QED
  BY <1>1, <1>2, <1>5, <1>6, OrderKept DEF Inv

\* Told by the flag: the client had taken the message already, or its queue
\* would not be empty; the server's script does not run any more.
LEMMA ReadFinishedStep ==
  ASSUME Inv, NEW p \in Ends, ReadFinished(p) PROVE Inv'
<1>1. told' = told /\ UNCHANGED <<queue, asleep, finished, pc, calls, pushed, taken, pastEnd>>
  BY DEF ReadFinished, Inv, Phase, Ended, Over, Ends
<1> QED
  BY <1>1 DEF Inv, Types, TypeOK, Phase, Order, Sent, NoEnd, Ended, Waiting, Over

\* The reader goes to sleep on an empty queue; when run() is that far, it was
\* told before.
LEMMA ReadWaitStep ==
  ASSUME Inv, NEW p \in Ends, ReadWait(p) PROVE Inv'
<1>1. /\ pc[p] = "script" /\ queue[p] = <<>> /\ asleep' = asleep \cup {p}
      /\ pastEnd' = (pastEnd \/ p \in told) /\ pc' = [pc EXCEPT ![p] = "wait"]
      /\ QueuesKept /\ UNCHANGED <<finished, calls>>
  BY DEF ReadWait, Goto, QueuesKept
<1>2. /\ pc' \in [Ends -> {"script", "write", "wait", "join", "end", "flag",
                           "done", "gone"}]
      /\ pc'[p] = "wait" /\ \A r \in Ends : r # p => pc'[r] = pc[r]
  BY <1>1 DEF Inv, Types, TypeOK
<1>3. Types'
  BY <1>1, <1>2 DEF Inv, Types, TypeOK, QueuesKept
<1>4. Phase' /\ (Over' <=> Over)
  BY <1>1, <1>2 DEF Inv, Phase, Over, Ends
<1>5. Sent' /\ Ended'
  BY <1>1, <1>2, <1>4 DEF Inv, Sent, Ended, QueuesKept, Ends
<1>6. Waiting'
  BY <1>1, <1>2, <1>4 DEF Inv, Ended, Waiting, QueuesKept, Ends
<1> QED
  BY <1>1, <1>3, <1>4, <1>5, <1>6, OrderKept DEF Inv

-----------------------------------------------------------------------------

\* Both queues are empty at the start.
LEMMA InitInv == Init => Inv
<1> SUFFICES ASSUME Init PROVE Inv
  OBVIOUS
<1>1. MaxMessages \in Nat /\ "server" \in Ends /\ "client" \in Ends
  BY ChannelAssumption DEF Ends
<1>2. Types /\ Phase /\ NoEnd
  <2>1. \A S : <<>> \in Seq(S)
    BY EmptySeq
  <2>2. TypeOK
    <3>1. 0 \in 0..MaxMessages
      BY <1>1
    <3>2. calls \in [Ends -> 0..MaxMessages]
      BY <3>1 DEF Init
    <3>3. queue \in [Ends -> Seq(1..MaxMessages \cup {End})]
      BY <2>1 DEF Init
    <3> QED
      BY <3>2, <3>3 DEF Init, TypeOK
  <2>3. Types
    BY <2>1, <2>2 DEF Init, Types
  <2>4. Phase
    BY <1>1 DEF Init, Phase
  <2>5. NoEnd
    BY <1>1, <2>1 DEF Init, NoEnd
  <2> QED
    BY <2>3, <2>4, <2>5
<1>3. Ended /\ Waiting /\ ~Over
  BY <1>1 DEF Init, Ended, Waiting, Over
<1>4. Order
  BY DEF Init, Order
<1>5. Sent
  <2>1. Count(0) = <<>>
    BY DEF Count
  <2> QED
    BY <1>1, <1>3, <2>1 DEF Init, Sent
<1> QED
  BY <1>2, <1>3, <1>4, <1>5 DEF Inv

\* Every step of either end keeps the invariant.
LEMMA NextInv == Inv /\ [Next]_vars => Inv'
<1> SUFFICES ASSUME Inv, [Next]_vars PROVE Inv'
  OBVIOUS
<1>1. CASE UNCHANGED vars
  BY <1>1 DEF vars, Inv, Types, TypeOK, Phase, Order, Sent, NoEnd, Ended, Waiting, Over
<1>2. ASSUME NEW p \in Ends, Use(p) PROVE Inv'
  <2>1. CASE Write(p) \/ WritePush(p)
    BY <2>1, WriteStep, WritePushStep
  <2>2. CASE ReadFinished(p) \/ ReadWait(p)
    BY <2>2, ReadFinishedStep, ReadWaitStep
  <2>3. CASE ReadMessage(p) \/ ReadWake(p)
    <3>1. /\ pc[p] \in {"script", "wait"} /\ queue[p] # <<>> /\ Take(p)
          /\ UNCHANGED <<asleep, finished, calls, pushed, pastEnd>>
      BY <2>3 DEF ReadMessage, ReadWake
    <3> QED
      BY <3>1, TakeStep
  <2> QED
    BY <1>2, <2>1, <2>2, <2>3 DEF Use
<1>3. CASE ScriptEnds \/ SetFinished \/ Join \/ Joined \/ Gone
  <2>1. QueuesKept /\ UNCHANGED <<asleep, calls, pastEnd>>
    BY <1>3 DEF QueuesKept, ScriptEnds, SetFinished, Join, Joined, Gone
  <2> QED
    BY <1>3, <2>1, MoveStep
<1>4. CASE WriteEnd
  BY <1>4, WriteEndStep
<1> QED
  BY <1>1, <1>2, <1>3, <1>4 DEF Next, Server, Client, Ends

\* The invariant holds in every reachable state.
LEMMA InvHolds == Spec => []Inv
BY InitInv, NextInv, PTL DEF Spec

\* channel::read says that the channel is finished only to a client that has
\* received every message of the server, in order and once, for any number of
\* messages and any interleaving of the two ends.
THEOREM EndMeansAllHolds == Spec => []EndMeansAll
<1>1. ASSUME Inv PROVE EndMeansAll
  <2>1. \A p \in Ends : pushed[p] = taken[p] \o queue[p]
    BY <1>1 DEF Inv, Order
  <2>2. ASSUME "client" \in told
        PROVE  /\ pc["server"] \in {"flag", "done"}
               /\ queue["client"] = <<>>
               /\ taken["client"] = [i \in 1..calls["server"] |-> i] \o <<End>>
    <3>1. Over /\ queue["client"] = <<>>
      BY <1>1, <2>2 DEF Inv, Ended
    <3>2. PICK t \in Seq(Messages), n \in 0..MaxMessages :
            t = taken["client"] /\ n = calls["server"]
      BY <1>1 DEF Inv, Types, TypeOK, Ends
    <3>3. pushed["client"] = t \o <<>>
      BY <2>1, <3>1, <3>2 DEF Ends
    <3>4. t = Append(Count(n), End)
      <4>1. t \o <<>> = t
        BY ConcatEmptySeq
      <4> QED
        BY <1>1, <3>1, <3>2, <3>3, <4>1 DEF Inv, Sent, Over
    <3>5. Count(n) \in Seq(Messages) /\ End \in Messages
      BY CountProperties DEF Messages
    <3>6. t = Count(n) \o <<End>>
      BY <3>4, <3>5, AppendIsConcat
    <3> QED
      BY <3>1, <3>2, <3>6 DEF Over, Count
  <2>3. "server" \notin told
    BY <1>1 DEF Inv, Ended
  <2> QED
    BY <2>1, <2>2, <2>3 DEF EndMeansAll
<1> QED
  BY <1>1, InvHolds, PTL

\* No read sleeps on a queue with a message, and read leaves nobody behind when
\* run() has ended but the client that read on after it was told.
THEOREM WaitsForSomethingHolds == Spec => []WaitsForSomething
<1>1. Inv => WaitsForSomething
  BY DEF Inv, Types, Phase, Waiting, Over, WaitsForSomething
<1> QED
  BY <1>1, InvHolds, PTL
=============================================================================
