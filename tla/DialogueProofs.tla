-------------------------- MODULE DialogueProofs --------------------------
(***************************************************************************)
(* The conversation of a control connection.  As long as a session is       *)
(* registered or may still be, what is under way on its connection is what  *)
(* its client waits for, so the client exits with an error only after the   *)
(* server has given the session up.                                         *)
(***************************************************************************)
EXTENDS HeartbeatProofs, SequenceTheorems

USE DEF ownerVars, limitVars, publicVars, localVars, controlVars, writerVars,
        cancelVars, dataVars, registryVars, sessionFrame, writerFrame,
        publicFrame, connFrame, dataFrame, supervisorFrame, heartbeat,
        processVars, pulseVars, taskVars, linkVars, clientVars, clientFrame,
        controlFrame, runFrame, requestFrame

-----------------------------------------------------------------------------
(* What a client is going to read *)

\* The frames for the client of a session, in the order it reads them.
Stream(s) == down[s] \o writer[s]

\* Two queues read as one: what is written moves from one to the other.
LEMMA Streams ==
    ASSUME NEW d \in Seq(Sound), NEW w \in Seq(Sound)
    PROVE  /\ d \o w \in Seq(Sound)
           /\ \A f \in Sound : d \o Append(w, f) = Append(d \o w, f)
           /\ w # <<>> => Append(d, Head(w)) \o Tail(w) = d \o w
           /\ d # <<>> => d \o w # <<>> /\ Head(d \o w) = Head(d) /\ Tail(d \o w) = Tail(d) \o w
           /\ d \o w = <<>> => d = <<>> /\ w = <<>>
           /\ Carried(d) \subseteq Carried(d \o w) /\ Carried(w) \subseteq Carried(d \o w)
<1>1. /\ Len(d) \in Nat /\ Len(w) \in Nat /\ d \o w \in Seq(Sound) /\ Len(d \o w) = Len(d) + Len(w)
      /\ \A k \in 1 .. Len(d) + Len(w) :
            (d \o w)[k] = IF k <= Len(d) THEN d[k] ELSE w[k - Len(d)]
    BY ConcatProperties
<1>2. ASSUME NEW f \in Sound PROVE d \o Append(w, f) = Append(d \o w, f)
    <2>1. /\ Append(w, f) \in Seq(Sound) /\ Len(Append(w, f)) = Len(w) + 1
          /\ \A k \in 1 .. Len(w) : Append(w, f)[k] = w[k]
          /\ Append(w, f)[Len(w) + 1] = f
        BY <1>1
    <2>2. /\ d \o Append(w, f) \in Seq(Sound) /\ Len(d \o Append(w, f)) = Len(d) + Len(w) + 1
          /\ \A k \in 1 .. Len(d) + Len(w) + 1 :
                (d \o Append(w, f))[k] = IF k <= Len(d) THEN d[k] ELSE Append(w, f)[k - Len(d)]
        BY <1>1, <2>1, ConcatProperties
    <2>3. /\ Append(d \o w, f) \in Seq(Sound) /\ Len(Append(d \o w, f)) = Len(d) + Len(w) + 1
          /\ \A k \in 1 .. Len(d) + Len(w) : Append(d \o w, f)[k] = (d \o w)[k]
          /\ Append(d \o w, f)[Len(d) + Len(w) + 1] = f
        BY <1>1
    <2>4. ASSUME NEW k \in 1 .. Len(d) + Len(w) + 1
          PROVE  (d \o Append(w, f))[k] = Append(d \o w, f)[k]
        <3>1. CASE k <= Len(d)
            BY <1>1, <2>2, <2>3, <3>1
        <3>2. CASE k > Len(d) /\ k <= Len(d) + Len(w)
            <4>1. k - Len(d) \in 1 .. Len(w) /\ k \in 1 .. Len(d) + Len(w) /\ ~(k <= Len(d))
                BY <1>1, <3>2
            <4> QED
                BY <1>1, <2>1, <2>2, <2>3, <4>1
        <3>3. CASE k = Len(d) + Len(w) + 1
            <4>1. k - Len(d) = Len(w) + 1 /\ ~(k <= Len(d))
                BY <1>1, <3>3
            <4> QED
                BY <2>1, <2>2, <2>3, <3>3, <4>1
        <3> QED
            BY <1>1, <3>1, <3>2, <3>3
    <2> QED
        BY <2>2, <2>3, <2>4, SeqEqual
<1>3. ASSUME w # <<>> PROVE Append(d, Head(w)) \o Tail(w) = d \o w
    <2>1. /\ Head(w) \in Sound /\ Head(w) = w[1] /\ Tail(w) \in Seq(Sound) /\ Len(w) > 0
          /\ Len(Tail(w)) = Len(w) - 1 /\ \A k \in 1 .. Len(w) - 1 : Tail(w)[k] = w[k + 1]
        BY <1>1, <1>3
    <2>2. /\ Append(d, Head(w)) \in Seq(Sound) /\ Len(Append(d, Head(w))) = Len(d) + 1
          /\ \A k \in 1 .. Len(d) : Append(d, Head(w))[k] = d[k]
          /\ Append(d, Head(w))[Len(d) + 1] = w[1]
        BY <1>1, <2>1
    <2> DEFINE a == Append(d, Head(w))
               t == Tail(w)
    <2> HIDE DEF a, t
    <2>3. /\ a \o t \in Seq(Sound) /\ Len(a \o t) = Len(d) + Len(w)
          /\ \A k \in 1 .. Len(d) + Len(w) :
                (a \o t)[k] = IF k <= Len(d) + 1 THEN a[k] ELSE t[k - (Len(d) + 1)]
        <3>1. a \in Seq(Sound) /\ t \in Seq(Sound) /\ Len(a) = Len(d) + 1 /\ Len(t) = Len(w) - 1
            BY <2>1, <2>2 DEF a, t
        <3>2. Len(a) + Len(t) = Len(d) + Len(w)
            BY <1>1, <3>1
        <3>3. /\ a \o t \in Seq(Sound) /\ Len(a \o t) = Len(a) + Len(t)
              /\ \A k \in 1 .. Len(a) + Len(t) :
                    (a \o t)[k] = IF k <= Len(a) THEN a[k] ELSE t[k - Len(a)]
            BY <3>1, ConcatProperties
        <3> QED
            BY <3>1, <3>2, <3>3
    <2>4. ASSUME NEW k \in 1 .. Len(d) + Len(w)
          PROVE  (a \o t)[k] = (d \o w)[k]
        <3>1. CASE k <= Len(d)
            <4>1. k \in 1 .. Len(d) /\ k <= Len(d) + 1
                BY <1>1, <3>1
            <4> QED
                BY <1>1, <2>2, <2>3, <3>1, <4>1 DEF a
        <3>2. CASE k = Len(d) + 1
            <4>1. k - Len(d) = 1 /\ ~(k <= Len(d)) /\ k <= Len(d) + 1
                BY <1>1, <3>2
            <4> QED
                BY <1>1, <2>2, <2>3, <3>2, <4>1 DEF a
        <3>3. CASE k > Len(d) + 1
            <4>1. /\ ~(k <= Len(d)) /\ ~(k <= Len(d) + 1) /\ k - (Len(d) + 1) \in 1 .. Len(w) - 1
                  /\ (k - (Len(d) + 1)) + 1 = k - Len(d)
                BY <1>1, <3>3
            <4> QED
                BY <1>1, <2>1, <2>3, <4>1 DEF t
        <3>4. k <= Len(d) \/ k = Len(d) + 1 \/ k > Len(d) + 1
            BY <1>1
        <3> QED
            BY <3>1, <3>2, <3>3, <3>4
    <2>5. a \o t = d \o w
        BY <1>1, <2>3, <2>4, SeqEqual
    <2> QED
        BY <2>5 DEF a, t
<1>4. ASSUME d # <<>>
      PROVE  d \o w # <<>> /\ Head(d \o w) = Head(d) /\ Tail(d \o w) = Tail(d) \o w
    <2> DEFINE q == d \o w
               t == Tail(d)
    <2>1. /\ Len(d) > 0 /\ Head(d) = d[1] /\ t \in Seq(Sound) /\ Len(t) = Len(d) - 1
          /\ \A k \in 1 .. Len(d) - 1 : t[k] = d[k + 1]
        BY <1>1, <1>4
    <2>2. q \in Seq(Sound) /\ Len(q) = Len(d) + Len(w) /\ Len(q) > 0 /\ q[1] = d[1]
        BY <1>1, <2>1
    <2> HIDE DEF q, t
    <2>3. /\ q # <<>> /\ Head(q) = q[1] /\ Tail(q) \in Seq(Sound) /\ Len(Tail(q)) = Len(d) + Len(w) - 1
          /\ \A k \in 1 .. Len(d) + Len(w) - 1 : Tail(q)[k] = q[k + 1]
        BY <1>1, <2>2
    <2>4. /\ t \o w \in Seq(Sound) /\ Len(t \o w) = Len(d) + Len(w) - 1
          /\ \A k \in 1 .. Len(d) + Len(w) - 1 :
                (t \o w)[k] = IF k <= Len(d) - 1 THEN t[k] ELSE w[k - (Len(d) - 1)]
        <3>1. Len(t) + Len(w) = Len(d) + Len(w) - 1
            BY <1>1, <2>1
        <3>2. /\ t \o w \in Seq(Sound) /\ Len(t \o w) = Len(t) + Len(w)
              /\ \A k \in 1 .. Len(t) + Len(w) :
                    (t \o w)[k] = IF k <= Len(t) THEN t[k] ELSE w[k - Len(t)]
            BY <2>1, ConcatProperties
        <3> QED
            BY <2>1, <3>1, <3>2
    <2>5. ASSUME NEW k \in 1 .. Len(d) + Len(w) - 1
          PROVE  Tail(q)[k] = (t \o w)[k]
        <3>1. k + 1 \in 1 .. Len(d) + Len(w) /\ Tail(q)[k] = q[k + 1]
            BY <1>1, <2>1, <2>3
        <3>2. q[k + 1] = IF k + 1 <= Len(d) THEN d[k + 1] ELSE w[(k + 1) - Len(d)]
            BY <1>1, <3>1 DEF q
        <3>3. CASE k <= Len(d) - 1
            <4>1. k \in 1 .. Len(d) - 1 /\ k + 1 <= Len(d)
                BY <1>1, <3>3
            <4> QED
                BY <2>1, <2>4, <3>1, <3>2, <3>3, <4>1
        <3>4. CASE ~(k <= Len(d) - 1)
            <4>1. ~(k + 1 <= Len(d)) /\ (k + 1) - Len(d) = k - (Len(d) - 1)
                BY <1>1, <3>4
            <4> QED
                BY <2>4, <3>1, <3>2, <3>4, <4>1
        <3> QED
            BY <3>3, <3>4
    <2>6. Tail(q) = t \o w
        BY <2>3, <2>4, <2>5, SeqEqual
    <2> QED
        BY <2>1, <2>2, <2>3, <2>6 DEF q, t
<1>5. d \o w = <<>> => d = <<>> /\ w = <<>>
    <2>1. Len(d \o w) = 0 => Len(d) = 0 /\ Len(w) = 0
        BY <1>1
    <2> QED
        BY <2>1
<1>6. Carried(d) \subseteq Carried(d \o w) /\ Carried(w) \subseteq Carried(d \o w)
    <2>1. ASSUME NEW k \in 1 .. Len(d) PROVE d[k] \in Carried(d \o w)
        <3>1. k \in 1 .. Len(d) + Len(w) /\ k <= Len(d)
            BY <1>1
        <3> QED
            BY <1>1, <3>1 DEF Carried
    <2>2. ASSUME NEW k \in 1 .. Len(w) PROVE w[k] \in Carried(d \o w)
        <3>1. k + Len(d) \in 1 .. Len(d) + Len(w) /\ ~(k + Len(d) <= Len(d)) /\ (k + Len(d)) - Len(d) = k
            BY <1>1
        <3>2. (d \o w)[k + Len(d)] = w[k]
            BY <1>1, <3>1
        <3> QED
            BY <1>1, <3>1, <3>2 DEF Carried
    <2> QED
        BY <2>1, <2>2 DEF Carried
<1> QED
    BY <1>1, <1>2, <1>3, <1>4, <1>5, <1>6

\* The types of the frames in a queue.
Only(q, types) == \A f \in Carried(q) : f.ty \in types

\* REGISTERED, possibly overtaken by OPEN, and what may follow it before the
\* client has read it.
Greeting(q) ==
    \E n \in 1 .. Len(q) :
        /\ q[n].ty = "Registered"
        /\ \A k \in 1 .. n - 1 : q[k].ty = "Open"
        /\ \A k \in n + 1 .. Len(q) : q[k].ty \in {"Open", "Ping"}

\* Queues that are sent a frame or read.
LEMMA OnlyQueue ==
    ASSUME NEW q \in Seq(Sound), NEW types, Only(q, types)
    PROVE  /\ \A f \in Sound : f.ty \in types => Only(Append(q, f), types)
           /\ q # <<>> => Head(q).ty \in types /\ Only(Tail(q), types)
BY CarriedQueue DEF Only

\* REGISTERED comes after OPEN only, and is followed by OPEN and PING.
LEMMA Greetings ==
    ASSUME NEW q \in Seq(Sound)
    PROVE  /\ \A f \in Sound : Only(q, {"Open"}) /\ f.ty = "Registered" => Greeting(Append(q, f))
           /\ \A f \in Sound : Greeting(q) /\ f.ty \in {"Open", "Ping"} => Greeting(Append(q, f))
           /\ Greeting(q) => /\ q # <<>> /\ Only(q, {"Open", "Registered", "Ping"})
                             /\ Head(q).ty \in {"Open", "Registered"}
                             /\ Head(q).ty = "Registered" => Only(Tail(q), {"Open", "Ping"})
<1>1. Len(q) \in Nat
    OBVIOUS
<1>2. ASSUME NEW f \in Sound
      PROVE  /\ Append(q, f) \in Seq(Sound) /\ Len(Append(q, f)) = Len(q) + 1
             /\ \A k \in 1 .. Len(q) : Append(q, f)[k] = q[k]
             /\ Append(q, f)[Len(q) + 1] = f
    BY <1>1
<1>3. ASSUME NEW f \in Sound, Only(q, {"Open"}), f.ty = "Registered" PROVE Greeting(Append(q, f))
    <2>1. \A k \in 1 .. Len(q) : q[k].ty = "Open"
        BY <1>3 DEF Only, Carried
    <2> DEFINE n == Len(q) + 1
    <2>2. /\ n \in 1 .. Len(Append(q, f)) /\ n - 1 = Len(q)
          /\ \A k \in n + 1 .. Len(Append(q, f)) : FALSE
        BY <1>1, <1>2
    <2>3. \A k \in 1 .. n - 1 : Append(q, f)[k].ty = "Open"
        BY <1>2, <2>1, <2>2
    <2>4. Append(q, f)[n].ty = "Registered"
        BY <1>2, <1>3
    <2> QED
        BY <2>2, <2>3, <2>4 DEF Greeting
<1>4. ASSUME NEW f \in Sound, Greeting(q), f.ty \in {"Open", "Ping"} PROVE Greeting(Append(q, f))
    <2>1. PICK n \in 1 .. Len(q) :
            /\ q[n].ty = "Registered"
            /\ \A k \in 1 .. n - 1 : q[k].ty = "Open"
            /\ \A k \in n + 1 .. Len(q) : q[k].ty \in {"Open", "Ping"}
        BY <1>4 DEF Greeting
    <2>2. /\ n \in 1 .. Len(Append(q, f)) /\ \A k \in 1 .. n - 1 : k \in 1 .. Len(q)
          /\ \A k \in n + 1 .. Len(Append(q, f)) :
                (k \in n + 1 .. Len(q) /\ k \in 1 .. Len(q)) \/ k = Len(q) + 1
        BY <1>1, <1>2
    <2> QED
        BY <1>2, <1>4, <2>1, <2>2 DEF Greeting
<1>5. ASSUME Greeting(q)
      PROVE  /\ q # <<>> /\ Only(q, {"Open", "Registered", "Ping"})
             /\ Head(q).ty \in {"Open", "Registered"}
             /\ Head(q).ty = "Registered" => Only(Tail(q), {"Open", "Ping"})
    <2>1. PICK n \in 1 .. Len(q) :
            /\ q[n].ty = "Registered"
            /\ \A k \in 1 .. n - 1 : q[k].ty = "Open"
            /\ \A k \in n + 1 .. Len(q) : q[k].ty \in {"Open", "Ping"}
        BY <1>5 DEF Greeting
    <2>2. /\ q # <<>> /\ Head(q) = q[1] /\ Len(Tail(q)) = Len(q) - 1
          /\ \A k \in 1 .. Len(q) - 1 : Tail(q)[k] = q[k + 1]
        BY <1>1, <2>1
    <2>3. \A k \in 1 .. Len(q) : k \in 1 .. n - 1 \/ k = n \/ k \in n + 1 .. Len(q)
        BY <1>1
    <2>4. Only(q, {"Open", "Registered", "Ping"})
        BY <2>1, <2>3 DEF Only, Carried
    <2>5. n = 1 \/ 1 \in 1 .. n - 1
        BY <1>1
    <2>6. Head(q).ty \in {"Open", "Registered"}
        BY <2>1, <2>2, <2>5
    <2>7. ASSUME Head(q).ty = "Registered" PROVE Only(Tail(q), {"Open", "Ping"})
        <3>1. n = 1
            BY <2>1, <2>2, <2>5, <2>7
        <3>2. \A k \in 1 .. Len(q) - 1 : k + 1 \in n + 1 .. Len(q)
            BY <1>1, <3>1
        <3> QED
            BY <2>1, <2>2, <3>2 DEF Only, Carried
    <2> QED
        BY <2>2, <2>4, <2>6, <2>7
<1> QED
    BY <1>3, <1>4, <1>5

-----------------------------------------------------------------------------
(* How far a client and its server have come *)

\* A session that is registered, or may still be.
Waiting == {"new", "handshake", "registering"}
Hopeful(s) == s \in Live \/ phase[s] \in Waiting

\* Nothing was asked on the connection.
NewStage(s) == phase[s] = "new" /\ up[s] = <<>> /\ Stream(s) = <<>>

\* What answers a hello: a challenge, or that there is no random nonce for one.
HelloAnswers == {Frame("ControlChallenge"), ErrorFrame("InternalError")}

\* The client has sent its hello and waits for the answer.
HelloStage(s) ==
    /\ up[s] = <<>>
    /\ \/ phase[s] = "new" /\ Stream(s) = <<>>
       \/ phase[s] = "handshake" /\ \E f \in HelloAnswers : Stream(s) = <<f>>

\* The client has sent its proof and waits for REGISTERED, which an OPEN may
\* overtake.
ProvingStage(s) ==
    /\ phase[s] # "new"
    /\ Only(up[s], {"ControlProof"})
    /\ phase[s] \in Waiting => Stream(s) = <<>>
    /\ phase[s] = "granted" => Only(Stream(s), {"Open"})
    /\ phase[s] \notin Early => Greeting(Stream(s))
    /\ phase[s] # "handshake" => s \in writerUp

\* Both sides run their loops.
RunningStage(s) ==
    /\ phase[s] \notin Early
    /\ \A f \in Carried(up[s]) : f.ty # "Goodbye"
    /\ Only(Stream(s), {"Open", "Ping", "Pong"})

\* What a client in phase k, or none, has to do with the server.
Talks(k, s) ==
    /\ k = "new" => NewStage(s)
    /\ k = "hello" => HelloStage(s)
    /\ k = "proving" => ProvingStage(s)
    /\ k = "running" => RunningStage(s)

\* The server ends such a session on no account of its own.
Orderly(s) ==
    /\ CloseAfterFlush \notin Carried(writer[s])
    /\ up[s] # <<>> => Head(up[s]).ty # "Goodbye"
    /\ phase[s] = "granted" => s \in writerUp

\* No client that is not leaving gives the server a reason to close.
LEMMA StageOrderly ==
    ASSUME NEW s \in Session, Typed(s), NEW k \in {"new", "hello", "proving", "running"}, Talks(k, s)
    PROVE  Orderly(s)
<1>0. /\ down[s] \in Seq(Sound) /\ writer[s] \in Seq(Sound) /\ up[s] \in Seq(Sound)
      /\ Carried(writer[s]) \subseteq Carried(Stream(s)) /\ Stream(s) \in Seq(Sound)
    BY Streams DEF Typed, Stream
<1>1. CloseAfterFlush.ty = "CloseAfterFlush"
    BY DEF CloseAfterFlush, Frame
<1>2. Stream(s) = <<>> => Carried(Stream(s)) = {}
    BY CarriedQueue
<1>3. ASSUME NEW f \in HelloAnswers PROVE Carried(<<f>>) = {f}
    <2>1. Len(<<f>>) = 1 /\ \A n \in 1 .. 1 : n = 1
        OBVIOUS
    <2> QED
        BY <2>1 DEF Carried
<1>4. up[s] # <<>> => Head(up[s]) \in Carried(up[s])
    BY <1>0, CarriedQueue
<1>5. ASSUME NEW types, Only(Stream(s), types), "CloseAfterFlush" \notin types
      PROVE  CloseAfterFlush \notin Carried(writer[s])
    BY <1>0, <1>1, <1>5 DEF Only
<1>6. CASE k = "new"
    BY <1>0, <1>2, <1>6 DEF Talks, NewStage, Orderly
<1>7. CASE k = "hello"
    <2>1. CloseAfterFlush \notin HelloAnswers
        BY <1>1 DEF HelloAnswers, Frame, ErrorFrame
    <2> QED
        BY <1>0, <1>2, <1>3, <1>7, <2>1 DEF Talks, HelloStage, Orderly
<1>8. CASE k = "proving"
    <2>1. ProvingStage(s)
        BY <1>8 DEF Talks
    <2>2. up[s] # <<>> => Head(up[s]).ty # "Goodbye"
        BY <1>4, <2>1 DEF ProvingStage, Only
    <2>3. phase[s] = "granted" => s \in writerUp
        BY <2>1 DEF ProvingStage
    <2>4. CASE phase[s] \in Waiting
        BY <1>0, <1>2, <2>1, <2>2, <2>3, <2>4 DEF ProvingStage, Orderly
    <2>5. CASE phase[s] = "granted"
        BY <1>5, <2>1, <2>2, <2>3, <2>5 DEF ProvingStage, Orderly
    <2>6. CASE phase[s] \notin Early
        <3>1. Only(Stream(s), {"Open", "Registered", "Ping"})
            BY <1>0, <2>1, <2>6, Greetings DEF ProvingStage
        <3> QED
            BY <1>5, <2>2, <2>3, <3>1 DEF Orderly
    <2> QED
        BY <2>4, <2>5, <2>6 DEF Waiting, Early
<1>9. CASE k = "running"
    <2>1. RunningStage(s)
        BY <1>9 DEF Talks
    <2>2. CloseAfterFlush \notin Carried(writer[s])
        BY <1>5, <2>1 DEF RunningStage
    <2> QED
        BY <1>4, <2>1, <2>2 DEF RunningStage, Orderly, Early
<1> QED
    BY <1>6, <1>7, <1>8, <1>9

-----------------------------------------------------------------------------
(* What the server does to a session it does not give up *)

\* It reads a frame, or queues one.
Takes(s) == up[s] # <<>> /\ up'[s] = Tail(up[s])
Says(s, ty) == \E f \in Sound : f.ty = ty /\ Stream(s)' = Append(Stream(s), f)

\* It goes on without a word, ...
Listens_on(s) ==
    /\ Stream(s)' = Stream(s)
    /\ up'[s] = up[s] \/ Takes(s)
    /\ \/ phase'[s] = phase[s]
       \/ phase[s] \notin Early /\ phase'[s] \notin Early
       \/ phase[s] = "registering" /\ phase'[s] = "granted"

\* ... answers a hello, ...
Challenges(s) ==
    /\ asked[s] # NoHello
    /\ phase[s] = "new" /\ phase'[s] = "handshake"
    /\ Stream(s) = <<>> => \E f \in HelloAnswers : Stream(s)' = <<f>>
    /\ up'[s] = up[s]

\* ... accepts a proof, ...
Accepts_proof(s) ==
    /\ phase[s] = "handshake" /\ phase'[s] = "registering"
    /\ Takes(s) /\ Head(up[s]).ty = "ControlProof"
    /\ Stream(s)' = Stream(s)
    /\ s \in writerUp'

\* ... or sends one of the frames of a session.
Sends_frame(s) ==
    \/ /\ phase[s] = "granted" /\ phase'[s] = "running"
       /\ up'[s] = up[s] /\ Says(s, "Registered")
    \/ /\ s \in Live /\ phase'[s] = phase[s]
       /\ up'[s] = up[s] /\ Says(s, "Open")
    \/ /\ phase[s] = "running" /\ phase'[s] = "running"
       /\ \/ up'[s] = up[s] /\ Says(s, "Ping")
          \/ Takes(s) /\ Head(up[s]).ty = "Ping" /\ Says(s, "Pong")

Reaction(s) ==
    /\ s \in writerUp => s \in writerUp'
    /\ Listens_on(s) \/ Challenges(s) \/ Accepts_proof(s) \/ Sends_frame(s)

\* Every stage is made for it.
LEMMA StageKept ==
    ASSUME NEW s \in Session, Typed(s), NEW k, Talks(k, s), k = "new" => asked[s] = NoHello,
           s \in Live => phase[s] \notin Unregistered, Reaction(s)
    PROVE  Talks(k, s)'
<1>0. /\ Stream(s) \in Seq(Sound) /\ up[s] \in Seq(Sound) /\ <<>> \in Seq(Sound)
      /\ phase[s] \in Waiting => s \notin Live
    BY Streams DEF Typed, Stream, Waiting, Unregistered
<1>1. ASSUME NEW types, Only(up[s], types), up'[s] = up[s] \/ Takes(s)
      PROVE  Only(up'[s], types)
    BY <1>0, <1>1, OnlyQueue DEF Takes
<1>2. ASSUME k = "new" PROVE NewStage(s)'
    BY <1>0, <1>2 DEF Talks, NewStage, Reaction, Listens_on, Challenges, Accepts_proof, Sends_frame,
            Takes, Early, Waiting
<1>3. ASSUME k = "hello" PROVE HelloStage(s)'
    BY <1>0, <1>3 DEF Talks, HelloStage, Reaction, Listens_on, Challenges, Accepts_proof, Sends_frame,
            Takes, Early, Waiting
<1>4. ASSUME k = "proving" PROVE ProvingStage(s)'
    <2>0. ProvingStage(s)
        BY <1>4 DEF Talks
    <2>1. phase'[s] # "handshake" => s \in writerUp'
        BY <2>0 DEF ProvingStage, Reaction, Listens_on, Challenges, Accepts_proof, Sends_frame, Early
    <2>2. CASE Listens_on(s)
        <3>1. Only(up'[s], {"ControlProof"})
            BY <1>1, <2>0, <2>2 DEF ProvingStage, Listens_on
        <3>2. Only(<<>>, {"Open"})
            BY CarriedQueue DEF Only
        <3> QED
            BY <2>0, <2>1, <2>2, <3>1, <3>2 DEF ProvingStage, Listens_on, Waiting, Early
    <2>3. CASE Challenges(s)
        BY <2>0, <2>3 DEF ProvingStage, Challenges
    <2>4. CASE Accepts_proof(s)
        <3>1. Only(up'[s], {"ControlProof"})
            BY <1>1, <2>0, <2>4 DEF ProvingStage, Accepts_proof
        <3> QED
            BY <2>0, <2>1, <2>4, <3>1 DEF ProvingStage, Accepts_proof, Waiting, Early
    <2>5. CASE Sends_frame(s)
        <3>1. ~(Takes(s) /\ Head(up[s]).ty = "Ping")
            <4>1. Takes(s) => Head(up[s]).ty \in {"ControlProof"}
                BY <1>0, <2>0, OnlyQueue DEF ProvingStage, Takes
            <4> QED
                BY <4>1
        <3>2. PICK f \in Sound :
                /\ Stream(s)' = Append(Stream(s), f) /\ up'[s] = up[s]
                /\ \/ phase[s] = "granted" /\ phase'[s] = "running" /\ f.ty = "Registered"
                   \/ s \in Live /\ phase'[s] = phase[s] /\ f.ty = "Open"
                   \/ phase[s] = "running" /\ phase'[s] = "running" /\ f.ty = "Ping"
            BY <2>5, <3>1 DEF Sends_frame, Says
        <3>3. phase'[s] \notin Waiting
            BY <1>0, <3>2 DEF Waiting
        <3>4. phase'[s] = "granted" => Only(Stream(s)', {"Open"})
            BY <1>0, <2>0, <3>2, OnlyQueue DEF ProvingStage
        <3>5. phase'[s] \notin Early => Greeting(Stream(s)')
            BY <1>0, <2>0, <3>2, Greetings DEF ProvingStage, Early
        <3>6. phase'[s] # "new"
            BY <3>3 DEF Waiting
        <3> QED
            BY <2>0, <2>1, <3>2, <3>3, <3>4, <3>5, <3>6 DEF ProvingStage
    <2> QED
        BY <2>2, <2>3, <2>4, <2>5 DEF Reaction
<1>5. ASSUME k = "running" PROVE RunningStage(s)'
    <2>0. RunningStage(s)
        BY <1>5 DEF Talks
    <2>1. \A f \in Carried(up'[s]) : f.ty # "Goodbye"
        <3>1. up'[s] = up[s] \/ Takes(s)
            BY <2>0 DEF RunningStage, Reaction, Listens_on, Challenges, Accepts_proof, Sends_frame
        <3> QED
            BY <1>0, <2>0, <3>1, CarriedQueue DEF RunningStage, Takes
    <2>2. phase'[s] \notin Early
        BY <2>0 DEF RunningStage, Reaction, Listens_on, Challenges, Accepts_proof, Sends_frame, Early
    <2>3. CASE Listens_on(s)
        BY <2>0, <2>1, <2>2, <2>3 DEF RunningStage, Listens_on
    <2>4. CASE Sends_frame(s)
        <3>1. PICK f \in Sound : f.ty \in {"Open", "Ping", "Pong"} /\ Stream(s)' = Append(Stream(s), f)
            BY <2>0, <2>4 DEF RunningStage, Sends_frame, Says, Early
        <3>2. Only(Stream(s)', {"Open", "Ping", "Pong"})
            BY <1>0, <2>0, <3>1, OnlyQueue DEF RunningStage
        <3> QED
            BY <2>1, <2>2, <3>2 DEF RunningStage
    <2> QED
        BY <2>0, <2>3, <2>4 DEF RunningStage, Reaction, Challenges, Accepts_proof, Early
<1> QED
    BY <1>2, <1>3, <1>4, <1>5 DEF Talks


-----------------------------------------------------------------------------
(* That it does no more than that *)

\* The queues are as they were.
LEMMA ReactStill ==
    ASSUME NEW s \in Session, writer'[s] = writer[s], down'[s] = down[s], up'[s] = up[s],
           s \in writerUp => s \in writerUp',
           \/ phase'[s] = phase[s] \/ (phase[s] \notin Early /\ phase'[s] \notin Early)
           \/ (phase[s] = "registering" /\ phase'[s] = "granted")
    PROVE  Reaction(s)
BY DEF Reaction, Listens_on, Stream

\* A frame is queued, and none is written meanwhile.
LEMMA SaysQueued ==
    ASSUME NEW s \in Session, Typed(s), NEW f \in Sound, down'[s] = down[s],
           writer'[s] = Append(writer[s], f)
    PROVE  Says(s, f.ty)
<1>1. down[s] \o Append(writer[s], f) = Append(down[s] \o writer[s], f)
    BY Streams DEF Typed
<1> QED
    BY <1>1 DEF Says, Stream

\* The registry's handlers, the supervisor and the tasks of users and data
\* connections: a session is granted what it waits for or sent an OPEN, unless it is
\* taken over, refused or shut down.
LEMMA ReactOther ==
    ASSUME TypeOK, RegistersOnce, OwnershipConsistent, RegistryStopped, RegistryDown, ServerFrames,
           QuietOther, UNCHANGED <<up, down>>, NEW s \in Session, Typed(s), Hopeful(s)'
    PROVE  Reaction(s)
<1>0. /\ writer \in [Session -> Seq(Sound)] /\ phase \in [Session -> ControlPhase]
      /\ Live \subseteq Session /\ sessions \in [Session -> SessionRef]
      /\ \A x \in Session : phase[x] \in Unregistered => x \notin Live
    BY DEF TypeOK, ServerFrames, RegistersOnce, Live
<1>1. ASSUME writer' = writer, writerUp' = writerUp, phase' = phase PROVE Reaction(s)
    BY <1>1, ReactStill
<1>2. CASE Register
    <2>1. commands # <<>> /\ Head(commands).op = "Register"
        BY <1>2 DEF Register, Receive
    <2>2. PICK x \in Session : x = Head(commands).session
        BY <2>1, HeadCommand DEF Command
    <2>3. phase[x] = "registering" /\ x \notin Live
        <3>1. Len(commands) \in Nat /\ 1 \in 1 .. Len(commands) /\ Head(commands) = commands[1]
            BY <2>1 DEF TypeOK, Channel
        <3> QED
            BY <2>1, <2>2, <3>1 DEF RegistersOnce, Unregistered
    <2>4. writerUp' = writerUp
        BY <1>2 DEF Register
    <2>5. ASSUME NEW p \in Port, Install(x, p), phase' = [phase EXCEPT ![x] = "granted"]
          PROVE  Reaction(s)
        <3>1. Live' = (Live \ Previous(p)) \cup {x}
            BY <2>5, LiveInstall
        <3>2. Previous(p) \subseteq Live
            BY OwnerEntry DEF Previous
        <3>3. s \notin Previous(p) => writer'[s] = writer[s]
            BY <2>5 DEF Install, displace, TrySendLast
        <3>4. CASE s = x
            BY <1>0, <2>3, <2>4, <2>5, <3>2, <3>3, <3>4, ReactStill
        <3>5. CASE s # x
            <4>1. phase'[s] = phase[s]
                BY <1>0, <2>5, <3>5
            <4>2. s \notin Previous(p)
                BY <1>0, <3>1, <3>2, <3>5, <4>1 DEF Hopeful, Waiting, Unregistered
            <4> QED
                BY <2>4, <3>3, <4>1, <4>2, ReactStill
        <3> QED
            BY <3>4, <3>5
    <2>6. ASSUME phase' = [phase EXCEPT ![x] = "denied"], UNCHANGED <<sessions, writer>>
          PROVE  Reaction(s)
        <3>1. s # x
            BY <1>0, <2>3, <2>6 DEF Hopeful, Waiting, Live
        <3>2. phase'[s] = phase[s]
            BY <1>0, <2>6, <3>1
        <3> QED
            BY <2>4, <2>6, <3>2, ReactStill
    <2> QED
        BY <1>2, <2>2, <2>5, <2>6 DEF Register
<1>3. CASE AcceptedPublic
    <2>1. commands # <<>> /\ Head(commands).op = "AcceptedPublic"
        BY <1>3 DEF AcceptedPublic, Receive
    <2>2. PICK c \in Conn : c = Head(commands).item
        BY <2>1, HeadCommand DEF Command
    <2> DEFINE x == ports[via[c].port].session
    <2>3. /\ UNCHANGED <<phase, writerUp>>
          /\ \/ writer' = writer
             \/ Admitted(c) /\ Accepts(x) /\ writer' = TrySend(x, OpenFrame(c))
        BY <1>3, <2>2 DEF AcceptedPublic, Reject, FailSession, OpenRequest
    <2>4. CASE writer' = writer
        BY <1>1, <2>3, <2>4
    <2>5. CASE Admitted(c) /\ Accepts(x) /\ writer' = TrySend(x, OpenFrame(c))
        <3>1. x \in Live
            BY <2>5, OwnerEntry DEF Admitted, Slots
        <3>2. writer' = [writer EXCEPT ![x] = Append(@, OpenFrame(c))]
            BY <1>0, <2>5 DEF Accepts, TrySend, Offer
        <3>3. OpenFrame(c) \in Sound /\ OpenFrame(c).ty = "Open"
            BY SoundFrames DEF OpenFrame
        <3> HIDE DEF x
        <3>4. CASE s = x
            <4>1. writer'[s] = Append(writer[s], OpenFrame(c))
                BY <1>0, <3>2, <3>4
            <4>2. Says(s, "Open")
                BY <3>3, <4>1, SaysQueued
            <4> QED
                BY <2>3, <3>1, <3>4, <4>2 DEF Reaction, Sends_frame
        <3>5. CASE s # x
            BY <1>0, <2>3, <3>2, <3>5, ReactStill
        <3> QED
            BY <3>4, <3>5
    <2> QED
        BY <2>3, <2>4, <2>5
<1>4. CASE Shutdown
    <2>1. /\ writerUp' = writerUp /\ writer' = TrySendLast(Live, Frame("ServerShutdown"))
          /\ sessions' = Without(Session)
          /\ phase'[s] = CASE phase[s] = "registering" -> "denied"
                           [] phase[s] = "goodbye" -> "teardown"
                           [] OTHER -> phase[s]
        BY <1>4 DEF Shutdown, shutdown_all
    <2>2. s \notin Live'
        BY <2>1 DEF Live, Without, NoRef
    <2>3. phase'[s] \in Waiting
        BY <2>2 DEF Hopeful
    <2>4. phase'[s] = phase[s] /\ phase[s] \in Unregistered
        BY <2>1, <2>3 DEF Waiting, Unregistered
    <2>5. writer'[s] = writer[s]
        BY <1>0, <2>1, <2>4 DEF TrySendLast
    <2> QED
        BY <2>1, <2>4, <2>5, ReactStill
<1>5. CASE Goodbye
    <2>1. /\ phase' = [phase EXCEPT ![Head(commands).session] =
                          IF @ = "goodbye" THEN "teardown" ELSE @]
          /\ UNCHANGED <<writer, writerUp>>
        BY <1>5 DEF Goodbye
    <2>2. phase'[s] = phase[s] \/ (phase[s] \notin Early /\ phase'[s] \notin Early)
        BY <1>0, <2>1 DEF Early
    <2> QED
        BY <2>1, <2>2, ReactStill
<1>6. CASE SessionLost \/ PeekData \/ ClaimData \/ OpenFailed \/ RequestFinished
    BY <1>1, <1>6 DEF SessionLost, PeekData, ClaimData, OpenFailed, RequestFinished
<1>7. CASE \/ Sweep \/ (\E p \in Port : ReservationExpires(p))
           \/ (\E l \in listeners : ListenerStops(l)) \/ Stop \/ SendShutdown \/ TasksJoined
    BY <1>1, <1>7 DEF Sweep, ReservationExpires, ListenerStops, Stop, SendShutdown, TasksJoined
<1>8. CASE GraceElapses
    <2>1. /\ UNCHANGED <<writer, writerUp, sessions>> /\ server = "grace"
          /\ phase'[s] = phase[s] \/ phase'[s] = "ended"
        BY <1>8 DEF GraceElapses, EndServe
    <2>2. s \notin Live
        <3>1. Slots = {}
            BY <2>1 DEF RegistryStopped, RegistryDown
        <3> QED
            BY <3>1 DEF OwnershipConsistent, Slots
    <2>3. s \notin Live'
        BY <2>1, <2>2 DEF Live
    <2>4. phase'[s] = phase[s]
        BY <2>1, <2>3 DEF Hopeful, Waiting
    <2> QED
        BY <2>1, <2>4, ReactStill
<1>9. CASE (\E c \in Conn : PublicStep(c)) \/ (\E d \in DataConn : DataStep(d))
    BY <1>1, <1>9, PublicStepFrame, DataStepFrame
<1>10. CASE UNCHANGED vars
    BY <1>1, <1>10 DEF vars
<1> QED
    BY <1>2, <1>3, <1>4, <1>5, <1>6, <1>7, <1>8, <1>9, <1>10 DEF QuietOther, RegistryStep, SupervisorStep

\* A step of another control connection.
LEMMA ControlAlone ==
    ASSUME TypeOK, NEW x \in Session, ControlStep(x), NEW s \in Session, s # x
    PROVE  /\ phase'[s] = phase[s] /\ writer'[s] = writer[s]
           /\ s \in writerUp => s \in writerUp'
<1>0. writer \in [Session -> Queue] /\ phase \in [Session -> ControlPhase]
    BY DEF TypeOK
<1>1. ASSUME \/ phase' = phase \/ (\E y : phase' = [phase EXCEPT ![x] = y]) \/ EndServe({x}),
             \/ writer' = writer \/ (\E q : writer' = [writer EXCEPT ![x] = q])
             \/ (\E f : writer' = TrySend(x, f)) \/ (\E f : writer' = TrySendLast({x}, f)),
             writerUp' \in {writerUp, writerUp \cup {x}, writerUp \ {x}}
      PROVE  /\ phase'[s] = phase[s] /\ writer'[s] = writer[s]
             /\ s \in writerUp => s \in writerUp'
    BY <1>0, <1>1 DEF EndServe, TrySend, TrySendLast
<1>2. CASE \/ (\E h \in Hellos : AcceptControl(x, h)) \/ RefuseControl(x) \/ TakeoverFlushEnds(x)
           \/ HandshakeFails(x) \/ Authenticate(x)
    BY <1>1, <1>2 DEF AcceptControl, RefuseControl, TakeoverFlushEnds, HandshakeFails, Authenticate
<1>3. CASE SendRefusal(x) \/ SendRegistered(x) \/ Abandon(x) \/ ServeEnds(x)
    BY <1>1, <1>3 DEF SendRefusal, SendRegistered, Abandon, ServeEnds
<1>4. CASE \/ Cancelled(x) \/ SendSessionLost(x) \/ SendGoodbye(x) \/ GoodbyeReplied(x)
           \/ PongDeadline(x) \/ PingTick(x)
    BY <1>1, <1>4 DEF Cancelled, SendSessionLost, SendGoodbye, GoodbyeReplied, PongDeadline,
            PingTick, Break, Continue, Teardown
<1>5. CASE ClientFrameArrives(x)
    BY <1>1, <1>5 DEF ClientFrameArrives, ReceivePing, ReceivePong, ReceiveGoodbye, ReceiveError,
            ReceiveOther, ReceiveOpenFailed, Break, BreakClean, Continue
<1>6. CASE WriterStep(x)
    BY <1>1, <1>6 DEF WriterStep, WriteFrame, WriteFails, CloseAfterFlushed, SendersGone, WriterEnds
<1> QED
    BY <1>2, <1>3, <1>4, <1>5, <1>6 DEF ControlStep, ServeStep

\* The serve task and the writer task on their own: REGISTERED and pings go out, and
\* an orderly session is not closed.
LEMMA ReactServe ==
    ASSUME TypeOK, RegistersOnce, NEW s \in Session, Typed(s), Orderly(s),
           InternalControl(s), UNCHANGED <<up, down>>, Hopeful(s)'
    PROVE  Reaction(s)
<1>0. /\ writer \in [Session -> Queue] /\ phase \in [Session -> ControlPhase]
      /\ assigned \in [Session -> Port \cup {0}] /\ sequence \in [Session -> Sequence]
      /\ phase[s] \in Unregistered => s \notin Live
    BY DEF TypeOK, RegistersOnce
<1>1. Live' = Live
    <2>1. ControlStep(s)
        BY DEF InternalControl, ControlStep, WriterStep
    <2> QED
        BY <2>1, ControlFrame DEF Live
<1>2. ASSUME UNCHANGED <<writer, writerUp>>, phase[s] \notin Early, phase'[s] \notin Early
      PROVE  Reaction(s)
    BY <1>2, ReactStill
<1>3. ASSUME NEW f \in Sound, Accepts(s), writer' = TrySend(s, f) PROVE Says(s, f.ty)
    <2>1. writer'[s] = Append(writer[s], f)
        BY <1>0, <1>3 DEF Accepts, TrySend, Offer
    <2> QED
        BY <2>1, SaysQueued
<1>4. CASE SendRefusal(s)
    BY <1>0, <1>1, <1>4 DEF SendRefusal, Hopeful, Waiting, Unregistered
<1>5. CASE SendRegistered(s)
    <2>1. /\ NumberFrame("Registered", assigned[s]) \in Sound
          /\ NumberFrame("Registered", assigned[s]).ty = "Registered"
        BY <1>0, SoundFrames DEF NumberFrame
    <2>2. phase[s] = "granted" /\ s \in writerUp
        BY <1>5 DEF SendRegistered, Orderly
    <2>3. /\ Accepts(s) /\ writer' = TrySend(s, NumberFrame("Registered", assigned[s]))
          /\ phase' = [phase EXCEPT ![s] = "running"] /\ writerUp' = writerUp
        BY <1>5, <2>2 DEF SendRegistered
    <2>4. Says(s, "Registered")
        BY <1>3, <2>1, <2>3
    <2> QED
        BY <1>0, <2>2, <2>3, <2>4 DEF Reaction, Sends_frame
<1>6. CASE Abandon(s) \/ ServeEnds(s)
    BY <1>0, <1>2, <1>6 DEF Abandon, ServeEnds, EndServe, Early
<1>7. CASE Cancelled(s) \/ PongDeadline(s) \/ SendSessionLost(s) \/ SendGoodbye(s) \/ GoodbyeReplied(s)
    BY <1>0, <1>2, <1>7 DEF Cancelled, PongDeadline, SendSessionLost, SendGoodbye, GoodbyeReplied,
            Listening, Break, Teardown, Early
<1>8. CASE PingTick(s)
    <2>1. phase[s] = "running" /\ writerUp' = writerUp
        BY <1>8 DEF PingTick, Listening
    <2> DEFINE f == NumberFrame("Ping", NextSequence(sequence[s]))
    <2>2. f \in Sound /\ f.ty = "Ping"
        BY <1>0, SoundFrames, SequenceType DEF NumberFrame
    <2> HIDE DEF f
    <2>3. CASE Accepts(s) /\ writer' = TrySend(s, f) /\ phase' = phase
        <3>1. Says(s, "Ping")
            BY <1>3, <2>2, <2>3
        <3> QED
            BY <2>1, <2>3, <3>1 DEF Reaction, Sends_frame
    <2>4. CASE Break(s) /\ writer' = writer
        BY <1>0, <1>2, <2>1, <2>4 DEF Break, Early
    <2> QED
        BY <1>8, <2>3, <2>4 DEF PingTick, Continue, f
<1>9. CASE TakeoverFlushEnds(s)
    BY <1>9, ReactStill DEF TakeoverFlushEnds
<1>10. CASE CloseAfterFlushed(s)
    <2>1. writer[s] # <<>> /\ Head(writer[s]) = CloseAfterFlush
        BY <1>10 DEF CloseAfterFlushed
    <2>2. Head(writer[s]) \in Carried(writer[s])
        BY <2>1, CarriedQueue DEF Typed
    <2> QED
        BY <2>1, <2>2 DEF Orderly
<1>11. CASE SendersGone(s)
    BY <1>1, <1>11 DEF SendersGone, Hopeful, Waiting
<1> QED
    BY <1>4, <1>5, <1>6, <1>7, <1>8, <1>9, <1>10, <1>11 DEF InternalControl, ServeStep

\* What a session's own connection brings it: its hello is challenged, its proof
\* accepted, its pings are answered, and what is queued for it is written.
LEMMA ReactTalk ==
    ASSUME TypeOK, RegistersOnce, ServerFrames, ClientSide, NEW s \in Session, Typed(s), Orderly(s),
           s \notin left \cup cut, ServerControl(s), Hopeful(s)'
    PROVE  Reaction(s)
<1>0. /\ writer \in [Session -> Queue] /\ phase \in [Session -> ControlPhase]
      /\ up \in [Session -> Seq(Sound)] /\ down \in [Session -> Seq(Sound)]
      /\ phase[s] \in Unregistered => s \notin Live
    BY DEF TypeOK, RegistersOnce, ClientSide, Linked
<1>1. Live' = Live
    <2>1. ControlStep(s)
        BY ServerControlStep DEF TunnelTypes, ClientSide
    <2> QED
        BY <2>1, ControlFrame DEF Live
<1>2. \A f \in Sound : down' = Deliver(s, f) => down'[s] = Append(down[s], f)
    BY <1>0 DEF Deliver, Put
<1>3. CASE ServerAccepts(s)
    <2>1. ~RefuseControl(s)
        BY <1>0, <1>1 DEF RefuseControl, Hopeful, Waiting, Unregistered
    <2>2. /\ asked[s] # NoHello /\ phase[s] = "new" /\ phase' = [phase EXCEPT ![s] = "handshake"]
          /\ \E f \in HelloAnswers : down' = Deliver(s, f)
          /\ UNCHANGED <<up, writer, writerUp>>
        BY <1>3, <2>1 DEF ServerAccepts, AcceptControl, HelloAnswers
    <2>3. PICK f \in HelloAnswers : f \in Sound /\ down'[s] = Append(down[s], f)
        BY <1>2, <2>2, SoundFrames DEF HelloAnswers, ErrorCode
    <2>4. ASSUME Stream(s) = <<>> PROVE Stream(s)' = <<f>>
        <3>1. down[s] = <<>> /\ writer[s] = <<>>
            BY <2>4, Streams DEF Stream, Typed
        <3>2. Append(<<>>, f) = <<f>>
            OBVIOUS
        <3>3. <<f>> \in Seq(Sound)
            BY <2>3
        <3>4. <<f>> \o <<>> = <<f>>
            BY <3>3, ConcatEmptySeq
        <3> QED
            BY <2>2, <2>3, <3>1, <3>2, <3>4 DEF Stream
    <2> QED
        BY <1>0, <2>2, <2>4 DEF Reaction, Challenges
<1>4. CASE ServerAuthenticates(s)
    <2>1. /\ up[s] # <<>> /\ Head(up[s]).ty = "ControlProof" /\ up'[s] = Tail(up[s])
          /\ down' = down /\ writer' = writer /\ writerUp' = writerUp \cup {s}
          /\ phase[s] = "handshake"
          /\ \E y \in {"registering", "denied"} : phase' = [phase EXCEPT ![s] = y]
        BY <1>0, <1>4 DEF ServerAuthenticates, Next_up, Read, Authenticate
    <2>2. phase'[s] = "registering"
        BY <1>0, <1>1, <2>1 DEF Hopeful, Waiting, Unregistered
    <2> QED
        BY <2>1, <2>2 DEF Reaction, Accepts_proof, Takes, Stream
<1>5. CASE ServerHandshakeFails(s)
    BY <1>0, <1>1, <1>5 DEF ServerHandshakeFails, HandshakeFails, EndServe, Hopeful, Waiting, Unregistered
<1>6. CASE ServerReads(s)
    <2>1. Takes(s) /\ down' = down /\ Head(up[s]) \in Sound
        BY <1>0, <1>6, SoundQueue DEF ServerReads, Read, Takes
    <2>2. Head(up[s]).ty # "Goodbye"
        BY <2>1 DEF Orderly, Takes
    <2>3. ASSUME UNCHANGED <<writer, writerUp>>, phase[s] = "running", phase'[s] \in {"running", "lost"}
          PROVE  Reaction(s)
        BY <2>1, <2>3 DEF Reaction, Listens_on, Stream, Early
    <2>4. CASE Head(up[s]).ty = "Ping" /\ ReceivePing(s, Head(up[s]).num)
        <3>1. phase[s] = "running" /\ writerUp' = writerUp
            BY <2>4 DEF ReceivePing, Listening
        <3> DEFINE f == NumberFrame("Pong", Head(up[s]).num)
        <3>2. f \in Sound /\ f.ty = "Pong"
            <4>1. Head(up[s]).num \in Sequence
                BY <2>1, <2>4 DEF Sound
            <4> QED
                BY <4>1, SoundFrames DEF NumberFrame
        <3> HIDE DEF f
        <3>3. CASE Accepts(s) /\ writer' = TrySend(s, f) /\ phase' = phase
            <4>1. writer'[s] = Append(writer[s], f)
                BY <1>0, <3>3 DEF Accepts, TrySend, Offer
            <4>2. Says(s, "Pong")
                BY <2>1, <3>2, <4>1, SaysQueued
            <4> QED
                BY <2>1, <2>4, <3>1, <3>3, <4>2 DEF Reaction, Sends_frame
        <3>4. CASE Break(s) /\ writer' = writer
            BY <1>0, <2>3, <3>1, <3>4 DEF Break
        <3> QED
            BY <2>4, <3>3, <3>4 DEF ReceivePing, Continue, f
    <2>5. CASE ReceivePong(s, Head(up[s]).num) \/ ReceiveOpenFailed(s, Head(up[s]).arg)
        BY <2>3, <2>5 DEF ReceivePong, ReceiveOpenFailed, Listening, Continue
    <2> QED
        BY <1>6, <2>2, <2>4, <2>5 DEF ServerReads
<1>7. CASE ServerWrites(s)
    <2>1. /\ writer[s] # <<>> /\ writer'[s] = Tail(writer[s]) /\ UNCHANGED <<up, phase, writerUp>>
          /\ down' = Deliver(s, Head(writer[s]))
        BY <1>0, <1>7 DEF ServerWrites, WriteFrame
    <2>2. down'[s] = Append(down[s], Head(writer[s]))
        BY <1>2, <2>1, SoundQueue DEF Typed
    <2>3. Stream(s)' = Stream(s)
        <3>1. Append(down[s], Head(writer[s])) \o Tail(writer[s]) = down[s] \o writer[s]
            BY <2>1, Streams DEF Typed
        <3> QED
            BY <2>1, <2>2, <3>1 DEF Stream
    <2> QED
        BY <2>1, <2>3 DEF Reaction, Listens_on
<1>8. CASE ServerReadsEnd(s) \/ ServerWriteFails(s)
    BY <1>8 DEF ServerReadsEnd, ServerSeesEnd, ServerWriteFails
<1> QED
    BY <1>3, <1>4, <1>5, <1>6, <1>7, <1>8 DEF ServerControl

-----------------------------------------------------------------------------
(* The invariant *)

\* A connection that is not cut, of a session that is registered or may still be,
\* has come as far as its client has.
Stage(k, s) == s \notin cut /\ Hopeful(s) => Talks(k, s)

\* So have the connections nobody has used yet and those of the clients; a cut
\* connection delivers nothing.
Dialogue ==
    /\ \A s \in Session : asked[s] = NoHello => s \notin left \cup cut /\ Stage("new", s)
    /\ \A i \in Instance : csession[i] # None =>
          csession[i] \notin left /\ Stage(cphase[i], csession[i])
    /\ \A s \in cut : down[s] = <<>>

\* A registered session has the port that was asked for, if one was.
Placed == \A s \in Live : asked[s].port \in {0, sessions[s].port}

\* Inductive, given that a stopped registry has no slots.
Conversing == TunnelInvariant /\ ServedAsAsked /\ ToldItsPort /\ Dialogue /\ Placed

\* The steps of the server.
ServerMove ==
    \/ ServerInternal \/ (\E x \in Session : ServerControl(x))
    \/ (\E d \in DataConn : ServerData(d)) \/ (\E c \in Conn : ServerReadies(c))

\* A session given up stays given up.
LEMMA HopeLost ==
    ASSUME TypeOK, RegistersOnce, [Next]_vars, NEW s \in Session, Hopeful(s)'
    PROVE  Hopeful(s)
<1>1. Progress(s)
    BY ProgressNext
<1> QED
    BY <1>1 DEF Progress, Hopeful, Waiting

\* Whatever the server does, it is a reaction where the session is orderly.
LEMMA ServerReacts ==
    ASSUME TunnelInvariant, RegistryDown, ServerMove, NEW s \in Session,
           Orderly(s), s \notin left \cup cut, Hopeful(s)'
    PROVE  Reaction(s)
<1>0. /\ TypeOK /\ RegistersOnce /\ OwnershipConsistent /\ RegistryStopped /\ ServerFrames /\ ClientSide
      /\ TunnelTypes /\ Typed(s)
    BY DEF TunnelInvariant, Ownership, TunnelTypes, ClientSide, ServerFrames, Linked, Typed
<1>1. CASE QuietOther /\ UNCHANGED <<up, down>>
    BY <1>0, <1>1, ReactOther
<1>2. ASSUME NEW x \in Session, InternalControl(x), UNCHANGED <<up, down>>
      PROVE  Reaction(s)
    <2>1. CASE x = s
        BY <1>0, <1>2, <2>1, ReactServe
    <2>2. CASE x # s
        <3>1. ControlStep(x)
            BY <1>2 DEF InternalControl, ControlStep, WriterStep
        <3> QED
            BY <1>0, <1>2, <2>2, <3>1, ControlAlone, ReactStill
    <2> QED
        BY <2>1, <2>2
<1>3. ASSUME NEW x \in Session, ServerControl(x)
      PROVE  Reaction(s)
    <2>1. CASE x = s
        BY <1>0, <1>3, <2>1, ReactTalk
    <2>2. CASE x # s
        <3>1. ControlStep(x)
            BY <1>0, <1>3, ServerControlStep
        <3>2. up'[s] = up[s] /\ down'[s] = down[s]
            <4>1. up \in [Session -> Seq(Sound)] /\ down \in [Session -> Seq(Sound)]
                BY <1>0 DEF ClientSide, Linked
            <4> QED
                BY <1>3, <2>2, <4>1 DEF ServerControl, ServerAccepts, ServerAuthenticates,
                        ServerHandshakeFails, ServerReads, ServerReadsEnd, ServerWrites,
                        ServerWriteFails, Read, Deliver, Put
        <3> QED
            BY <1>0, <2>2, <3>1, <3>2, ControlAlone, ReactStill
    <2> QED
        BY <2>1, <2>2
<1>4. \A c \in Conn : InternalPublic(c) => PublicStep(c)
    BY DEF InternalPublic, PublicStep, ServePublicStep
<1>5. \A d \in DataConn : InternalData(d) => DataStep(d)
    BY DEF InternalData, DataStep
<1>6. CASE ServerInternal
    BY <1>1, <1>2, <1>4, <1>5, <1>6 DEF ServerInternal, QuietOther
<1>7. CASE (\E d \in DataConn : ServerData(d)) \/ \E c \in Conn : ServerReadies(c)
    <2>1. QuietOther
        BY <1>7 DEF ServerData, ServerAcceptsData, ServerRefusesData, ServerClaims, DataStep,
                ServerReadies, PublicStep, ServePublicStep, QuietOther
    <2>2. UNCHANGED <<up, down>>
        BY <1>7 DEF ServerData, ServerAcceptsData, ServerRefusesData, ServerClaims, ServerReadies
    <2> QED
        BY <1>1, <2>1, <2>2
<1> QED
    BY <1>3, <1>6, <1>7 DEF ServerMove

\* The server's steps leave the clients where they are, and put nothing on a cut
\* connection.
LEMMA ServerApart ==
    ASSUME ClientSide, ServerMove
    PROVE  /\ UNCHANGED <<cphase, csession, asked, left, cut>>
           /\ \A s \in cut : down[s] = <<>> => down'[s] = <<>>
<1>0. down \in [Session -> Seq(Sound)] /\ cut \subseteq Session
    BY DEF ClientSide, ClientTypeOK, Linked
<1>1. ASSUME down' = down \/ \E x \in Session : \E f : down' = Deliver(x, f)
      PROVE  \A s \in cut : down[s] = <<>> => down'[s] = <<>>
    BY <1>0, <1>1 DEF Deliver, Put
<1>2. CASE ServerInternal \/ (\E d \in DataConn : ServerData(d)) \/ \E c \in Conn : ServerReadies(c)
    BY <1>1, <1>2 DEF ServerInternal, ServerData, ServerAcceptsData, ServerRefusesData, ServerClaims,
            ServerReadies
<1>3. ASSUME NEW x \in Session, ServerControl(x)
      PROVE  /\ UNCHANGED <<cphase, csession, asked, left, cut>>
             /\ \A s \in cut : down[s] = <<>> => down'[s] = <<>>
    BY <1>1, <1>3 DEF ServerControl, ServerAccepts, ServerAuthenticates, ServerHandshakeFails,
            ServerReads, ServerReadsEnd, ServerWrites, ServerWriteFails
<1> QED
    BY <1>2, <1>3 DEF ServerMove

\* So the server keeps every stage.
LEMMA DialogueServer ==
    ASSUME TunnelInvariant, RegistryDown, Dialogue, [Next]_vars, ServerMove
    PROVE  Dialogue'
<1>0. /\ TypeOK /\ RegistersOnce /\ ClientSide
      /\ UNCHANGED <<cphase, csession, asked, left, cut>>
      /\ \A s \in cut : down[s] = <<>> => down'[s] = <<>>
    BY ServerApart DEF TunnelInvariant, Ownership, TunnelTypes, ClientSide
<1>1. ASSUME NEW s \in Session, NEW k \in ClientPhase \cup {"new"}, Stage(k, s), s \notin left,
             k = "new" => asked[s] = NoHello
      PROVE  Stage(k, s)'
    <2>1. SUFFICES ASSUME s \notin cut, Hopeful(s)', k \in {"new", "hello", "proving", "running"}
                   PROVE  Talks(k, s)'
        BY <1>0 DEF Stage, Talks
    <2>2. Talks(k, s) /\ Typed(s)
        BY <1>0, <1>1, <2>1, HopeLost DEF Stage, TunnelInvariant, TunnelTypes, ServerFrames, Linked, Typed
    <2>3. Orderly(s)
        BY <2>1, <2>2, StageOrderly
    <2>4. Reaction(s)
        BY <1>1, <2>1, <2>3, ServerReacts
    <2>5. s \in Live => phase[s] \notin Unregistered
        BY <1>0 DEF RegistersOnce
    <2> QED
        BY <1>1, <2>2, <2>4, <2>5, StageKept
<1>2. ASSUME NEW s \in Session, asked'[s] = NoHello
      PROVE  s \notin left' \cup cut' /\ Stage("new", s)'
    BY <1>0, <1>1, <1>2 DEF Dialogue
<1>3. ASSUME NEW i \in Instance, csession'[i] # None
      PROVE  csession'[i] \notin left' /\ Stage(cphase[i], csession[i])'
    <2>1. csession[i] \in Session /\ cphase[i] \in ClientPhase /\ cphase[i] # "new"
        BY <1>0, <1>3 DEF ClientSide, ClientTypeOK, ClientPhase
    <2> QED
        BY <1>0, <1>1, <1>3, <2>1 DEF Dialogue
<1>4. \A s \in cut' : down'[s] = <<>>
    BY <1>0 DEF Dialogue
<1>5. \A s \in Session : asked'[s] = NoHello => s \notin left' \cup cut' /\ Stage("new", s)'
    BY <1>2
<1>6. \A i \in Instance : csession'[i] # None => csession'[i] \notin left' /\ Stage(cphase[i], csession[i])'
    BY <1>3
<1> QED
    BY <1>4, <1>5, <1>6 DEF Dialogue

-----------------------------------------------------------------------------
(* The clients' steps *)

\* A connection that is left alone keeps its stage.
LEMMA StageElsewhere ==
    ASSUME UNCHANGED vars, cut \subseteq cut', NEW s \in Session, NEW k, Stage(k, s),
           up'[s] = up[s], down'[s] = down[s]
    PROVE  Stage(k, s)'
<1>1. UNCHANGED <<phase, writer, writerUp>> /\ Live' = Live
    BY DEF vars, Live
<1> QED
    BY <1>1 DEF Stage, Hopeful, Talks, NewStage, HelloStage, ProvingStage, RunningStage, Stream

\* A running client reads, or sends anything but GOODBYE.
LEMMA RunningKept ==
    ASSUME UNCHANGED vars, NEW s \in Session, Typed(s), RunningStage(s),
           down'[s] = down[s] \/ (down[s] # <<>> /\ down'[s] = Tail(down[s])),
           up'[s] = up[s] \/ \E f \in Sound : f.ty # "Goodbye" /\ up'[s] = Append(up[s], f)
    PROVE  RunningStage(s)'
<1>1. UNCHANGED <<phase, writer>>
    BY DEF vars
<1>2. Stream(s)' = Stream(s) \/ (Stream(s) # <<>> /\ Stream(s)' = Tail(Stream(s)))
    <2>1. down[s] # <<>> =>
            /\ down[s] \o writer[s] # <<>>
            /\ Tail(down[s] \o writer[s]) = Tail(down[s]) \o writer[s]
        BY Streams DEF Typed
    <2> QED
        BY <1>1, <2>1 DEF Stream
<1>3. Stream(s) \in Seq(Sound) /\ Only(Stream(s), {"Open", "Ping", "Pong"})
    BY Streams DEF Typed, Stream, RunningStage
<1>4. Only(Stream(s)', {"Open", "Ping", "Pong"})
    <2>1. Stream(s) # <<>> => Only(Tail(Stream(s)), {"Open", "Ping", "Pong"})
        BY <1>3, OnlyQueue
    <2> QED
        BY <1>2, <1>3, <2>1
<1>5. \A f \in Carried(up'[s]) : f.ty # "Goodbye"
    <2>1. up[s] \in Seq(Sound) /\ \A f \in Carried(up[s]) : f.ty # "Goodbye"
        BY DEF RunningStage, Typed
    <2>2. \A f \in Sound : Carried(Append(up[s], f)) \subseteq Carried(up[s]) \cup {f}
        BY <2>1, CarriedQueue
    <2> QED
        BY <2>1, <2>2
<1> QED
    BY <1>1, <1>4, <1>5 DEF RunningStage

\* What a step of a process does to the connections it does not have.
LEMMA ProcessApart ==
    ASSUME ClientSide, NEW i \in Instance, ProcessStep(i)
    PROVE  /\ UNCHANGED vars /\ cut' = cut
           /\ \A s \in Session : s # csession[i] =>
                 up'[s] = up[s] /\ down'[s] = down[s] /\ (s \in left' => s \in left)
           /\ \A j \in Instance : j # i => csession'[j] = csession[j] /\ cphase'[j] = cphase[j]
           /\ \A s \in Session : asked'[s] = NoHello => asked[s] = NoHello
           /\ \A s \in Session : asked[s] # NoHello => asked'[s] = asked[s]
<1>0. /\ up \in [Session -> Seq(Sound)] /\ down \in [Session -> Seq(Sound)]
      /\ csession \in [Instance -> Session \cup {None}] /\ cphase \in [Instance -> ClientPhase]
      /\ asked \in [Session -> Hello \cup {NoHello}]
    BY DEF ClientSide, ClientTypeOK, Linked
<1>1. UNCHANGED vars
    BY ClientsApart
<1>2. AttemptMove(i)
    BY ProcessMoves
<1>3. \A j \in Instance : j # i => csession'[j] = csession[j] /\ cphase'[j] = cphase[j]
    BY <1>0, <1>2 DEF AttemptMove, Dial
<1>4. /\ \A s \in Session : asked'[s] = NoHello => asked[s] = NoHello
      /\ \A s \in Session : asked[s] # NoHello => asked'[s] = asked[s]
    <2>1. CASE Dial(i)
        <3>1. Undialed \subseteq Nat /\ Undialed # {} /\ Undialed \subseteq Session
            BY <2>1, TunnelAssumption DEF Dial, Undialed
        <3>2. PICK r \in Undialed : r = First(Undialed)
            BY <3>1, FirstIn
        <3>3. asked' = [asked EXCEPT ![r] = HelloOf(i)] /\ asked[r] = NoHello
            BY <2>1, <3>2 DEF Dial, Undialed
        <3> QED
            BY <1>0, <3>3
    <2>2. CASE ~Dial(i)
        BY <1>2, <2>2 DEF AttemptMove
    <2> QED
        BY <2>1, <2>2
<1>5. ASSUME Retry(i) \/ \E result : Exit(i, result)
      PROVE  /\ up' = up /\ down' = [down EXCEPT ![csession[i]] = <<>>]
             /\ left' = left \cup {csession[i]}
    BY <1>5 DEF Retry, Exit, EndAttempt, CloseClient
<1>6. ASSUME \/ up' = up \/ (\E f : up' = Put(up, csession[i], f)) \/ (\E f : up' = Post(csession[i], f)),
             \/ down' = down \/ (\E q : down' = [down EXCEPT ![csession[i]] = q]),
             left' \in {left, left \cup {csession[i]}}
      PROVE  \A s \in Session : s # csession[i] =>
                up'[s] = up[s] /\ down'[s] = down[s] /\ (s \in left' => s \in left)
    BY <1>0, <1>6 DEF Put, Post
<1>7. /\ cut' = cut
      /\ \A s \in Session : s # csession[i] =>
            up'[s] = up[s] /\ down'[s] = down[s] /\ (s \in left' => s \in left)
    <2>1. CASE AttemptStep(i)
        BY <1>5, <1>6, <2>1 DEF AttemptStep, ReadChallenge, ReadRegistered, AttemptRefused,
                AttemptConfused, AttemptFails, AttemptCancelled, classify, Heed
    <2>2. CASE HearPing(i) \/ HearPong(i) \/ HearShutdown(i) \/ HearError(i)
        BY <1>5, <1>6, <2>2 DEF HearPing, HearPong, HearShutdown, HearError, classify, Heed
    <2>3. CASE HearOpen(i) \/ StartGoodbye(i) \/ GoodbyeEnds(i)
        BY <1>5, <1>6, <2>3 DEF HearOpen, StartGoodbye, GoodbyeEnds, Report
    <2>4. CASE \/ Dial(i) \/ SessionEnds(i) \/ ClientPongDeadline(i) \/ ClientPingTick(i)
               \/ RunCancelled(i) \/ Interrupt(i) \/ Kill(i)
        BY <1>5, <1>6, <2>4 DEF Dial, SessionEnds, ClientPongDeadline, ClientPingTick, RunCancelled,
                Interrupt, Kill
    <2> QED
        BY <2>1, <2>2, <2>3, <2>4 DEF ProcessStep, SessionStep
<1> QED
    BY <1>1, <1>3, <1>4, <1>7

\* A process and the connection it has, or opens: its stage is that of its phase
\* (client/control.rs: register, run_session).
LEMMA OwnStage ==
    ASSUME TypeOK, ClientSide, AllTyped, RegistersOnce, Dialogue, NEW i \in Instance, ProcessStep(i),
           csession'[i] # None
    PROVE  csession'[i] \notin left' /\ Stage(cphase[i], csession[i])'
<1>0. /\ up \in [Session -> Seq(Sound)] /\ down \in [Session -> Seq(Sound)]
      /\ csession \in [Instance -> Session \cup {None}] /\ cphase \in [Instance -> ClientPhase]
      /\ \A s \in Session : phase[s] \in Unregistered => s \notin Live
      /\ cphase[i] \notin {"idle", "exited"} => csession[i] # None
    BY DEF ClientSide, ClientTypeOK, Linked, RegistersOnce
<1>1. UNCHANGED vars /\ cut' = cut /\ UNCHANGED <<phase, writer, writerUp>> /\ Live' = Live
    BY ProcessApart DEF vars, Live
<1>2. ~(Retry(i) \/ \E result : Exit(i, result))
    BY <1>0 DEF Retry, Exit, EndAttempt
<1>3. ASSUME NEW s \in Session, csession[i] = s, csession' = csession, left' = left,
             NEW k, cphase'[i] = k, s \notin cut /\ Hopeful(s) /\ Talks(cphase[i], s) => Talks(k, s)'
      PROVE  csession'[i] \notin left' /\ Stage(cphase[i], csession[i])'
    <2>1. s \notin left /\ Stage(cphase[i], s) /\ s # None
        BY <1>3, IdentityAssumption DEF Dialogue
    <2>2. Hopeful(s)' <=> Hopeful(s)
        BY <1>1 DEF Hopeful
    <2>3. Stage(k, s)'
        BY <1>1, <1>3, <2>1, <2>2 DEF Stage
    <2> QED
        BY <1>3, <2>1, <2>3
<1>4. ASSUME cphase[i] = "running", csession' = csession, left' = left, cphase' = cphase,
             down'[csession[i]] = down[csession[i]] \/
                (down[csession[i]] # <<>> /\ down'[csession[i]] = Tail(down[csession[i]])),
             \/ up' = up
             \/ \E f \in Sound : f.ty # "Goodbye" /\ up' = Post(csession[i], f)
      PROVE  csession'[i] \notin left' /\ Stage(cphase[i], csession[i])'
    <2>1. PICK s \in Session : s = csession[i]
        BY <1>0, <1>4
    <2>2. up'[s] = up[s] \/ \E f \in Sound : f.ty # "Goodbye" /\ up'[s] = Append(up[s], f)
        BY <1>0, <1>4, <2>1 DEF Post, Put
    <2>3. Typed(s)
        BY DEF AllTyped
    <2>4. RunningStage(s) => RunningStage(s)'
        BY <1>1, <1>4, <2>1, <2>2, <2>3, RunningKept
    <2>5. Talks("running", s) => Talks("running", s)'
        BY <2>4 DEF Talks
    <2> QED
        BY <1>3, <1>4, <2>1, <2>5
<1>5. ASSUME NEW s \in Session, down[s] # <<>>, down'[s] = Tail(down[s])
      PROVE  /\ Stream(s) \in Seq(Sound) /\ Stream(s) # <<>> /\ Head(Stream(s)) = Head(down[s])
             /\ Stream(s)' = Tail(Stream(s))
    <2>1. /\ down[s] \o writer[s] \in Seq(Sound)
          /\ down[s] \o writer[s] # <<>> /\ Head(down[s] \o writer[s]) = Head(down[s])
          /\ Tail(down[s] \o writer[s]) = Tail(down[s]) \o writer[s]
        BY <1>5, Streams DEF AllTyped, Typed
    <2> QED
        BY <1>1, <1>5, <2>1 DEF Stream
<1>6. CASE Dial(i)
    <2>1. Undialed \subseteq Nat /\ Undialed # {} /\ Undialed \subseteq Session
        BY <1>6, TunnelAssumption DEF Dial, Undialed
    <2>2. PICK s \in Undialed : s = First(Undialed)
        BY <2>1, FirstIn
    <2>3. /\ s \in Session /\ asked[s] = NoHello /\ csession'[i] = s /\ cphase'[i] = "hello"
          /\ UNCHANGED <<up, down, left>>
        BY <1>0, <1>6, <2>1, <2>2 DEF Dial, Undialed
    <2>4. s \notin left /\ s \notin cut /\ Stage("new", s)
        BY <2>3 DEF Dialogue
    <2>5. Hopeful(s)' <=> Hopeful(s)
        BY <1>1 DEF Hopeful
    <2>6. Stream(s)' = Stream(s)
        BY <1>1, <2>3 DEF Stream
    <2>7. NewStage(s) => HelloStage(s)'
        BY <1>1, <2>3, <2>6 DEF NewStage, HelloStage
    <2>8. Stage("hello", s)'
        BY <1>1, <2>4, <2>5, <2>7 DEF Stage, Talks
    <2> QED
        BY <2>3, <2>4, <2>8
<1>7. CASE ReadChallenge(i)
    <2>1. PICK s \in Session : s = csession[i]
        BY <1>0, <1>7 DEF ReadChallenge, Attempting
    <2>2. /\ cphase[i] = "hello" /\ down[s] # <<>> /\ down'[s] = Tail(down[s])
          /\ up' = Put(up, s, Frame("ControlProof")) /\ cphase'[i] = "proving"
          /\ UNCHANGED <<csession, left>>
        BY <1>0, <1>7, <2>1 DEF ReadChallenge, Heard, Heed
    <2>3. ASSUME s \notin cut, Talks("hello", s) PROVE Talks("proving", s)'
        <3>1. HelloStage(s) /\ Stream(s) # <<>> /\ Stream(s)' = Tail(Stream(s))
            BY <1>5, <2>2, <2>3 DEF Talks
        <3>2. up[s] = <<>> /\ phase[s] = "handshake" /\ \E f : Stream(s) = <<f>>
            BY <3>1 DEF HelloStage
        <3>3. \A f : Tail(<<f>>) = <<>>
            OBVIOUS
        <3>4. up'[s] = Append(<<>>, Frame("ControlProof"))
            BY <1>0, <2>2, <2>3, <3>2 DEF Put
        <3>5. Only(Append(<<>>, Frame("ControlProof")), {"ControlProof"})
            <4>1. /\ <<>> \in Seq(Sound) /\ Frame("ControlProof") \in Sound
                  /\ Frame("ControlProof").ty = "ControlProof"
                BY SoundFrames DEF Frame
            <4>2. Only(<<>>, {"ControlProof"})
                BY CarriedQueue DEF Only
            <4> QED
                BY <4>1, <4>2, OnlyQueue
        <3>6. ProvingStage(s)'
            BY <1>1, <3>1, <3>2, <3>3, <3>4, <3>5 DEF ProvingStage, Early
        <3> QED
            BY <3>6 DEF Talks
    <2> QED
        BY <1>3, <2>1, <2>2, <2>3
<1>8. CASE ReadRegistered(i)
    <2>1. PICK s \in Session : s = csession[i]
        BY <1>0, <1>8 DEF ReadRegistered, Attempting
    <2>2. /\ cphase[i] = "proving" /\ down[s] # <<>> /\ Head(down[s]).ty = "Registered"
          /\ down'[s] = Tail(down[s]) /\ cphase'[i] = "running" /\ UNCHANGED <<csession, up, left>>
        BY <1>0, <1>2, <1>8, <2>1 DEF ReadRegistered, Heard, Heed
    <2>3. ASSUME Talks("proving", s) PROVE Talks("running", s)'
        <3>1. /\ ProvingStage(s) /\ Stream(s) \in Seq(Sound) /\ Stream(s) # <<>>
              /\ Head(Stream(s)).ty = "Registered" /\ Stream(s)' = Tail(Stream(s))
            BY <1>5, <2>2, <2>3 DEF Talks
        <3>2. ~Only(Stream(s), {"Open"})
            BY <3>1, OnlyQueue
        <3>3. phase[s] \notin Early /\ Greeting(Stream(s))
            BY <3>1, <3>2 DEF ProvingStage, Waiting, Early
        <3>4. Only(Stream(s)', {"Open", "Ping"})
            BY <3>1, <3>3, Greetings
        <3>5. RunningStage(s)'
            BY <1>1, <2>2, <3>1, <3>3, <3>4 DEF RunningStage, ProvingStage, Only
        <3> QED
            BY <3>5 DEF Talks
    <2> QED
        BY <1>3, <2>1, <2>2, <2>3
<1>9. CASE HearPing(i)
    <2>1. /\ cphase[i] = "running" /\ csession[i] \in Session /\ down[csession[i]] # <<>>
          /\ Head(down[csession[i]]).ty = "Ping"
        BY <1>0, <1>9 DEF HearPing, Running, Heard
    <2> DEFINE f == NumberFrame("Pong", Head(down[csession[i]]).num)
    <2>2. f \in Sound /\ f.ty # "Goodbye"
        <3>1. Head(down[csession[i]]) \in Sound
            BY <1>0, <2>1, SoundQueue
        <3>2. Head(down[csession[i]]).num \in Sequence
            BY <2>1, <3>1 DEF Sound
        <3> QED
            BY <3>2, SoundFrames DEF NumberFrame
    <2>3. /\ up' = Post(csession[i], f) /\ Heed(i) /\ UNCHANGED <<cphase, csession, left>>
        BY <1>2, <1>9 DEF HearPing
    <2> HIDE DEF f
    <2> QED
        BY <1>0, <1>4, <2>1, <2>2, <2>3 DEF Heed
<1>10. CASE HearPong(i)
    <2>1. /\ cphase[i] = "running" /\ csession[i] \in Session /\ down[csession[i]] # <<>>
          /\ Heed(i) /\ UNCHANGED <<cphase, csession, left, up>>
        BY <1>0, <1>10 DEF HearPong, Running, Heard
    <2> QED
        BY <1>0, <1>4, <2>1 DEF Heed
<1>11. CASE HearError(i)
    <2>1. cphase[i] = "running" /\ csession[i] \in Session /\ down[csession[i]] # <<>>
        BY <1>0, <1>11 DEF HearError, Running
    <2>2. Heed(i) /\ UNCHANGED <<cphase, csession, left, up>>
        BY <1>2, <1>11 DEF HearError, classify
    <2> QED
        BY <1>0, <1>4, <2>1, <2>2 DEF Heed
<1>12. CASE HearOpen(i)
    <2>1. /\ cphase[i] = "running" /\ csession[i] \in Session /\ down[csession[i]] # <<>>
          /\ Head(down[csession[i]]).ty = "Open" /\ down' = [down EXCEPT ![csession[i]] = Tail(@)]
          /\ UNCHANGED <<cphase, csession, left>>
        BY <1>0, <1>12 DEF HearOpen
    <2>2. PICK c \in Conn : c = Head(down[csession[i]]).arg
        <3>1. Head(down[csession[i]]) \in Sound
            BY <1>0, <2>1, SoundQueue
        <3> QED
            BY <2>1, <3>1 DEF Sound
    <2> DEFINE f == [ty |-> "OpenFailed", arg |-> c, num |-> 0]
    <2>3. f \in Sound /\ f.ty # "Goodbye"
        BY SoundFrames
    <2>4. up' = up \/ up' = Post(csession[i], f)
        BY <1>12, <2>2 DEF HearOpen, Report
    <2> HIDE DEF f
    <2> QED
        BY <1>0, <1>4, <2>1, <2>3, <2>4
<1>13. CASE ClientPingTick(i)
    <2> DEFINE n == (csequence[i] + 1) % SEQUENCE_MODULUS
    <2>1. /\ cphase[i] = "running" /\ csession[i] \in Session
          /\ up' = Post(csession[i], NumberFrame("Ping", n)) /\ UNCHANGED <<cphase, csession, left, down>>
        BY <1>0, <1>2, <1>13 DEF ClientPingTick, Running
    <2>2. NumberFrame("Ping", n) \in Sound /\ NumberFrame("Ping", n).ty # "Goodbye"
        <3>1. csequence[i] \in Sequence
            BY DEF ClientSide, ClientTypeOK
        <3>2. n \in Sequence
            BY <3>1, SequenceType DEF NextSequence
        <3> QED
            BY <3>2, SoundFrames DEF NumberFrame
    <2> HIDE DEF n
    <2> QED
        BY <1>4, <2>1, <2>2
<1>14. CASE StartGoodbye(i)
    <2>1. PICK s \in Session : s = csession[i]
        BY <1>0, <1>14 DEF StartGoodbye
    <2>2. cphase'[i] = "leaving" /\ UNCHANGED <<csession, left>>
        BY <1>0, <1>2, <1>14 DEF StartGoodbye
    <2>3. Talks("leaving", s)'
        BY DEF Talks
    <2> QED
        BY <1>3, <2>1, <2>2, <2>3
<1>15. CASE RunCancelled(i)
    <2>1. PICK s \in Session : s = csession[i]
        BY <1>0, <1>15 DEF RunCancelled
    <2>2. cphase'[i] = "exited" /\ UNCHANGED <<csession, left>>
        BY <1>0, <1>15 DEF RunCancelled
    <2>3. Talks("exited", s)'
        BY DEF Talks
    <2> QED
        BY <1>3, <2>1, <2>2, <2>3
<1>16. CASE Interrupt(i)
    <2>1. UNCHANGED <<cphase, csession, left, up, down>>
        BY <1>16 DEF Interrupt
    <2>2. PICK s \in Session : s = csession[i]
        BY <1>0, <2>1
    <2>3. s \notin left /\ Stage(cphase[i], s)
        BY <2>1, <2>2 DEF Dialogue
    <2>4. PICK k : k = cphase[i]
        OBVIOUS
    <2>5. Stage(k, s)'
        BY <1>1, <2>1, <2>3, <2>4, StageElsewhere
    <2> QED
        BY <2>1, <2>2, <2>3, <2>4, <2>5
<1>17. CASE \/ AttemptRefused(i) \/ AttemptConfused(i) \/ AttemptFails(i) \/ AttemptCancelled(i)
            \/ HearShutdown(i) \/ GoodbyeEnds(i) \/ SessionEnds(i) \/ ClientPongDeadline(i) \/ Kill(i)
    BY <1>2, <1>17 DEF AttemptRefused, AttemptConfused, AttemptFails, AttemptCancelled, classify,
            HearShutdown, GoodbyeEnds, SessionEnds, ClientPongDeadline, Kill
<1> QED
    BY <1>6, <1>7, <1>8, <1>9, <1>10, <1>11, <1>12, <1>13, <1>14, <1>15, <1>16, <1>17
       DEF ProcessStep, AttemptStep, SessionStep

\* The steps of a process keep every stage, its own and the others'.
LEMMA DialogueProcess ==
    ASSUME TypeOK, ClientSide, AllTyped, RegistersOnce, ServedAsAsked, Dialogue,
           NEW i \in Instance, ProcessStep(i)
    PROVE  Dialogue'
<1>0. /\ UNCHANGED vars /\ cut' = cut /\ cut \subseteq Session
      /\ \A s \in Session : s # csession[i] =>
            up'[s] = up[s] /\ down'[s] = down[s] /\ (s \in left' => s \in left)
      /\ \A j \in Instance : j # i => csession'[j] = csession[j] /\ cphase'[j] = cphase[j]
      /\ \A s \in Session : asked'[s] = NoHello => asked[s] = NoHello
      /\ csession \in [Instance -> Session \cup {None}] /\ down \in [Session -> Seq(Sound)]
    BY ProcessApart DEF ClientSide, ClientTypeOK, Linked
<1>1. ASSUME NEW s \in Session, s # csession[i], NEW k, Stage(k, s)
      PROVE  Stage(k, s)'
    BY <1>0, <1>1, StageElsewhere
<1>2. ASSUME NEW s \in Session, asked'[s] = NoHello
      PROVE  s \notin left' \cup cut' /\ Stage("new", s)'
    <2>1. asked[s] = NoHello
        BY <1>0, <1>2
    <2>2. s # csession[i]
        BY <2>1, OneOwner
    <2>3. s \notin left \cup cut /\ Stage("new", s)
        BY <2>1 DEF Dialogue
    <2> QED
        BY <1>0, <1>1, <2>2, <2>3
<1>3. ASSUME NEW j \in Instance, csession'[j] # None
      PROVE  csession'[j] \notin left' /\ Stage(cphase[j], csession[j])'
    <2>1. CASE j = i
        BY <1>3, <2>1, OwnStage
    <2>2. CASE j # i
        <3>1. PICK s \in Session : s = csession[j]
            BY <1>0, <1>3, <2>2
        <3>2. PICK k : k = cphase[j]
            OBVIOUS
        <3>3. s # csession[i]
            BY <2>2, <3>1, OneOwner
        <3>4. s \notin left /\ Stage(k, s) /\ csession'[j] = s /\ cphase'[j] = k
            BY <1>0, <1>3, <2>2, <3>1, <3>2 DEF Dialogue
        <3>5. s \notin left' /\ Stage(k, s)'
            BY <1>0, <1>1, <3>3, <3>4
        <3> QED
            BY <3>4, <3>5
    <2> QED
        BY <2>1, <2>2
<1>4. ASSUME NEW s \in cut'
      PROVE  down'[s] = <<>>
    <2>1. s \in Session /\ down[s] = <<>>
        BY <1>0 DEF Dialogue
    <2>2. CASE s # csession[i]
        BY <1>0, <2>1, <2>2
    <2>3. CASE s = csession[i]
        <3>1. Retry(i) \/ (\E result : Exit(i, result)) => down'[s] = <<>>
            BY <1>0, <2>1, <2>3 DEF Retry, Exit, EndAttempt, CloseClient
        <3>2. CASE AttemptStep(i)
            BY <2>1, <2>3, <3>1, <3>2 DEF AttemptStep, ReadChallenge, ReadRegistered, AttemptRefused,
                    AttemptConfused, AttemptFails, AttemptCancelled, Heard
        <3>3. CASE SessionStep(i)
            BY <2>1, <2>3, <3>1, <3>3 DEF SessionStep, HearPing, HearPong, HearShutdown, HearError,
                    HearOpen, StartGoodbye, GoodbyeEnds, Heard
        <3>4. CASE \/ Dial(i) \/ SessionEnds(i) \/ ClientPongDeadline(i) \/ ClientPingTick(i)
                   \/ RunCancelled(i) \/ Interrupt(i) \/ Kill(i)
            BY <2>1, <3>1, <3>4 DEF Dial, SessionEnds, ClientPongDeadline, ClientPingTick, RunCancelled,
                    Interrupt, Kill
        <3> QED
            BY <3>2, <3>3, <3>4 DEF ProcessStep
    <2> QED
        BY <2>2, <2>3
<1>5. \A s \in Session : asked'[s] = NoHello => s \notin left' \cup cut' /\ Stage("new", s)'
    BY <1>2
<1>6. \A j \in Instance : csession'[j] # None => csession'[j] \notin left' /\ Stage(cphase[j], csession[j])'
    BY <1>3
<1> QED
    BY <1>4, <1>5, <1>6 DEF Dialogue

\* Nor does a cut connection matter, or what a request's task reports on one that
\* is running or being left (client/data.rs: handle_open).
LEMMA DialogueElsewhere ==
    ASSUME ClientSide, AllTyped, ServedAsAsked, Dialogue, UNCHANGED <<vars, csession, cphase, asked, left>>,
           cut \subseteq cut', \A s \in cut' : s \in Session /\ asked[s] # NoHello,
           \A s \in cut' : down'[s] = down[s] \/ down'[s] = <<>>,
           \A s \in cut' \ cut : down'[s] = <<>>,
           \A s \in Session \ cut' : down'[s] = down[s],
           \A s \in Session \ cut' : up'[s] = up[s] \/
              /\ ~SessionCancelled(s)
              /\ \E f \in Sound : f.ty # "Goodbye" /\ up'[s] = Append(up[s], f)
    PROVE  Dialogue'
<1>0. /\ csession \in [Instance -> Session \cup {None}]
      /\ UNCHANGED <<phase, writer, writerUp>> /\ Live' = Live
    BY DEF ClientSide, ClientTypeOK, vars, Live
<1>1. ASSUME NEW s \in Session, NEW k, Stage(k, s), s \in cut' \/ up'[s] = up[s]
      PROVE  Stage(k, s)'
    <2>1. CASE s \in cut'
        BY <2>1 DEF Stage
    <2>2. CASE s \notin cut'
        BY <1>1, <2>2, StageElsewhere
    <2> QED
        BY <2>1, <2>2
<1>2. ASSUME NEW s \in Session, asked'[s] = NoHello
      PROVE  s \notin left' \cup cut' /\ Stage("new", s)'
    <2>1. SessionCancelled(s)
        BY <1>2, OneOwner DEF SessionCancelled
    <2>2. s \notin left /\ s \notin cut' /\ Stage("new", s)
        BY <1>2 DEF Dialogue
    <2> QED
        BY <1>1, <2>1, <2>2
<1>3. ASSUME NEW j \in Instance, csession'[j] # None
      PROVE  csession'[j] \notin left' /\ Stage(cphase[j], csession[j])'
    <2>1. PICK s \in Session : s = csession[j]
        BY <1>0, <1>3
    <2>2. PICK k : k = cphase[j]
        OBVIOUS
    <2>3. s \notin left /\ Stage(k, s) /\ csession'[j] = s /\ cphase'[j] = k
        BY <1>3, <2>1, <2>2 DEF Dialogue
    <2>4. Stage(k, s)'
        <3>1. CASE s \in cut' \/ up'[s] = up[s]
            BY <1>1, <2>3, <3>1
        <3>2. CASE s \notin cut' /\ up'[s] # up[s]
            <4>1. ~SessionCancelled(s) /\ \E f \in Sound : f.ty # "Goodbye" /\ up'[s] = Append(up[s], f)
                BY <3>2
            <4>2. k \in {"running", "leaving"}
                BY <2>1, <2>2, <4>1, OneOwner DEF SessionCancelled
            <4>3. RunningStage(s) => RunningStage(s)'
                BY <3>2, <4>1, RunningKept DEF AllTyped
            <4>4. (Hopeful(s)' <=> Hopeful(s)) /\ s \notin cut
                BY <1>0, <3>2 DEF Hopeful
            <4> QED
                BY <2>3, <4>2, <4>3, <4>4 DEF Stage, Talks
        <3> QED
            BY <3>1, <3>2
    <2> QED
        BY <2>3, <2>4
<1>4. ASSUME NEW s \in cut'
      PROVE  down'[s] = <<>>
    BY DEF Dialogue
<1>5. \A s \in Session : asked'[s] = NoHello => s \notin left' \cup cut' /\ Stage("new", s)'
    BY <1>2
<1>6. \A j \in Instance : csession'[j] # None => csession'[j] \notin left' /\ Stage(cphase[j], csession[j])'
    BY <1>3
<1> QED
    BY <1>4, <1>5, <1>6 DEF Dialogue

\* Every step of the tunnel keeps the stages.
LEMMA DialogueNext ==
    ASSUME TunnelInvariant, RegistryDown, ServedAsAsked, Dialogue, [TunnelNext]_tunnelVars
    PROVE  Dialogue'
<1>0. /\ TypeOK /\ RegistersOnce /\ ClientSide /\ AllTyped /\ [Next]_vars
      /\ up \in [Session -> Seq(Sound)] /\ down \in [Session -> Seq(Sound)] /\ cut \subseteq Session
    BY TunnelKeeps DEF TunnelInvariant, Ownership, TunnelTypes, ClientSide, ClientTypeOK,
            ServerFrames, Linked, AllTyped, Typed
<1>1. \A s \in cut : s \in Session /\ asked[s] # NoHello
    BY <1>0 DEF Dialogue
<1>2. CASE ServerMove
    BY <1>0, <1>2, DialogueServer
<1>3. CASE \E i \in Instance : ProcessStep(i)
    BY <1>0, <1>3, DialogueProcess
<1>4. ASSUME NEW x \in Session, Cut(x)
      PROVE  Dialogue'
    <2>1. /\ UNCHANGED <<vars, csession, cphase, asked, left>> /\ cut' = cut \cup {x} /\ asked[x] # NoHello
          /\ down'[x] = <<>> /\ \A s \in Session : s # x => up'[s] = up[s] /\ down'[s] = down[s]
        BY <1>0, <1>4 DEF Cut
    <2>2. /\ cut \subseteq cut' /\ \A s \in cut' : s \in Session /\ asked[s] # NoHello
          /\ \A s \in cut' : down'[s] = down[s] \/ down'[s] = <<>>
          /\ \A s \in cut' \ cut : down'[s] = <<>>
          /\ \A s \in Session \ cut' : up'[s] = up[s] /\ down'[s] = down[s]
        BY <1>0, <1>1, <2>1
    <2> QED
        BY <1>0, <2>1, <2>2, DialogueElsewhere
<1>5. ASSUME NEW c \in Conn, TaskStep(c)
      PROVE  Dialogue'
    <2> DEFINE f == [ty |-> "OpenFailed", arg |-> c, num |-> 0]
    <2>1. /\ UNCHANGED <<vars, csession, cphase, asked, left, cut, down>>
          /\ \/ up' = up
             \/ ~SessionCancelled(req[c].session) /\ up' = Post(req[c].session, f)
        BY <1>5 DEF TaskStep, DialBoth, ReadDataChallenge, ReadDataReady, SetupFails, TaskCancelled,
                ClientForwardEnds, Step, Report
    <2>2. f \in Sound /\ f.ty # "Goodbye"
        BY SoundFrames
    <2> HIDE DEF f
    <2>3. ASSUME NEW s \in Session, up'[s] # up[s]
          PROVE  ~SessionCancelled(s) /\ up'[s] = Append(up[s], f)
        BY <1>0, <2>1, <2>3 DEF Post, Put
    <2> QED
        BY <1>0, <1>1, <2>1, <2>2, <2>3, DialogueElsewhere
<1>6. CASE AtRest \/ UNCHANGED tunnelVars
    <2>1. UNCHANGED <<vars, csession, cphase, asked, left, cut, down, up>>
        BY <1>6 DEF AtRest, tunnelVars
    <2> QED
        BY <1>0, <1>1, <2>1, DialogueElsewhere
<1> QED
    BY <1>2, <1>3, <1>4, <1>5, <1>6 DEF TunnelNext, ServerMove

\* A session is registered on the port that was asked for on its connection
\* (registry.rs: register; client/control.rs: register).
LEMMA PlacedNext ==
    ASSUME TypeOK, RegistersOnce, ClientSide, ServedAsAsked, Placed, [TunnelNext]_tunnelVars, [Next]_vars
    PROVE  Placed'
<1> SUFFICES ASSUME NEW s \in Live' PROVE asked'[s].port \in {0, sessions'[s].port}
    BY DEF Placed
<1>1. s \in Session
    BY DEF Live
<1>2. Progress(s)
    BY <1>1, ProgressNext
<1>3. asked[s] # NoHello => asked'[s] = asked[s]
    <2>1. CASE \E i \in Instance : ProcessStep(i)
        BY <1>1, <2>1, ProcessApart
    <2>2. CASE ~\E i \in Instance : ProcessStep(i)
        BY <2>2, OthersApart
    <2> QED
        BY <2>1, <2>2
<1>4. CASE s \in Live /\ sessions'[s] = sessions[s]
    BY <1>1, <1>3, <1>4 DEF ServedAsAsked, Placed
<1>5. CASE phase[s] = "registering" /\ hello[s].port \in {0, sessions'[s].port}
    BY <1>1, <1>3, <1>5 DEF ServedAsAsked
<1> QED
    BY <1>2, <1>4, <1>5 DEF Progress

-----------------------------------------------------------------------------
(* Errors *)

\* A process exits with an error on a frame it does not expect, or that says so
\* (client/control.rs: classify, require_type, register, run_session).
Upset(i) ==
    LET f == Head(down[csession[i]])
    IN  /\ down[csession[i]] # <<>>
        /\ \/ cphase[i] = "hello" /\ f.ty # "ControlChallenge"
           \/ cphase[i] = "proving" /\ f.ty # "Registered"
           \/ /\ cphase[i] = "proving" /\ f.ty = "Registered"
              /\ asked[csession[i]].port \notin {0, f.num}
           \/ cphase[i] = "running" /\ f.ty \notin {"Open", "Ping", "Pong"}

\* No other step sets such an outcome.
LEMMA ErrorExit ==
    ASSUME ClientSide, [TunnelNext]_tunnelVars, NEW i \in Instance,
           outcome[i] = "None", outcome'[i] \in ErrorCode
    PROVE  Upset(i)
<1>0. outcome \in [Instance -> Outcome] /\ {"None", "Clean", "Killed"} \cap ErrorCode = {}
    BY DEF ClientSide, ClientTypeOK, ErrorCode
<1>1. outcome'[i] # outcome[i]
    BY <1>0
<1>2. PICK j \in Instance : ProcessStep(j)
    BY <1>1, OthersApart
<1>3. \A result : Exit(j, result) => j = i /\ result \in ErrorCode
    BY <1>0, <1>1 DEF Exit
<1>4. ~Retry(j)
    BY <1>1 DEF Retry
<1>5. CASE AttemptStep(j)
    BY <1>0, <1>1, <1>3, <1>4, <1>5 DEF AttemptStep, ReadChallenge, ReadRegistered, AttemptRefused,
            AttemptConfused, AttemptFails, AttemptCancelled, Attempting, Expected, Heard, classify, Upset
<1>6. CASE SessionStep(j)
    BY <1>0, <1>1, <1>3, <1>4, <1>6 DEF SessionStep, HearPing, HearPong, HearShutdown, HearError,
            HearOpen, StartGoodbye, GoodbyeEnds, Running, Heard, classify, Upset
<1>7. CASE \/ Dial(j) \/ SessionEnds(j) \/ ClientPongDeadline(j) \/ ClientPingTick(j)
           \/ RunCancelled(j) \/ Interrupt(j) \/ Kill(j)
    BY <1>0, <1>1, <1>3, <1>4, <1>7 DEF Dial, SessionEnds, ClientPongDeadline, ClientPingTick, RunCancelled,
            Interrupt, Kill
<1> QED
    BY <1>2, <1>5, <1>6, <1>7 DEF ProcessStep

\* A client whose session is registered reads no such frame, but an OPEN that has
\* overtaken REGISTERED.
LEMMA NothingUpsets ==
    ASSUME Conversing, NEW i \in Instance, csession[i] \in Live, Upset(i)
    PROVE  cphase[i] = "proving" /\ Heard(i, "Open")
<1>1. PICK s \in Session : s = csession[i]
    BY DEF Live
<1>2. /\ s # None /\ s \in Live /\ s \notin cut /\ down[s] # <<>> /\ Typed(s)
      /\ phase[s] \notin Unregistered
    BY <1>1, IdentityAssumption DEF Conversing, Dialogue, Upset, TunnelInvariant, Ownership, RegistersOnce,
            TunnelTypes, ServerFrames, Linked, Typed
<1>3. Talks(cphase[i], s)
    BY <1>1, <1>2 DEF Conversing, Dialogue, Stage, Hopeful
<1>4. Stream(s) \in Seq(Sound) /\ Stream(s) # <<>> /\ Head(Stream(s)) = Head(down[s])
    BY <1>2, Streams DEF Stream, Typed
<1>5. CASE cphase[i] = "hello"
    BY <1>2, <1>3, <1>5 DEF Talks, HelloStage, Unregistered
<1>6. CASE cphase[i] = "running"
    <2>1. Head(down[s]).ty \in {"Open", "Ping", "Pong"}
        BY <1>3, <1>4, <1>6, OnlyQueue DEF Talks, RunningStage
    <2> QED
        BY <1>1, <1>6, <2>1 DEF Upset
<1>7. CASE cphase[i] = "proving"
    <2>1. ProvingStage(s)
        BY <1>3, <1>7 DEF Talks
    <2>2. Head(down[s]).ty \in {"Open", "Registered"}
        <3>1. CASE phase[s] \in Waiting
            BY <1>4, <2>1, <3>1 DEF ProvingStage
        <3>2. CASE phase[s] = "granted"
            BY <1>4, <2>1, <3>2, OnlyQueue DEF ProvingStage
        <3>3. CASE phase[s] \notin Early
            BY <1>4, <2>1, <3>3, Greetings DEF ProvingStage
        <3> QED
            BY <3>1, <3>2, <3>3 DEF Waiting, Early
    <2>3. ASSUME Head(down[s]).ty = "Registered" PROVE asked[s].port \in {0, Head(down[s]).num}
        <3>1. Head(down[s]) \in Carried(down[s])
            BY <1>2, CarriedQueue DEF Typed
        <3>2. Head(down[s]).num = sessions[s].port
            BY <1>2, <2>3, <3>1 DEF Conversing, ToldItsPort
        <3> QED
            BY <1>2, <3>2 DEF Conversing, Placed
    <2> QED
        BY <1>1, <1>7, <2>2, <2>3 DEF Upset, Heard
<1> QED
    BY <1>5, <1>6, <1>7 DEF Upset

\* A client exits with an error only when the server has given its session up:
\* whatever is cut, cancelled or full, and whoever else connects, a process whose
\* tunnel is registered reads no ERROR and no frame out of turn, save an OPEN that
\* overtakes REGISTERED (control.rs: serve, session_loop; registry.rs: register,
\* request; client/control.rs: register, run_session, classify).
THEOREM ErrorForCauseHolds == TunnelSpec => ErrorForCause
<1>1. TunnelInit => Conversing
    <2> SUFFICES ASSUME TunnelInit PROVE Conversing
        OBVIOUS
    <2>1. Live = {} /\ \A s \in Session : Carried(writer[s]) = {} /\ Carried(down[s]) = {}
        BY CarriedQueue DEF TunnelInit, Init, ClientInit, Live, NoRef
    <2>2. ServedAsAsked /\ ToldItsPort /\ Placed
        BY <2>1 DEF TunnelInit, Init, ClientInit, ServedAsAsked, ToldItsPort, Placed
    <2>3. ASSUME NEW s \in Session PROVE NewStage(s)
        <3>1. writer[s] = <<>> /\ up[s] = <<>> /\ down[s] = <<>> /\ phase[s] = "new"
            BY DEF TunnelInit, Init, ClientInit
        <3>2. <<>> \o <<>> = <<>>
            OBVIOUS
        <3> QED
            BY <3>1, <3>2 DEF NewStage, Stream
    <2>4. left = {} /\ cut = {} /\ \A i \in Instance : csession[i] = None
        BY DEF TunnelInit, ClientInit
    <2>5. Dialogue
        BY <2>3, <2>4 DEF Dialogue, Stage, Talks
    <2> QED
        BY <2>2, <2>5, TunnelStarts DEF Conversing
<1>2. Conversing /\ RegistryDown /\ [TunnelNext]_tunnelVars => Conversing'
    <2> SUFFICES ASSUME Conversing, RegistryDown, [TunnelNext]_tunnelVars PROVE Conversing'
        OBVIOUS
    <2>1. TunnelInvariant' /\ [Next]_vars
        BY TunnelKeeps DEF Conversing
    <2>2. TypeOK /\ RegistersOnce /\ ServerFrames /\ ClientSide
        BY DEF Conversing, TunnelInvariant, Ownership, TunnelTypes, ClientSide
    <2>3. ServedAsAsked' /\ ToldItsPort'
        BY <2>1, <2>2, ServedNext, ToldNext DEF Conversing
    <2>4. Dialogue' /\ Placed'
        BY <2>1, <2>2, DialogueNext, PlacedNext DEF Conversing
    <2> QED
        BY <2>1, <2>3, <2>4 DEF Conversing
<1>3. Conversing /\ [TunnelNext]_tunnelVars => ErrorStep
    <2>1. Conversing => ClientSide
        BY DEF Conversing, TunnelInvariant, TunnelTypes, ClientSide
    <2> QED
        BY <2>1, ErrorExit, NothingUpsets DEF ErrorStep
<1>4. TunnelSpec => []RegistryDown
    BY ServerInTunnel, ListenerInvariant, PTL
<1> QED
    BY <1>1, <1>2, <1>3, <1>4, PTL DEF TunnelSpec, ErrorForCause

=============================================================================
