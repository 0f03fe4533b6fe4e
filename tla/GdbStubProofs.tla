--------------------------- MODULE GdbStubProofs ---------------------------
(***************************************************************************)
(* Theorems about the GDB stub and its client, for every set of registers, *)
(* every guest and every sequence of requests and faults.                  *)
(*                                                                         *)
(* The invariant has three layers.  StubTypes needs nothing else.          *)
(* Conversation says how far the two ends are in the exchange of one       *)
(* request, by what is in flight on the connection.  Truth says what the   *)
(* packet in flight and the client's view have to do with the guest.       *)
(***************************************************************************)
EXTENDS GdbStub, SequenceTheorems, TLAPS

\* The packets the stub sends.
Replies ==
  [op : {"T"}, rip : Values] \cup [op : {"g"}, regs : RegisterFile]
    \cup [op : {"p"}, val : Values] \cup [op : {"m"}, int3 : BOOLEAN]
    \cup [op : {"S", "text", "empty", "OK", "E", "X"}]

\* What may be in flight in one direction, for the bodies of its frames.
Frames(bodies) == [kind : {"frame"}, n : Nat, body : bodies, good : BOOLEAN]
Messages(bodies) == {Ack, Nak, Break} \cup Frames(bodies)
StubFrames == Frames(Asks)
ClientFrames == Frames(Replies)

Packets == {"notify", "reply", "bye"}       \* inside putpacket

(***************************************************************************)
(* Types of everything but the client's view: the state, and what is in    *)
(* flight towards the stub and towards the client.                         *)
(***************************************************************************)
StateTypes ==
  /\ phase \in {"accept", "notify", "serve", "reply", "run", "bye", "ended"}
  /\ vcpu \in RegisterFile
  /\ memory \in [Values -> BOOLEAN]
  /\ registers \in RegisterFile
  /\ singlestep \in BOOLEAN
  /\ cphase \in {"stop", "idle", "ack", "reply", "gone"}
  /\ request \in Asks \cup {[op |-> "c"]}
  /\ cphase \in {"ack", "reply"} => request \in Asks /\ asked > 0
  /\ served \in 0..asked
  /\ asked \in 0..MaxRequests
  /\ faults \in 0..MaxFaults
  /\ connected \in BOOLEAN
  /\ ~connected => cphase = "gone"

StubQueue ==
  /\ toStub \in Seq(Messages(Asks))
  /\ \A i \in 1..Len(toStub) : toStub[i] \in StubFrames => toStub[i].n <= asked

ClientQueue == remcomOutBuffer \in Replies /\ toClient \in Seq(Messages(Replies))

StubTypes == StateTypes /\ StubQueue /\ ClientQueue

-----------------------------------------------------------------------------
(***************************************************************************)
(* Patterns of the two queues.                                             *)
(***************************************************************************)
\* Characters that make putpacket send its packet again.
Again(m) == m \in {Nak, Break}

\* Copies of the packet putpacket is sending.
Copy(m) == m \in ClientFrames /\ m.n = asked /\ m.body = remcomOutBuffer

OnlyAgain(s) == \A i \in 1..Len(s) : Again(s[i])
OnlyFrames(s) == \A i \in 1..Len(s) : s[i] \in ClientFrames
OnlyCopies(s) == \A i \in 1..Len(s) : Copy(s[i])

\* Overlong requests the stub will pass over, the client's request the last.
Unread(s) ==
  \A i \in 1..Len(s) :
    /\ s[i] \in StubFrames
    /\ \/ s[i].body.op = "overlong"
       \/ cphase = "ack" /\ i = Len(s) /\ s[i].n = asked /\ s[i].body = request

\* An acknowledgement ends the stub's wait; requests come after it.
AckedAt(s, k) ==
  /\ k \in 1..Len(s)
  /\ s[k] = Ack
  /\ \A i \in 1..(k - 1) : Again(s[i])
  /\ \A i \in (k + 1)..Len(s) :
       /\ s[i] \in StubFrames
       /\ \/ s[i].body.op = "overlong"
          \/ cphase = "ack" /\ i = Len(s) /\ s[i].n = asked /\ s[i].body = request

\* Old packets, the acknowledgement of the request, copies of the answer.
TakenAt(s, k) ==
  /\ k \in 1..Len(s)
  /\ s[k] = Ack
  /\ \A i \in 1..(k - 1) : s[i] \in ClientFrames
  /\ \A i \in (k + 1)..Len(s) : Copy(s[i])

-----------------------------------------------------------------------------
(***************************************************************************)
(* The conversation, one formula for each part of an exchange.             *)
(***************************************************************************)
\* The packet the stub is sending answers the client's request.
Answering ==
  /\ phase \in Packets
  /\ remcomOutBuffer.op \in Expected(request)
  /\ phase = "bye" <=> remcomOutBuffer.op = "X"
  /\ phase = "notify" <=> remcomOutBuffer.op = "T"

\* The client waits, the guest has not stopped.
Resumed ==
  /\ cphase = "stop"
  /\ phase \in {"accept", "run"}
  /\ phase = "accept" <=> asked = 0
  /\ request.op \in {"s", "c"}
  /\ served = asked
  /\ toClient = << >>
  /\ OnlyAgain(toStub)

\* The client waits for the packet that the stub is sending.
Awaiting ==
  /\ cphase = IF request.op \in {"s", "c"} THEN "stop" ELSE "reply"
  /\ request.op \notin {"k", "overlong"}
  /\ served = asked
  /\ Answering
  /\ OnlyCopies(toClient)
  /\ OnlyAgain(toStub)

\* The client has its packet; its request, if any, is on its way.
Settled ==
  /\ cphase \in {"idle", "ack"}
  /\ cphase = "ack" => served < asked
  /\ OnlyFrames(toClient)
  /\ \/ phase = "serve" /\ Unread(toStub)
     \/ phase \in {"notify", "reply"} /\ \E k \in 1..Len(toStub) : AckedAt(toStub, k)

\* The stub has refused a garbled request.
Refused ==
  /\ cphase = "ack"
  /\ request.op # "overlong"
  /\ served < asked
  /\ phase = "serve"
  /\ toStub = << >>
  /\ \E k \in 1..Len(toClient) :
       /\ k = Len(toClient)
       /\ toClient[k] = Nak
       /\ \A i \in 1..(k - 1) : toClient[i] \in ClientFrames

\* The stub has taken the request; the client has not read the acknowledgement.
Taken ==
  /\ cphase = "ack"
  /\ served = asked
  /\ asked > 0
  /\ request.op # "overlong"
  /\ toStub = << >>
  /\ \E k \in 1..Len(toClient) :
       /\ TakenAt(toClient, k)
       /\ phase \in {"run", "ended"} => k = Len(toClient)
  /\ \/ phase = "run" /\ request.op \in {"s", "c"}
     \/ phase = "ended" /\ request.op = "k"
     \/ Answering /\ request.op # "k"

Conversation == cphase # "gone" => Resumed \/ Awaiting \/ Settled \/ Refused \/ Taken

-----------------------------------------------------------------------------
(***************************************************************************)
(* What is known of the guest.                                             *)
(***************************************************************************)
\* The stub's copy holds the guest's registers while the guest is stopped.
Stopped ==
  /\ phase \in {"accept", "notify", "serve", "reply"} =>
       \A r \in General : registers[r] = vcpu[r]
  /\ phase = "notify" => remcomOutBuffer.op = "T" /\ remcomOutBuffer.rip = vcpu["RIP"]

\* The view is right but for the registers in the set.
FitsBut(set) == \A r \in General \ set : view[r] # Unknown => view[r] = vcpu[r]

\* The request has been carried out and the client does not know it yet.
Pending == cphase \in {"ack", "stop", "reply"} /\ served = asked

\* The packet in flight tells the truth, and so does what it leaves of the view.
AnswerTrue ==
  phase = "reply" =>
    CASE remcomOutBuffer.op = "g" -> \A r \in General : remcomOutBuffer.regs[r] = vcpu[r]
      [] remcomOutBuffer.op = "p" ->
           /\ request.reg \in General => remcomOutBuffer.val = vcpu[request.reg]
           /\ FitsBut({})
      [] remcomOutBuffer.op = "OK" /\ request.op = "G" ->
           \A r \in General : request.regs[r] = vcpu[r]
      [] remcomOutBuffer.op = "OK" /\ request.op = "P" ->
           /\ request.reg \in General => request.val = vcpu[request.reg]
           /\ FitsBut({request.reg})
      [] OTHER -> FitsBut({})

\* What the guest does for the request, and what the stop packet says of it.
ResumeTrue ==
  asked > 0 /\ request.op \in {"s", "c"} =>
    /\ phase = "run" =>
         /\ singlestep = (request.op = "s")
         /\ request.op = "s" => vcpu["RIP"] = view["RIP"]
    /\ phase = "notify" =>
         IF request.op = "c"
           THEN memory[remcomOutBuffer.rip]
           ELSE \/ remcomOutBuffer.rip = (view["RIP"] + 1) % N
                \/ memory[view["RIP"]]

Truth ==
  /\ view \in [Registers -> Values \cup {Unknown}]
  /\ Stopped
  /\ cphase # "gone" =>
       /\ asked > 0 \/ cphase = "idle" => view["RIP"] # Unknown
       /\ cphase = "idle" \/ served < asked => FitsBut({})
       /\ Pending => AnswerTrue /\ ResumeTrue

-----------------------------------------------------------------------------
(***************************************************************************)
(* What is in a request and in a packet.                                   *)
(***************************************************************************)
LEMMA RequestShape ==
  ASSUME NEW r \in Requests
  PROVE  /\ r.op \in {"?", "d", "g", "s", "c", "k", "qRcmd", "other", "overlong",
                       "p", "P", "m", "M", "G"}
         /\ IsBad(r) => r.op \in {"p", "P", "m", "M"}
         /\ r.op = "G" => r.regs \in RegisterFile
         /\ r.op = "P" /\ ~IsBad(r) => r.reg \in Registers /\ r.val \in Values
         /\ r.op = "p" /\ ~IsBad(r) => r.reg \in Registers
         /\ r.op = "m" /\ ~IsBad(r) => r.addr \in Values
         /\ r.op = "M" /\ ~IsBad(r) => r.addr \in Values /\ r.int3 \in BOOLEAN
<1>1. CASE r \in [op : {"?", "d", "g", "s", "c", "k", "qRcmd", "other", "overlong"}]
  BY <1>1 DEF IsBad
<1>2. CASE r \in [op : {"p", "P", "m", "M"}, bad : {TRUE}]
  BY <1>2 DEF IsBad
<1>3. CASE r \in [op : {"p"}, reg : Registers]
  BY <1>3 DEF IsBad
<1>4. CASE r \in [op : {"P"}, reg : Registers, val : Values]
  BY <1>4 DEF IsBad
<1>5. CASE r \in [op : {"G"}, regs : RegisterFile]
  BY <1>5 DEF IsBad
<1>6. CASE r \in [op : {"m"}, addr : Values]
  BY <1>6 DEF IsBad
<1>7. CASE r \in [op : {"M"}, addr : Values, int3 : BOOLEAN]
  BY <1>7 DEF IsBad
<1> QED
  BY <1>1, <1>2, <1>3, <1>4, <1>5, <1>6, <1>7 DEF Requests

LEMMA ReplyShape ==
  ASSUME NEW b \in Replies
  PROVE  /\ b.op = "T" => b.rip \in Values
         /\ b.op = "g" => b.regs \in RegisterFile
         /\ b.op = "p" => b.val \in Values
  BY DEF Replies

\* The client's request is one of Asks, or the continue it starts with.
LEMMA RequestKnown ==
  ASSUME StubTypes
  PROVE  request \in Requests
<1>1. [op |-> "c"] \in Requests
  BY DEF Requests
<1> QED
  BY <1>1, GdbAssumption DEF StubTypes, StateTypes

\* What the stub answers is a packet, and the one that is expected.
LEMMA AnswerShape ==
  ASSUME NEW r \in Requests, r.op \notin {"s", "c", "k", "overlong"},
         registers \in RegisterFile, memory \in [Values -> BOOLEAN]
  PROVE  /\ answer(r) \in Replies
         /\ answer(r).op \in Expected(r)
         /\ answer(r).op \notin {"X", "T"}
<1>1. CASE IsBad(r)
  <2>1. answer(r) = [op |-> "E"]
    BY <1>1, RequestShape DEF answer
  <2>2. "E" \in Expected(r)
    BY <1>1, RequestShape DEF Expected, IsBad
  <2> QED
    BY <2>1, <2>2 DEF Replies
<1>2. CASE ~IsBad(r) /\ r.op \in {"?", "qRcmd", "d", "other"}
  <2>1. answer(r) \in [op : {"S", "text", "empty"}]
    BY <1>2, RequestShape DEF answer
  <2>2. Expected(r) = {"S", "text", "empty"}
    BY <1>2, RequestShape DEF Expected, IsBad
  <2> QED
    BY <2>1, <2>2 DEF Replies
<1>3. CASE ~IsBad(r) /\ r.op = "g"
  <2>1. answer(r) = [op |-> "g", regs |-> registers]
    BY <1>3, RequestShape DEF answer
  <2>2. Expected(r) = {"g"}
    BY <1>3, RequestShape DEF Expected, IsBad
  <2> QED
    BY <2>1, <2>2 DEF Replies
<1>4. CASE ~IsBad(r) /\ r.op = "p"
  <2>1. answer(r) = [op |-> "p", val |-> registers[r.reg]]
    BY <1>4, RequestShape DEF answer
  <2>2. Expected(r) = {"p"}
    BY <1>4, RequestShape DEF Expected, IsBad
  <2>3. registers[r.reg] \in Values
    BY <1>4, RequestShape DEF RegisterFile
  <2> QED
    BY <2>1, <2>2, <2>3 DEF Replies
<1>5. CASE ~IsBad(r) /\ r.op = "m"
  <2>1. answer(r) = [op |-> "m", int3 |-> memory[r.addr]]
    BY <1>5, RequestShape DEF answer
  <2>2. Expected(r) = {"m"}
    BY <1>5, RequestShape DEF Expected, IsBad
  <2>3. memory[r.addr] \in BOOLEAN
    BY <1>5, RequestShape
  <2> QED
    BY <2>1, <2>2, <2>3 DEF Replies
<1>6. CASE ~IsBad(r) /\ r.op \in {"G", "P", "M"}
  <2>1. answer(r) = [op |-> "OK"]
    BY <1>6, RequestShape DEF answer
  <2>2. Expected(r) = {"OK"}
    BY <1>6, RequestShape DEF Expected, IsBad
  <2> QED
    BY <2>1, <2>2 DEF Replies
<1> QED
  BY <1>1, <1>2, <1>3, <1>4, <1>5, <1>6, RequestShape

\* A resumed guest is reported with a stop or an exit packet.
LEMMA StopExpected ==
  ASSUME NEW r \in Requests, r.op \in {"s", "c"}
  PROVE  Expected(r) = {"T", "X"}
  BY RequestShape DEF Expected, IsBad

(***************************************************************************)
(* The elements of a queue after a message is taken from it or put into    *)
(* it, and after its first one is garbled.                                 *)
(***************************************************************************)
LEMMA Taking ==
  ASSUME NEW S, NEW s \in Seq(S), s # << >>
  PROVE  /\ Head(s) \in S
         /\ Head(s) = s[1]
         /\ Tail(s) \in Seq(S)
         /\ Len(s) \in Nat \ {0}
         /\ Len(Tail(s)) = Len(s) - 1
         /\ \A i \in 1..Len(Tail(s)) : Tail(s)[i] = s[i + 1] /\ i + 1 \in 1..Len(s)
  OBVIOUS

LEMMA Putting ==
  ASSUME NEW S, NEW s \in Seq(S), NEW m \in S
  PROVE  /\ Append(s, m) \in Seq(S)
         /\ Len(s) \in Nat
         /\ Len(Append(s, m)) = Len(s) + 1
         /\ Append(s, m)[Len(s) + 1] = m
         /\ \A i \in 1..Len(s) : Append(s, m)[i] = s[i] /\ i \in 1..Len(Append(s, m))
         /\ \A i \in 1..Len(Append(s, m)) : i \in 1..Len(s) \/ i = Len(s) + 1
  OBVIOUS

LEMMA Garbling ==
  ASSUME NEW B, NEW s \in Seq(Messages(B)), garbled(s)
  PROVE  /\ garble(s) \in Seq(Messages(B))
         /\ Len(garble(s)) = Len(s)
         /\ s[1] \in Frames(B) /\ garble(s)[1] \in Frames(B)
         /\ garble(s)[1].n = s[1].n /\ garble(s)[1].body = s[1].body
         /\ \A i \in 1..Len(s) : i # 1 => garble(s)[i] = s[i]
<1> DEFINE m == [s[1] EXCEPT !.good = FALSE]
<1>1. 1 \in 1..Len(s) /\ s[1].kind = "frame" /\ s[1] \in Messages(B)
  BY DEF garbled
<1>2. s[1] \in Frames(B)
  BY <1>1 DEF Messages, Ack, Nak, Break
<1>3. m \in Frames(B) /\ m.n = s[1].n /\ m.body = s[1].body
  BY <1>2 DEF Frames
<1>4. garble(s) = [s EXCEPT ![1] = m]
  BY DEF garble
<1> HIDE DEF m
<1>5. m \in Messages(B)
  BY <1>3 DEF Messages
<1>6. /\ garble(s) \in Seq(Messages(B))
      /\ Len(garble(s)) = Len(s)
      /\ \A i \in 1..Len(s) : garble(s)[i] = IF i = 1 THEN m ELSE s[i]
  BY <1>1, <1>4, <1>5, ExceptSeq
<1> QED
  BY <1>1, <1>2, <1>3, <1>6

\* putpacket appends its frame, after an acknowledgement or not.
LEMMA Sending ==
  ASSUME NEW s \in Seq(Messages(Replies)), NEW n \in Nat, NEW b \in Replies
  PROVE  /\ Frame(n, b) \in ClientFrames
         /\ Frame(n, b) \in Messages(Replies)
         /\ Frame(n, b).n = n /\ Frame(n, b).body = b
         /\ s \o << >> \o <<Frame(n, b)>> = Append(s, Frame(n, b))
         /\ s \o <<Ack>> \o <<Frame(n, b)>> = Append(Append(s, Ack), Frame(n, b))
<1>1. Frame(n, b) \in ClientFrames /\ Frame(n, b).n = n /\ Frame(n, b).body = b
  BY DEF Frame, ClientFrames, Frames
<1>2. Frame(n, b) \in Messages(Replies) /\ Ack \in Messages(Replies)
  BY <1>1 DEF Messages, ClientFrames
<1>3. ASSUME NEW x \in Messages(Replies)
      PROVE  /\ s \o << >> \o <<x>> = Append(s, x)
             /\ s \o <<Ack>> \o <<x>> = Append(Append(s, Ack), x)
  <2>1. s \o << >> = s /\ s \o <<x>> = Append(s, x)
    BY <1>3
  <2>2. s \o <<Ack>> = Append(s, Ack) /\ Append(s, Ack) \in Seq(Messages(Replies))
    BY <1>2
  <2>3. Append(s, Ack) \o <<x>> = Append(Append(s, Ack), x)
    BY <2>2, <1>3
  <2> QED
    BY <2>1, <2>2, <2>3
<1> QED
  BY <1>1, <1>2, <1>3

\* The client's frames.
LEMMA Asking ==
  ASSUME NEW n \in Nat, NEW r \in Asks
  PROVE  /\ Frame(n, r) \in StubFrames
         /\ Frame(n, r) \in Messages(Asks)
         /\ Frame(n, r).n = n /\ Frame(n, r).body = r
<1>1. Frame(n, r) \in StubFrames /\ Frame(n, r).n = n /\ Frame(n, r).body = r
  BY DEF Frame, StubFrames, Frames
<1> QED
  BY <1>1 DEF Messages, StubFrames

\* A message is a frame or one of the characters, and never both.
LEMMA MessageKinds ==
  ASSUME NEW B, NEW m \in Messages(B)
  PROVE  /\ m.kind = "frame" <=> m \in Frames(B)
         /\ m \in Frames(B) => /\ m.n \in Nat /\ m.body \in B /\ m.good \in BOOLEAN
                               /\ m \notin {Ack, Nak, Break}
         /\ Ack \notin {Nak, Break} /\ Nak # Break
         /\ {Ack, Nak, Break} \subseteq Messages(B)
  BY DEF Messages, Frames, Ack, Nak, Break

LEMMA NextInstruction ==
  ASSUME NEW v \in Values
  PROVE  (v + 1) % N \in Values
  BY GdbAssumption DEF Values

-----------------------------------------------------------------------------
(***************************************************************************)
(* First layer: types.                                                     *)
(***************************************************************************)
LEMMA TypesInit == GdbInit => StubTypes
<1> SUFFICES ASSUME GdbInit PROVE StubTypes
  OBVIOUS
<1>1. [r \in Registers |-> 0] \in RegisterFile
  BY GdbAssumption DEF RegisterFile, Values
<1>2. [op |-> "empty"] \in Replies
  BY DEF Replies
<1> QED
  <2>1. StateTypes
    <3>1. /\ vcpu \in RegisterFile /\ registers \in RegisterFile
          /\ memory \in [Values -> BOOLEAN]
      BY <1>1 DEF GdbInit
    <3>2. /\ phase = "accept" /\ cphase = "stop" /\ request = [op |-> "c"]
          /\ singlestep \in BOOLEAN /\ connected = TRUE
          /\ asked = 0 /\ served = 0 /\ faults = 0
      BY DEF GdbInit
    <3>3. 0 \in 0..MaxRequests /\ 0 \in 0..MaxFaults /\ 0 \in 0..0
      BY GdbAssumption
    <3> QED
      BY <3>1, <3>2, <3>3 DEF StateTypes
  <2>2. StubQueue /\ ClientQueue
    BY <1>2 DEF GdbInit, StubQueue, ClientQueue
  <2> QED
    BY <2>1, <2>2 DEF StubTypes

\* The stub takes the first message.
LEMMA StubTakes ==
  ASSUME StubTypes, toStub # << >>, toStub' = Tail(toStub), asked' = asked
  PROVE  StubQueue'
<1>1. /\ Tail(toStub) \in Seq(Messages(Asks))
      /\ \A i \in 1..Len(Tail(toStub)) :
           Tail(toStub)[i] = toStub[i + 1] /\ i + 1 \in 1..Len(toStub)
  BY Taking DEF StubTypes, StubQueue
<1> QED
  BY <1>1 DEF StubTypes, StubQueue

\* The client sends one message.
LEMMA ClientSends ==
  ASSUME StubTypes, asked' \in Nat, asked <= asked',
         NEW m \in Messages(Asks), m \in StubFrames => m.n <= asked',
         toStub' = Append(toStub, m)
  PROVE  StubQueue'
<1>1. /\ Append(toStub, m) \in Seq(Messages(Asks))
      /\ Append(toStub, m)[Len(toStub) + 1] = m
      /\ \A i \in 1..Len(toStub) : Append(toStub, m)[i] = toStub[i]
      /\ \A i \in 1..Len(Append(toStub, m)) : i \in 1..Len(toStub) \/ i = Len(toStub) + 1
  BY Putting DEF StubTypes, StubQueue
<1>2. ASSUME NEW i \in 1..Len(toStub), toStub[i] \in StubFrames
      PROVE  toStub[i].n <= asked'
  <2>1. toStub[i].n <= asked /\ toStub[i].n \in Nat /\ asked \in Nat
    BY <1>2 DEF StubTypes, StateTypes, StubQueue, StubFrames, Frames
  <2> QED
    BY <2>1
<1> QED
  BY <1>1, <1>2 DEF StubQueue

\* The stub sends one message, or an acknowledgement and a packet.
LEMMA StubSends ==
  ASSUME StubTypes, NEW m \in Messages(Replies), remcomOutBuffer' = remcomOutBuffer,
         toClient' = Append(toClient, m)
  PROVE  ClientQueue'
  BY Putting DEF StubTypes, ClientQueue

LEMMA StubAnswers ==
  ASSUME StubTypes, NEW n \in Nat, NEW b \in Replies, NEW before \in {<< >>, <<Ack>>},
         NEW next, putpacket(n, before, b, next)
  PROVE  ClientQueue' /\ phase' = next
<1>1. toClient \in Seq(Messages(Replies)) /\ Ack \in Messages(Replies)
  BY DEF StubTypes, ClientQueue, Messages
<1>2. Append(toClient, Ack) \in Seq(Messages(Replies))
  BY <1>1, Putting
<1>3. /\ Frame(n, b) \in Messages(Replies)
      /\ toClient \o << >> \o <<Frame(n, b)>> = Append(toClient, Frame(n, b))
      /\ toClient \o <<Ack>> \o <<Frame(n, b)>> = Append(Append(toClient, Ack), Frame(n, b))
  BY <1>1, Sending
<1>4. /\ Append(toClient, Frame(n, b)) \in Seq(Messages(Replies))
      /\ Append(Append(toClient, Ack), Frame(n, b)) \in Seq(Messages(Replies))
  BY <1>1, <1>2, <1>3, Putting
<1>5. toClient' = toClient \o before \o <<Frame(n, b)>> /\ remcomOutBuffer' = b /\ phase' = next
  BY DEF putpacket
<1> QED
  BY <1>3, <1>4, <1>5 DEF ClientQueue

\* Registers after a G or P request.
LEMMA SetTypes ==
  ASSUME StateTypes, NEW r \in Requests, r.op \in {"G", "P"}, ~IsBad(r), set_registers(r)
  PROVE  registers' \in RegisterFile /\ vcpu' \in RegisterFile
<1> DEFINE cache == IF r.op = "G" THEN r.regs ELSE [registers EXCEPT ![r.reg] = r.val]
<1>1. cache \in RegisterFile
  BY RequestShape DEF StateTypes, RegisterFile
<1>2. registers' = cache /\ vcpu' = kvm_load_registers_from_gdbcache(cache)
  BY DEF set_registers
<1> HIDE DEF cache
<1>3. kvm_load_registers_from_gdbcache(cache) \in RegisterFile
  BY <1>1 DEF kvm_load_registers_from_gdbcache, StateTypes, RegisterFile, Registers
<1> QED
  BY <1>1, <1>2, <1>3

LEMMA TypesStep == StubTypes /\ [GdbNext]_gdbVars => StubTypes'
<1> SUFFICES ASSUME StubTypes, [GdbNext]_gdbVars PROVE StubTypes'
  OBVIOUS
<1> USE DEF StubTypes
<1>a. served \in Nat /\ asked \in Nat
  BY DEF StateTypes
<1>b. {Ack, Nak, Break} \subseteq Messages(Asks) /\ {Ack, Nak, Break} \subseteq Messages(Replies)
  BY DEF Messages
<1>c. ASSUME NEW r \in Registers PROVE vcpu[r] \in Values /\ registers[r] \in Values
  BY DEF StateTypes, RegisterFile
<1>d. "RIP" \in Registers
  BY GdbAssumption DEF Registers
<1>e. ASSUME UNCHANGED <<toStub, asked>> PROVE StubQueue'
  BY <1>e DEF StubQueue
<1>f. ASSUME UNCHANGED <<toClient, remcomOutBuffer>> PROVE ClientQueue'
  BY <1>f DEF ClientQueue
<1>g. ASSUME NEW v \in Values PROVE [op |-> "T", rip |-> v] \in Replies
  BY DEF Replies
<1>1. CASE gdbserver_start
  <2>1. putpacket(served, << >>, stop_packet(registers), "notify")
    BY <1>1 DEF gdbserver_start
  <2>2. stop_packet(registers) \in Replies
    BY <1>c, <1>d, <1>g DEF stop_packet
  <2>3. ClientQueue' /\ phase' = "notify"
    BY <2>1, <2>2, <1>a, StubAnswers
  <2>4. StateTypes' /\ StubQueue'
    BY <1>1, <2>3, <1>e DEF gdbserver_start, StateTypes, guest, client
  <2> QED
    BY <2>3, <2>4
<1>2. CASE putpacket_wait
  <2>1. StubQueue'
    BY <1>2, StubTakes DEF putpacket_wait, client
  <2>2. ClientQueue' /\ phase' \in {"notify", "reply", "bye", "ended", "serve"}
    <3>1. CASE Head(toStub) = Ack
      BY <1>2, <3>1, <1>f DEF putpacket_wait, after_putpacket
    <3>2. CASE Head(toStub) # Ack
      <4>1. putpacket(served, << >>, remcomOutBuffer, phase)
        BY <1>2, <3>2 DEF putpacket_wait
      <4>2. ClientQueue' /\ phase' = phase
        BY <4>1, <1>a, StubAnswers DEF ClientQueue
      <4> QED
        BY <4>2, <1>2 DEF putpacket_wait
    <3> QED
      BY <3>1, <3>2
  <2>3. StateTypes'
    BY <1>2, <2>2 DEF putpacket_wait, StateTypes, guest, client
  <2> QED
    BY <2>1, <2>2, <2>3
<1>3. CASE putpacket_eof
  BY <1>3, <1>e, <1>f DEF putpacket_eof, after_putpacket, StateTypes, guest, client
<1>4. CASE gdbserver_handle_exception
  <2> DEFINE m == Head(toStub)
  <2>1. StubQueue'
    BY <1>4, StubTakes DEF gdbserver_handle_exception, client
  <2>2. m \in Messages(Asks) /\ (m \in StubFrames => m.n <= asked)
    BY <1>4, Taking DEF gdbserver_handle_exception, StubQueue
  <2>3. getpacket(m) /\ UNCHANGED <<connected, client, faults>>
    BY <1>4 DEF gdbserver_handle_exception
  <2> HIDE DEF m
  <2>4. CASE m.kind # "frame" \/ (m.kind = "frame" /\ m.body.op = "overlong")
    <3>1. UNCHANGED <<phase, guest, registers, singlestep, remcomOutBuffer, toClient, served>>
      BY <2>3, <2>4 DEF getpacket
    <3> QED
      BY <3>1, <2>1, <2>3, <1>f DEF StateTypes, guest, client
  <2>5. CASE m.kind = "frame" /\ m.body.op # "overlong" /\ ~m.good
    <3>1. /\ toClient' = Append(toClient, Nak)
          /\ UNCHANGED <<phase, guest, registers, singlestep, remcomOutBuffer, served>>
      BY <2>3, <2>5 DEF getpacket
    <3>2. ClientQueue'
      BY <3>1, <1>b, StubSends
    <3> QED
      BY <3>1, <3>2, <2>1, <2>3 DEF StateTypes, guest, client
  <2>6. CASE m.kind = "frame" /\ m.body.op # "overlong" /\ m.good
    <3> DEFINE r == m.body
    <3>1. served' = m.n /\ (process_request(r) \/ process_resume(r))
      BY <2>3, <2>6 DEF getpacket
    <3>2. m \in StubFrames /\ m.n \in Nat /\ r \in Asks
      BY <2>2, <2>6, MessageKinds DEF StubFrames
    <3>3. r \in Requests /\ r.op # "overlong"
      BY <3>2, <2>6, GdbAssumption
    <3> HIDE DEF r
    <3>4. served' \in 0..asked' /\ served' \in Nat
      BY <3>1, <3>2, <2>2, <2>3, <1>a DEF client
    <3>5. CASE process_request(r)
      <4>1. r.op \notin {"s", "c", "k", "overlong"} /\ putpacket(served', <<Ack>>, answer(r), "reply")
        BY <3>5, <3>3 DEF process_request
      <4>2. answer(r) \in Replies
        BY <4>1, <3>3, AnswerShape DEF StateTypes
      <4>3. ClientQueue' /\ phase' = "reply"
        BY <4>1, <4>2, <3>4, StubAnswers
      <4>4. registers' \in RegisterFile /\ vcpu' \in RegisterFile
        <5>1. CASE r.op \in {"G", "P"} /\ ~IsBad(r)
          BY <5>1, <3>5, <3>3, SetTypes DEF process_request
        <5>2. CASE ~(r.op \in {"G", "P"} /\ ~IsBad(r))
          BY <5>2, <3>5 DEF process_request, StateTypes
        <5> QED
          BY <5>1, <5>2
      <4>5. memory' \in [Values -> BOOLEAN] /\ UNCHANGED singlestep
        BY <3>5, <3>3, RequestShape DEF process_request, StateTypes
      <4>6. StateTypes'
        BY <4>3, <4>4, <4>5, <3>4, <2>3 DEF StateTypes, client
      <4> QED
        BY <4>3, <4>6, <2>1
    <3>6. CASE process_resume(r)
      <4>1. ClientQueue'
        BY <3>6, <1>b, StubSends DEF process_resume
      <4>2. singlestep' \in BOOLEAN
        BY <3>6 DEF process_resume, kvm_debug_set_step, StateTypes
      <4>3. StateTypes'
        BY <3>6, <4>2, <3>4, <2>3 DEF process_resume, StateTypes, guest, client
      <4> QED
        BY <4>1, <4>3, <2>1
    <3> QED
      BY <3>1, <3>5, <3>6
  <2>7. m.kind = "frame" => m.good \in BOOLEAN
    BY <2>2, MessageKinds
  <2> QED
    BY <2>4, <2>5, <2>6, <2>7
<1>5. CASE KVM_RUN
  <2>1. UNCHANGED <<memory, singlestep, toStub, connected, client, served, faults>>
    BY <1>5 DEF KVM_RUN
  <2> DEFINE here == vcpu["RIP"]
             next == [vcpu EXCEPT !["RIP"] = (here + 1) % N]
  <2>2. here \in Values /\ next \in RegisterFile /\ next["RIP"] \in Values
    BY <1>c, <1>d, NextInstruction DEF StateTypes, RegisterFile
  <2>3. \/ UNCHANGED vcpu /\ kvm_handle_debug_exit(vcpu, here)
        \/ vcpu' = next /\ kvm_handle_debug_exit(next, next["RIP"])
        \/ vcpu' = next /\ UNCHANGED <<phase, registers, remcomOutBuffer, toClient>>
    BY <1>5 DEF KVM_RUN
  <2> HIDE DEF here, next
  <2>4. ASSUME NEW regs \in RegisterFile, NEW pc \in Values, kvm_handle_debug_exit(regs, pc)
        PROVE  ClientQueue' /\ phase' = "notify" /\ registers' \in RegisterFile
    <3>1. /\ registers' = [regs EXCEPT !["RIP"] = pc]
          /\ putpacket(served, << >>, stop_packet(registers'), "notify")
      BY <2>4 DEF kvm_handle_debug_exit
    <3>2. registers' \in RegisterFile /\ registers'["RIP"] \in Values
      BY <3>1, <1>d DEF RegisterFile
    <3>3. stop_packet(registers') \in Replies
      BY <3>2, <1>g DEF stop_packet
    <3> QED
      BY <3>1, <3>2, <3>3, <1>a, StubAnswers
  <2>5. CASE UNCHANGED vcpu /\ kvm_handle_debug_exit(vcpu, here)
    <3>1. ClientQueue' /\ phase' = "notify" /\ registers' \in RegisterFile
      BY <2>5, <2>2, <2>4 DEF StateTypes
    <3> QED
      BY <3>1, <2>1, <2>5, <1>e DEF StateTypes, client
  <2>6. CASE vcpu' = next /\ kvm_handle_debug_exit(next, next["RIP"])
    <3>1. ClientQueue' /\ phase' = "notify" /\ registers' \in RegisterFile
      BY <2>6, <2>2, <2>4
    <3> QED
      BY <3>1, <2>1, <2>2, <2>6, <1>e DEF StateTypes, client
  <2>7. CASE vcpu' = next /\ UNCHANGED <<phase, registers, remcomOutBuffer, toClient>>
    BY <2>1, <2>2, <2>7, <1>e, <1>f DEF StateTypes, client
  <2> QED
    BY <2>3, <2>5, <2>6, <2>7
<1>6. CASE final_exit
  <2>1. [op |-> "X"] \in Replies /\ putpacket(served, << >>, [op |-> "X"], "bye")
    BY <1>6 DEF final_exit, Replies
  <2>2. ClientQueue' /\ phase' = "bye"
    BY <2>1, <1>a, StubAnswers
  <2> QED
    BY <1>6, <2>2, <1>e DEF final_exit, StateTypes, guest, client
<1>7. CASE client_receive
  <2>1. ClientQueue'
    BY <1>7, Taking DEF client_receive, ClientQueue
  <2>2. /\ cphase' \in {"stop", "idle", "ack", "reply", "gone"}
        /\ cphase' \in {"ack", "reply"} => cphase \in {"ack", "reply"}
        /\ connected => connected'
        /\ cphase # "gone"
    BY <1>7 DEF client_receive, client_receive_packet, client_receive_ack
  <2>3. \/ UNCHANGED toStub
        \/ toStub' = Append(toStub, Nak)
        \/ toStub' = Append(toStub, Ack)
        \/ toStub' = Append(toStub, Frame(asked, request)) /\ cphase = "ack"
    BY <1>7 DEF client_receive, client_receive_packet, client_receive_ack
  <2>4. StubQueue'
    <3>1. CASE UNCHANGED toStub
      BY <1>7, <3>1, <1>e DEF client_receive
    <3>2. ASSUME NEW c \in {Nak, Ack}, toStub' = Append(toStub, c) PROVE StubQueue'
      <4>1. c \in Messages(Asks) /\ c \notin StubFrames
        BY <3>2, <1>b, MessageKinds DEF StubFrames
      <4>2. asked' = asked
        BY <1>7 DEF client_receive
      <4> QED
        BY <3>2, <4>1, <4>2, <1>a, ClientSends
    <3>3. CASE toStub' = Append(toStub, Frame(asked, request)) /\ cphase = "ack"
      <4>1. request \in Asks /\ asked' = asked
        BY <1>7, <3>3 DEF client_receive, StateTypes
      <4>2. Frame(asked, request) \in Messages(Asks) /\ Frame(asked, request).n = asked
        BY <4>1, <1>a, Asking
      <4> QED
        BY <3>3, <4>1, <4>2, <1>a, ClientSends
    <3> QED
      BY <2>3, <3>1, <3>2, <3>3
  <2>5. StateTypes'
    BY <1>7, <2>2 DEF client_receive, StateTypes, guest
  <2> QED
    BY <2>1, <2>4, <2>5
<1>8. CASE client_timeout
  BY <1>8, <1>e, <1>f DEF client_timeout, StateTypes, guest
<1>9. CASE \E r \in Asks : client_ask(r)
  <2> PICK r \in Asks : client_ask(r)
    BY <1>9
  <2>1. asked' = asked + 1 /\ asked < MaxRequests /\ toStub' = Append(toStub, Frame(asked', r))
    BY DEF client_ask
  <2>2. asked' \in Nat /\ asked <= asked' /\ asked' \in 0..MaxRequests /\ served' \in 0..asked'
    BY <2>1, <1>a, GdbAssumption DEF client_ask, StateTypes
  <2>3. Frame(asked', r) \in Messages(Asks) /\ Frame(asked', r).n <= asked'
    BY <2>2, Asking
  <2>4. StubQueue'
    BY <2>1, <2>2, <2>3, ClientSends
  <2>5. StateTypes' /\ ClientQueue'
    BY <2>2, <1>f DEF client_ask, StateTypes, guest
  <2> QED
    BY <2>4, <2>5
<1>10. CASE client_interrupt
  <2>1. StubQueue'
    <3>1. Break \in Messages(Asks) /\ Break \notin StubFrames
      BY <1>b, MessageKinds DEF StubFrames
    <3> QED
      BY <1>10, <3>1, <1>a, ClientSends DEF client_interrupt, client
  <2> QED
    BY <1>10, <2>1, <1>f, GdbAssumption DEF client_interrupt, StateTypes, guest, client
<1>11. CASE client_disconnect
  BY <1>11, <1>e, <1>f DEF client_disconnect, StateTypes, guest
<1>12. CASE noise
  <2>1. StateTypes'
    BY <1>12, GdbAssumption DEF noise, StateTypes, guest, client
  <2>2. UNCHANGED <<asked, remcomOutBuffer>>
    BY <1>12 DEF noise, client
  <2>3. CASE garbled(toStub) /\ toStub' = garble(toStub) /\ UNCHANGED toClient
    <3>1. /\ garble(toStub) \in Seq(Messages(Asks))
          /\ Len(garble(toStub)) = Len(toStub)
          /\ toStub[1] \in StubFrames /\ garble(toStub)[1].n = toStub[1].n
          /\ \A i \in 1..Len(toStub) : i # 1 => garble(toStub)[i] = toStub[i]
      BY <2>3, Garbling DEF StubQueue, StubFrames
    <3>2. StubQueue'
      BY <3>1, <2>2, <2>3 DEF StubQueue
    <3> QED
      BY <3>2, <2>1, <2>2, <2>3, <1>f
  <2>4. CASE garbled(toClient) /\ toClient' = garble(toClient) /\ UNCHANGED toStub
    <3>1. garble(toClient) \in Seq(Messages(Replies))
      BY <2>4, Garbling DEF ClientQueue
    <3>2. ClientQueue'
      BY <3>1, <2>2, <2>4 DEF ClientQueue
    <3> QED
      BY <3>2, <2>1, <2>2, <2>4, <1>e
  <2> QED
    BY <1>12, <2>3, <2>4 DEF noise
<1>13. CASE UNCHANGED gdbVars
  BY <1>13, <1>e, <1>f DEF gdbVars, StateTypes, guest, client
<1> QED
  BY <1>1, <1>2, <1>3, <1>4, <1>5, <1>6, <1>7, <1>8, <1>9, <1>10, <1>11, <1>12, <1>13
  DEF GdbNext, Stub, Client

-----------------------------------------------------------------------------
(***************************************************************************)
(* Second layer: the conversation.                                         *)
(***************************************************************************)
LEMMA ConversationInit == GdbInit => Conversation
  BY DEF GdbInit, Conversation, Resumed, OnlyAgain

\* Only phases, request, counters, packet and queues enter it.
LEMMA ConversationStays ==
  ASSUME Conversation,
         UNCHANGED <<phase, remcomOutBuffer, toStub, toClient, cphase, request, asked, served>>
  PROVE  Conversation'
  BY DEF Conversation, Resumed, Awaiting, Settled, Refused, Taken, Answering, Expected,
         IsBad, OnlyAgain, OnlyCopies, OnlyFrames, Unread, AckedAt, TakenAt, Again, Copy

\* Queues of one kind of message, when one is taken, put or garbled.
LEMMA AgainKept ==
  ASSUME StubTypes, OnlyAgain(toStub)
  PROVE  /\ toStub # << >> => Again(Head(toStub)) /\ OnlyAgain(Tail(toStub))
         /\ OnlyAgain(Append(toStub, Nak)) /\ OnlyAgain(Append(toStub, Break))
         /\ ~garbled(toStub)
<1>1. toStub \in Seq(Messages(Asks)) /\ Nak \in Messages(Asks) /\ Break \in Messages(Asks)
  BY DEF StubTypes, StubQueue, Messages
<1>2. ASSUME toStub # << >> PROVE Again(Head(toStub)) /\ OnlyAgain(Tail(toStub))
  BY <1>1, <1>2, Taking DEF OnlyAgain
<1>3. ASSUME NEW c \in {Nak, Break} PROVE OnlyAgain(Append(toStub, c))
  BY <1>1, <1>3, Putting DEF OnlyAgain, Again
<1>4. ~garbled(toStub)
  BY <1>2 DEF garbled, Again, Nak, Break
<1> QED
  BY <1>2, <1>3, <1>4

LEMMA FramesKept ==
  ASSUME StubTypes, OnlyFrames(toClient)
  PROVE  /\ toClient # << >> => Head(toClient) \in ClientFrames /\ OnlyFrames(Tail(toClient))
         /\ \A m \in ClientFrames : OnlyFrames(Append(toClient, m))
         /\ garbled(toClient) => OnlyFrames(garble(toClient))
<1>1. toClient \in Seq(Messages(Replies)) /\ ClientFrames \subseteq Messages(Replies)
  BY DEF StubTypes, ClientQueue, Messages, ClientFrames
<1>2. ASSUME toClient # << >> PROVE Head(toClient) \in ClientFrames /\ OnlyFrames(Tail(toClient))
  BY <1>1, <1>2, Taking DEF OnlyFrames
<1>3. ASSUME NEW m \in ClientFrames PROVE OnlyFrames(Append(toClient, m))
  BY <1>1, <1>3, Putting DEF OnlyFrames
<1>4. ASSUME garbled(toClient) PROVE OnlyFrames(garble(toClient))
  BY <1>1, <1>4, Garbling DEF OnlyFrames, ClientFrames
<1> QED
  BY <1>2, <1>3, <1>4

LEMMA CopiesKept ==
  ASSUME StubTypes, OnlyCopies(toClient)
  PROVE  /\ OnlyFrames(toClient)
         /\ toClient # << >> => Copy(Head(toClient)) /\ OnlyCopies(Tail(toClient))
         /\ OnlyCopies(Append(toClient, Frame(asked, remcomOutBuffer)))
         /\ garbled(toClient) => OnlyCopies(garble(toClient))
<1>1. toClient \in Seq(Messages(Replies)) /\ remcomOutBuffer \in Replies /\ asked \in Nat
  BY DEF StubTypes, ClientQueue, StateTypes
<1>2. ASSUME toClient # << >> PROVE Copy(Head(toClient)) /\ OnlyCopies(Tail(toClient))
  BY <1>1, <1>2, Taking DEF OnlyCopies
<1>3. OnlyCopies(Append(toClient, Frame(asked, remcomOutBuffer)))
  <2> DEFINE m == Frame(asked, remcomOutBuffer)
  <2>1. Copy(m) /\ m \in Messages(Replies)
    BY <1>1, Sending DEF Copy
  <2> HIDE DEF m
  <2>2. OnlyCopies(Append(toClient, m))
    BY <1>1, <2>1, Putting DEF OnlyCopies
  <2> QED
    BY <2>2 DEF m
<1>4. ASSUME garbled(toClient) PROVE OnlyCopies(garble(toClient))
  BY <1>1, <1>4, Garbling DEF OnlyCopies, Copy, ClientFrames
<1>5. OnlyFrames(toClient)
  BY DEF OnlyCopies, OnlyFrames, Copy
<1> QED
  BY <1>2, <1>3, <1>4, <1>5

\* The guest stops, or ends, and the stub begins to send its report.
LEMMA ReportSent ==
  ASSUME StubTypes, Conversation, cphase # "gone", phase \in {"accept", "run"},
         NEW b \in Replies, NEW next,
         (next = "notify" /\ b.op = "T") \/ (next = "bye" /\ b.op = "X"),
         putpacket(served, << >>, b, next),
         UNCHANGED <<toStub, cphase, request, asked, served>>
  PROVE  Conversation'
<1> PICK m : m = Frame(served, b)
  OBVIOUS
<1>1. /\ toClient \in Seq(Messages(Replies)) /\ served \in Nat /\ asked \in Nat
      /\ request \in Requests
  BY RequestKnown DEF StubTypes, ClientQueue, StateTypes
<1>2. /\ m \in ClientFrames /\ m \in Messages(Replies) /\ m.n = served /\ m.body = b
      /\ toClient \o << >> \o <<m>> = Append(toClient, m)
  BY <1>1, Sending
<1>3. remcomOutBuffer' = b /\ phase' = next /\ toClient' = Append(toClient, m)
  BY <1>2 DEF putpacket
<1>4. served = asked => Copy(m)'
  BY <1>2, <1>3 DEF Copy
<1>5. request.op \in {"s", "c"} => Answering'
  <2>1. request.op \in {"s", "c"} => Expected(request') = {"T", "X"}
    BY <1>1, StopExpected
  <2> QED
    BY <2>1, <1>3 DEF Answering, Packets
<1>6. CASE Resumed
  <2>2. OnlyCopies(toClient)'
    BY <1>1, <1>2, <1>3, <1>4, <1>6, Putting DEF Resumed, OnlyCopies
  <2>3. OnlyAgain(toStub)'
    BY <1>6 DEF Resumed, OnlyAgain, Again
  <2>4. Awaiting'
    BY <1>6, <1>5, <2>2, <2>3 DEF Resumed, Awaiting
  <2> QED
    BY <2>4 DEF Conversation
<1>7. CASE Taken
  <2>1. phase = "run" /\ request.op \in {"s", "c"}
    BY <1>7 DEF Taken, Answering, Packets
  <2>2. PICK k \in 1..Len(toClient) : TakenAt(toClient, k) /\ k = Len(toClient)
    BY <1>7, <2>1 DEF Taken
  <2>3. k \in 1..Len(toClient') /\ TakenAt(toClient, k)'
    BY <2>2, <1>1, <1>2, <1>3, <1>4, <1>7, Putting DEF TakenAt, Taken
  <2>4. Taken'
    BY <1>3, <1>5, <1>7, <2>1, <2>3 DEF Taken
  <2> QED
    BY <2>4 DEF Conversation
<1> QED
  BY <1>6, <1>7 DEF Conversation, Awaiting, Answering, Packets, Settled, Refused

\* What follows the message the stub has taken.
LEMMA UnreadTail ==
  ASSUME StubTypes, toStub # << >>
  PROVE  /\ Unread(toStub) => Unread(Tail(toStub))
         /\ AckedAt(toStub, 1) => Head(toStub) = Ack /\ Unread(Tail(toStub))
         /\ \A k \in 2..Len(toStub) : AckedAt(toStub, k) =>
              /\ Again(Head(toStub))
              /\ k - 1 \in 1..Len(Tail(toStub))
              /\ AckedAt(Tail(toStub), k - 1)
<1> PICK t : t = Tail(toStub)
  OBVIOUS
<1>1. /\ Head(toStub) = toStub[1]
      /\ Len(toStub) \in Nat \ {0} /\ Len(t) = Len(toStub) - 1
      /\ \A i \in 1..Len(t) : t[i] = toStub[i + 1] /\ i + 1 \in 1..Len(toStub)
  BY Taking DEF StubTypes, StubQueue
<1>2. ASSUME NEW i \in 1..Len(t)
      PROVE  i + 1 = Len(toStub) <=> i = Len(t)
  BY <1>1
<1>3. ASSUME Unread(toStub) PROVE Unread(t)
  BY <1>1, <1>2, <1>3 DEF Unread
<1>4. ASSUME AckedAt(toStub, 1) PROVE Head(toStub) = Ack /\ Unread(t)
  <2>1. \A i \in 1..Len(t) : i + 1 \in (1 + 1)..Len(toStub)
    BY <1>1
  <2> QED
    BY <1>1, <1>2, <1>4, <2>1 DEF AckedAt, Unread
<1>5. ASSUME NEW k \in 2..Len(toStub), AckedAt(toStub, k)
      PROVE  Again(Head(toStub)) /\ k - 1 \in 1..Len(t) /\ AckedAt(t, k - 1)
  <2>1. k - 1 \in 1..Len(t) /\ 1 \in 1..(k - 1) /\ (k - 1) + 1 = k
    BY <1>1
  <2>2. t[k - 1] = Ack
    BY <1>1, <1>5, <2>1 DEF AckedAt
  <2>3. ASSUME NEW i \in 1..((k - 1) - 1) PROVE Again(t[i])
    <3>1. i \in 1..Len(t) /\ i + 1 \in 1..(k - 1)
      BY <1>1, <2>1
    <3> QED
      BY <1>1, <1>5, <3>1 DEF AckedAt
  <2>4. ASSUME NEW i \in ((k - 1) + 1)..Len(t)
        PROVE  i \in 1..Len(t) /\ i + 1 \in (k + 1)..Len(toStub)
    BY <1>1, <2>1
  <2>5. Again(Head(toStub))
    BY <1>1, <1>5, <2>1 DEF AckedAt
  <2> QED
    BY <1>1, <1>2, <1>5, <2>1, <2>2, <2>3, <2>4, <2>5 DEF AckedAt
<1> QED
  BY <1>3, <1>4, <1>5

\* One character read by putpacket.
LEMMA WaitStep ==
  ASSUME StubTypes, Conversation, cphase # "gone", putpacket_wait
  PROVE  Conversation'
<1>1. /\ toStub \in Seq(Messages(Asks)) /\ toClient \in Seq(Messages(Replies))
      /\ served \in Nat /\ asked \in Nat /\ remcomOutBuffer \in Replies
  BY DEF StubTypes, StubQueue, ClientQueue, StateTypes
<1>2. /\ phase \in Packets /\ toStub # << >> /\ toStub' = Tail(toStub)
      /\ UNCHANGED <<remcomOutBuffer, cphase, request, asked, served>>
  BY DEF putpacket_wait, Packets, putpacket, client
<1> PICK m : m = Frame(served, remcomOutBuffer)
  OBVIOUS
<1>3. /\ m \in ClientFrames
      /\ toClient \o << >> \o <<m>> = Append(toClient, m)
  BY <1>1, Sending
<1>4. Head(toStub) # Ack => phase' = phase /\ toClient' = Append(toClient, m)
  BY <1>3 DEF putpacket_wait, putpacket
<1>5. Again(Head(toStub)) => Head(toStub) # Ack
  BY DEF Again, Ack, Nak, Break
<1>6. CASE Awaiting
  <2>1. Again(Head(toStub)) /\ OnlyAgain(Tail(toStub))
    BY <1>2, <1>6, AgainKept DEF Awaiting
  <2>2. OnlyCopies(Append(toClient, m))
    BY <1>6, CopiesKept DEF Awaiting
  <2>3. OnlyCopies(toClient)' /\ OnlyAgain(toStub)'
    BY <1>2, <1>4, <1>5, <2>1, <2>2 DEF OnlyCopies, Copy, OnlyAgain, Again
  <2>4. Answering'
    BY <1>2, <1>4, <1>5, <1>6, <2>1 DEF Awaiting, Answering, Expected, IsBad
  <2>5. Awaiting'
    BY <1>2, <1>6, <2>3, <2>4 DEF Awaiting
  <2> QED
    BY <2>5 DEF Conversation
<1>7. CASE Settled
  <2>1. phase \in {"notify", "reply"}
    BY <1>2, <1>7 DEF Settled, Packets
  <2>2. PICK k \in 1..Len(toStub) : AckedAt(toStub, k)
    BY <1>7, <2>1 DEF Settled
  <2>3. Len(toStub) \in Nat
    BY <1>1
  <2>4. CASE k = 1
    <3>1. Head(toStub) = Ack /\ Unread(Tail(toStub))
      BY <1>2, <2>2, <2>4, UnreadTail
    <3>2. phase' = "serve" /\ UNCHANGED toClient
      BY <3>1, <2>1 DEF putpacket_wait, after_putpacket
    <3>3. Unread(toStub)'
      BY <1>2, <3>1 DEF Unread
    <3>4. OnlyFrames(toClient)'
      BY <1>7, <3>2 DEF Settled, OnlyFrames
    <3>5. Settled'
      BY <1>2, <1>7, <3>2, <3>3, <3>4 DEF Settled
    <3> QED
      BY <3>5 DEF Conversation
  <2>5. CASE k # 1
    <3>1. k \in 2..Len(toStub)
      BY <2>2, <2>3, <2>5
    <3>2. Head(toStub) # Ack
      BY <1>2, <2>2, <3>1, <1>5, UnreadTail
    <3>3. k - 1 \in 1..Len(Tail(toStub)) /\ AckedAt(Tail(toStub), k - 1)
      BY <1>2, <2>2, <3>1, UnreadTail
    <3>4. AckedAt(toStub, k - 1)'
      BY <1>2, <3>3 DEF AckedAt, Again
    <3>5. OnlyFrames(toClient)'
      <4>1. OnlyFrames(Append(toClient, m))
        BY <1>3, <1>7, FramesKept DEF Settled
      <4> QED
        BY <4>1, <1>4, <3>2 DEF OnlyFrames
    <3>6. Settled'
      BY <1>2, <1>4, <1>7, <2>1, <3>2, <3>3, <3>4, <3>5 DEF Settled
    <3> QED
      BY <3>6 DEF Conversation
  <2> QED
    BY <2>4, <2>5
<1> QED
  BY <1>2, <1>6, <1>7 DEF Conversation, Resumed, Refused, Taken, Packets

\* One message read by getpacket.
LEMMA ServeStep ==
  ASSUME StubTypes, Conversation, cphase # "gone", gdbserver_handle_exception
  PROVE  Conversation'
<1> PICK m : m = Head(toStub)
  OBVIOUS
<1>1. /\ toStub \in Seq(Messages(Asks)) /\ toClient \in Seq(Messages(Replies))
      /\ served \in Nat /\ asked \in Nat
      /\ Ack \in Messages(Replies) /\ Nak \in Messages(Replies)
  BY DEF StubTypes, StubQueue, ClientQueue, StateTypes, Messages
<1>2. /\ phase = "serve" /\ toStub # << >> /\ toStub' = Tail(toStub) /\ getpacket(m)
      /\ UNCHANGED <<cphase, request, asked>>
  BY DEF gdbserver_handle_exception, client
<1>3. /\ m = toStub[1] /\ m \in Messages(Asks)
      /\ Len(toStub) \in Nat \ {0} /\ Len(Tail(toStub)) = Len(toStub) - 1
      /\ Tail(toStub) \in Seq(Messages(Asks))
      /\ \A i \in 1..Len(Tail(toStub)) :
           Tail(toStub)[i] = toStub[i + 1] /\ i + 1 \in 1..Len(toStub)
  BY <1>1, <1>2, Taking
<1>4. Settled /\ Unread(toStub)
  BY <1>2 DEF Conversation, Resumed, Awaiting, Answering, Packets, Settled, Refused, Taken
<1>5. /\ m \in StubFrames
      /\ m.kind = "frame"
      /\ m.body \in Asks /\ m.good \in BOOLEAN
      /\ \/ m.body.op = "overlong"
         \/ cphase = "ack" /\ 1 = Len(toStub) /\ m.n = asked /\ m.body = request
  <2>1. 1 \in 1..Len(toStub)
    BY <1>3
  <2>2. /\ m \in StubFrames
        /\ \/ m.body.op = "overlong"
           \/ cphase = "ack" /\ 1 = Len(toStub) /\ m.n = asked /\ m.body = request
    BY <2>1, <1>3, <1>4 DEF Unread
  <2> QED
    BY <2>2, <1>3, MessageKinds DEF StubFrames
<1>6. CASE m.body.op = "overlong"
  <2>1. UNCHANGED <<phase, remcomOutBuffer, toClient, served>>
    BY <1>2, <1>5, <1>6 DEF getpacket
  <2>2. Unread(toStub)'
    <3>1. Unread(Tail(toStub))
      BY <1>2, <1>4, UnreadTail
    <3> QED
      BY <1>2, <3>1 DEF Unread
  <2>3. OnlyFrames(toClient)'
    BY <1>4, <2>1 DEF Settled, OnlyFrames
  <2>4. Settled'
    BY <1>2, <1>4, <2>1, <2>2, <2>3 DEF Settled
  <2> QED
    BY <2>4 DEF Conversation
<1>7. CASE m.body.op # "overlong"
  <2>1. cphase = "ack" /\ 1 = Len(toStub) /\ m.n = asked /\ m.body = request
    BY <1>5, <1>7
  <2>2. toStub' = << >> /\ served < asked /\ asked > 0
    BY <2>1, <1>1, <1>2, <1>3, <1>4 DEF Settled
  <2>3. CASE ~m.good
    <3>1. /\ toClient' = Append(toClient, Nak)
          /\ UNCHANGED <<phase, remcomOutBuffer, served>>
      BY <1>2, <1>5, <1>7, <2>3 DEF getpacket
    <3>2. /\ Len(toClient) \in Nat
          /\ Len(toClient') = Len(toClient) + 1
          /\ toClient'[Len(toClient')] = Nak
          /\ \A i \in 1..Len(toClient) : toClient'[i] \in ClientFrames
      BY <3>1, <1>1, <1>4, Putting DEF Settled, OnlyFrames
    <3>3. Len(toClient') \in 1..Len(toClient')
      BY <3>2
    <3>4. Refused'
      BY <1>2, <1>7, <2>1, <2>2, <3>1, <3>2, <3>3 DEF Refused
    <3> QED
      BY <3>4 DEF Conversation
  <2>4. CASE m.good
    <3>1. served' = asked /\ (process_request(request) \/ process_resume(request))
      BY <1>2, <1>5, <1>7, <2>1, <2>4 DEF getpacket
    <3>2. request \in Requests /\ request.op # "overlong"
      BY <1>7, <2>1, RequestKnown
    <3>3. /\ Append(toClient, Ack) \in Seq(Messages(Replies))
          /\ Len(toClient) \in Nat
          /\ Len(Append(toClient, Ack)) = Len(toClient) + 1
          /\ Append(toClient, Ack)[Len(toClient) + 1] = Ack
          /\ \A i \in 1..Len(toClient) : Append(toClient, Ack)[i] \in ClientFrames
      BY <1>1, <1>4, Putting DEF Settled, OnlyFrames
    <3>4. CASE process_request(request)
      <4>1. /\ request.op \notin {"s", "c", "k", "overlong"}
            /\ putpacket(asked, <<Ack>>, answer(request), "reply")
        BY <3>1, <3>2, <3>4 DEF process_request
      <4>2. PICK b : b = answer(request)
        OBVIOUS
      <4>3. b \in Replies /\ b.op \in Expected(request) /\ b.op \notin {"X", "T"}
        BY <4>1, <4>2, <3>2, AnswerShape DEF StubTypes, StateTypes
      <4>4. PICK f : f = Frame(asked, b)
        OBVIOUS
      <4>5. /\ f \in ClientFrames /\ f \in Messages(Replies) /\ f.n = asked /\ f.body = b
            /\ toClient \o <<Ack>> \o <<f>> = Append(Append(toClient, Ack), f)
        BY <1>1, <4>3, <4>4, Sending
      <4>6. /\ remcomOutBuffer' = b /\ phase' = "reply"
            /\ toClient' = Append(Append(toClient, Ack), f)
        BY <4>1, <4>2, <4>4, <4>5 DEF putpacket
      <4>7. Copy(f)'
        BY <4>5, <4>6, <1>2 DEF Copy
      <4>8. /\ Len(toClient') = Len(toClient) + 2
            /\ toClient'[Len(toClient) + 2] = f
            /\ \A i \in 1..(Len(toClient) + 1) : toClient'[i] = Append(toClient, Ack)[i]
        BY <4>5, <4>6, <3>3, Putting
      <4> PICK k : k = Len(toClient) + 1
        OBVIOUS
      <4>9. k \in 1..Len(toClient') /\ TakenAt(toClient, k)'
        BY <3>3, <4>7, <4>8 DEF TakenAt
      <4>10. Answering'
        BY <4>3, <4>6, <1>2 DEF Answering, Packets
      <4>11. Taken'
        BY <1>2, <2>1, <2>2, <3>1, <3>2, <4>1, <4>6, <4>9, <4>10 DEF Taken
      <4> QED
        BY <4>11 DEF Conversation
    <3>5. CASE process_resume(request)
      <4>1. /\ request.op \in {"s", "c", "k"}
            /\ phase' = IF request.op = "k" THEN "ended" ELSE "run"
            /\ toClient' = Append(toClient, Ack)
        BY <3>5 DEF process_resume
      <4> PICK k : k = Len(toClient) + 1
        OBVIOUS
      <4>2. k = Len(toClient') /\ k \in 1..Len(toClient') /\ TakenAt(toClient, k)'
        BY <3>3, <4>1 DEF TakenAt
      <4>3. Taken'
        BY <1>2, <2>1, <2>2, <3>1, <3>2, <4>1, <4>2 DEF Taken
      <4> QED
        BY <4>3 DEF Conversation
    <3> QED
      BY <3>1, <3>4, <3>5
  <2> QED
    BY <2>3, <2>4, <1>5
<1> QED
  BY <1>6, <1>7

\* The client reads a message while it waits for a packet.
LEMMA PacketStep ==
  ASSUME StubTypes, Conversation, client_receive, client_receive_packet(Head(toClient)),
         cphase' # "gone"
  PROVE  Conversation'
<1> PICK m : m = Head(toClient)
  OBVIOUS
<1>1. /\ toStub \in Seq(Messages(Asks)) /\ toClient \in Seq(Messages(Replies))
      /\ Ack \in Messages(Asks)
  BY DEF StubTypes, StubQueue, ClientQueue, Messages
<1>2. /\ toClient # << >> /\ toClient' = Tail(toClient) /\ cphase \in {"stop", "reply"}
      /\ UNCHANGED <<phase, remcomOutBuffer, request, asked, served>>
  BY DEF client_receive, client_receive_packet
<1>3. Awaiting
  BY <1>2 DEF Conversation, Resumed, Settled, Refused, Taken
<1>4. Copy(m) /\ OnlyCopies(Tail(toClient)) /\ OnlyFrames(toClient)
  BY <1>2, <1>3, CopiesKept DEF Awaiting
<1>5. m.kind = "frame" /\ m.good \in BOOLEAN /\ m.body = remcomOutBuffer
  BY <1>4 DEF Copy, ClientFrames, Frames
<1>6. CASE ~m.good
  <2>1. toStub' = Append(toStub, Nak) /\ cphase' = cphase
    BY <1>5, <1>6 DEF client_receive_packet
  <2>2. OnlyAgain(Append(toStub, Nak))
    BY <1>3, AgainKept DEF Awaiting
  <2>3. OnlyAgain(toStub)' /\ OnlyCopies(toClient)'
    BY <1>2, <1>4, <2>1, <2>2 DEF OnlyAgain, Again, OnlyCopies, Copy
  <2>4. Answering'
    BY <1>2, <1>3 DEF Awaiting, Answering, Expected, IsBad
  <2>5. Awaiting'
    BY <1>2, <1>3, <2>1, <2>3, <2>4 DEF Awaiting
  <2> QED
    BY <2>5 DEF Conversation
<1>7. CASE m.good
  <2>1. toStub' = Append(toStub, Ack) /\ cphase' = IF m.body.op = "X" THEN "gone" ELSE "idle"
    BY <1>5, <1>7 DEF client_receive_packet
  <2>2. cphase' = "idle" /\ phase \in {"notify", "reply"}
    BY <2>1, <1>3, <1>5 DEF Awaiting, Answering, Packets
  <2>3. /\ Len(toStub) \in Nat
        /\ Len(toStub') = Len(toStub) + 1
        /\ toStub'[Len(toStub) + 1] = Ack
        /\ \A i \in 1..Len(toStub) : toStub'[i] = toStub[i]
    BY <1>1, <2>1, Putting
  <2> PICK k : k = Len(toStub) + 1
    OBVIOUS
  <2>4. k \in 1..Len(toStub') /\ AckedAt(toStub, k)'
    BY <2>3, <1>3 DEF AckedAt, Awaiting, OnlyAgain, Again
  <2>5. OnlyFrames(toClient)'
    <3>1. OnlyFrames(Tail(toClient))
      BY <1>2, <1>4, FramesKept
    <3> QED
      BY <3>1, <1>2 DEF OnlyFrames
  <2>6. Settled'
    BY <1>2, <2>2, <2>4, <2>5 DEF Settled
  <2> QED
    BY <2>6 DEF Conversation
<1> QED
  BY <1>5, <1>6, <1>7

\* The client reads a message while it waits for an acknowledgement.
LEMMA AckStep ==
  ASSUME StubTypes, Conversation, client_receive, client_receive_ack(Head(toClient)),
         cphase' # "gone"
  PROVE  Conversation'
<1> PICK m : m = Head(toClient)
  OBVIOUS
<1>1. /\ toStub \in Seq(Messages(Asks)) /\ toClient \in Seq(Messages(Replies))
      /\ asked \in Nat /\ request \in Requests
  BY RequestKnown DEF StubTypes, StubQueue, ClientQueue, StateTypes
<1>2. /\ toClient # << >> /\ toClient' = Tail(toClient) /\ cphase = "ack"
      /\ UNCHANGED <<phase, remcomOutBuffer, request, asked, served>>
  BY DEF client_receive, client_receive_ack
<1>3. /\ m = toClient[1] /\ m \in Messages(Replies)
      /\ Len(toClient) \in Nat \ {0} /\ Len(Tail(toClient)) = Len(toClient) - 1
      /\ Tail(toClient) \in Seq(Messages(Replies))
      /\ \A i \in 1..Len(Tail(toClient)) :
           Tail(toClient)[i] = toClient[i + 1] /\ i + 1 \in 1..Len(toClient)
  BY <1>1, <1>2, Taking
<1>4. m \in ClientFrames => UNCHANGED <<toStub, cphase>>
  BY <1>3, MessageKinds DEF client_receive_ack, ClientFrames
<1>5. CASE Settled
  <2>1. m \in ClientFrames /\ OnlyFrames(Tail(toClient))
    BY <1>2, <1>5, FramesKept DEF Settled
  <2>2. UNCHANGED <<toStub, cphase>>
    BY <2>1, <1>4
  <2>3. OnlyFrames(toClient)'
    BY <2>1, <1>2 DEF OnlyFrames
  <2>4. Settled'
    BY <1>2, <1>5, <2>2, <2>3 DEF Settled, Unread, AckedAt, Again
  <2> QED
    BY <2>4 DEF Conversation
<1>6. CASE Refused
  <2>1. PICK k \in 1..Len(toClient) :
          /\ k = Len(toClient)
          /\ toClient[k] = Nak
          /\ \A i \in 1..(k - 1) : toClient[i] \in ClientFrames
    BY <1>6 DEF Refused
  <2>2. CASE k = 1
    <3>1. m = Nak /\ Len(Tail(toClient)) = 0
      BY <2>1, <2>2, <1>3
    <3>2. toStub' = Append(toStub, Frame(asked, request)) /\ cphase' = cphase
      BY <3>1 DEF client_receive_ack, Ack, Nak
    <3>3. request \in Asks
      BY <1>2 DEF StubTypes, StateTypes
    <3> PICK f : f = Frame(asked, request)
      OBVIOUS
    <3>4. f \in StubFrames /\ f.n = asked /\ f.body = request /\ f \in Messages(Asks)
      BY <3>3, <1>1, Asking
    <3>5. Len(toStub') = 1 /\ toStub'[1] = f
      BY <1>6, <3>2, <3>4 DEF Refused
    <3>6. Unread(toStub)'
      BY <1>2, <3>2, <3>4, <3>5 DEF Unread
    <3>7. OnlyFrames(toClient)'
      <4>1. Len(toClient') = 0
        BY <1>2, <3>1
      <4> QED
        BY <4>1 DEF OnlyFrames
    <3>8. Settled'
      BY <1>2, <1>6, <3>2, <3>6, <3>7 DEF Refused, Settled
    <3> QED
      BY <3>8 DEF Conversation
  <2>3. CASE k # 1
    <3>1. k - 1 \in 1..Len(toClient') /\ k - 1 = Len(toClient') /\ 1 \in 1..(k - 1)
      BY <2>1, <2>3, <1>2, <1>3
    <3>2. UNCHANGED <<toStub, cphase>>
      BY <3>1, <2>1, <1>3, <1>4
    <3>3. toClient'[k - 1] = Nak /\ \A i \in 1..((k - 1) - 1) : toClient'[i] \in ClientFrames
      BY <3>1, <2>1, <1>2, <1>3
    <3>4. Refused'
      BY <1>2, <1>6, <3>1, <3>2, <3>3 DEF Refused
    <3> QED
      BY <3>4 DEF Conversation
  <2> QED
    BY <2>2, <2>3
<1>7. CASE Taken
  <2>1. PICK k \in 1..Len(toClient) :
          TakenAt(toClient, k) /\ (phase \in {"run", "ended"} => k = Len(toClient))
    BY <1>7 DEF Taken
  <2>2. CASE k = 1
    <3>1. m = Ack
      BY <2>1, <2>2, <1>3 DEF TakenAt
    <3>2. /\ UNCHANGED toStub
          /\ cphase' = CASE request.op \in {"s", "c"} -> "stop"
                          [] request.op = "k" -> "gone"
                          [] OTHER -> "reply"
      BY <3>1 DEF client_receive_ack, Ack, Nak
    <3>3. request.op # "k" /\ cphase' = IF request.op \in {"s", "c"} THEN "stop" ELSE "reply"
      BY <3>2
    <3>4. OnlyAgain(toStub)'
      BY <1>7, <3>2 DEF Taken, OnlyAgain
    <3>5. CASE phase = "run"
      <4>1. toClient' = << >>
        BY <3>5, <2>1, <2>2, <1>2, <1>3
      <4>2. Resumed'
        BY <1>2, <1>7, <3>3, <3>4, <3>5, <4>1 DEF Taken, Resumed, Answering, Packets
      <4> QED
        BY <4>2 DEF Conversation
    <3>6. CASE phase # "run"
      <4>1. Answering
        BY <1>7, <3>3, <3>6 DEF Taken
      <4>2. Answering'
        BY <4>1, <1>2 DEF Answering, Expected, IsBad
      <4>3. OnlyCopies(toClient)'
        <5>1. \A i \in 1..Len(Tail(toClient)) : i + 1 \in (1 + 1)..Len(toClient)
          BY <1>3
        <5>2. OnlyCopies(Tail(toClient))
          BY <5>1, <2>1, <2>2, <1>3 DEF TakenAt, OnlyCopies
        <5> QED
          BY <5>2, <1>2 DEF OnlyCopies, Copy
      <4>4. Awaiting'
        BY <1>2, <1>7, <3>3, <3>4, <4>2, <4>3 DEF Taken, Awaiting
      <4> QED
        BY <4>4 DEF Conversation
    <3> QED
      BY <3>5, <3>6
  <2>3. CASE k # 1
    <3>0. k \in 2..Len(toClient) /\ Len(toClient) \in Nat
      BY <2>3, <1>3
    <3>1. k - 1 \in 1..Len(Tail(toClient)) /\ 1 \in 1..(k - 1) /\ (k - 1) + 1 = k
      BY <3>0, <1>3
    <3>2. UNCHANGED <<toStub, cphase>>
      BY <3>1, <2>1, <1>3, <1>4 DEF TakenAt
    <3>3. TakenAt(Tail(toClient), k - 1)
      <4>1. Tail(toClient)[k - 1] = Ack
        <5>1. Tail(toClient)[k - 1] = toClient[(k - 1) + 1]
          BY <3>1, <1>3
        <5> QED
          BY <5>1, <3>1, <2>1 DEF TakenAt
      <4>2. ASSUME NEW i \in 1..((k - 1) - 1) PROVE Tail(toClient)[i] \in ClientFrames
        <5>1. i \in 1..Len(Tail(toClient)) /\ i + 1 \in 1..(k - 1)
          BY <3>1, <1>3
        <5> QED
          BY <5>1, <2>1, <1>3 DEF TakenAt
      <4>3. ASSUME NEW i \in ((k - 1) + 1)..Len(Tail(toClient)) PROVE Copy(Tail(toClient)[i])
        <5>1. i \in 1..Len(Tail(toClient)) /\ i + 1 \in (k + 1)..Len(toClient)
          BY <3>1, <1>3
        <5> QED
          BY <5>1, <2>1, <1>3 DEF TakenAt
      <4> QED
        BY <3>1, <4>1, <4>2, <4>3 DEF TakenAt
    <3>4. k - 1 \in 1..Len(toClient') /\ TakenAt(toClient, k - 1)'
      BY <3>1, <3>3, <1>2 DEF TakenAt, Copy
    <3>5. phase' \in {"run", "ended"} => k - 1 = Len(toClient')
      BY <2>1, <1>2, <1>3
    <3>6. Answering => Answering'
      BY <1>2 DEF Answering, Expected, IsBad
    <3>7. Taken'
      BY <1>2, <1>7, <3>2, <3>4, <3>5, <3>6 DEF Taken
    <3> QED
      BY <3>7 DEF Conversation
  <2> QED
    BY <2>2, <2>3
<1> QED
  BY <1>2, <1>5, <1>6, <1>7 DEF Conversation, Resumed, Awaiting

\* The client asks.
LEMMA AskStep ==
  ASSUME StubTypes, Conversation, NEW r \in Asks, client_ask(r)
  PROVE  Conversation'
<1> PICK f : f = Frame(asked', r)
  OBVIOUS
<1>1. /\ toStub \in Seq(Messages(Asks)) /\ asked \in Nat /\ served \in 0..asked
  BY DEF StubTypes, StubQueue, StateTypes
<1>2. /\ cphase = "idle" /\ cphase' = "ack" /\ asked' = asked + 1 /\ request' = r
      /\ toStub' = Append(toStub, f)
      /\ UNCHANGED <<phase, remcomOutBuffer, toClient, served>>
  BY DEF client_ask
<1>3. f \in StubFrames /\ f \in Messages(Asks) /\ f.n = asked' /\ f.body = request'
  BY <1>1, <1>2, Asking
<1>4. /\ Len(toStub) \in Nat
      /\ Len(toStub') = Len(toStub) + 1
      /\ toStub'[Len(toStub) + 1] = f
      /\ \A i \in 1..Len(toStub) : toStub'[i] = toStub[i]
  BY <1>1, <1>2, <1>3, Putting
<1>5. Settled
  BY <1>2 DEF Conversation, Resumed, Awaiting, Refused, Taken
<1>6. ASSUME NEW i \in 1..Len(toStub'), i # Len(toStub) + 1
      PROVE  i \in 1..Len(toStub) /\ toStub'[i] = toStub[i]
  BY <1>4, <1>6
<1>7. Unread(toStub) => Unread(toStub)'
  BY <1>2, <1>3, <1>4, <1>6 DEF Unread
<1>8. ASSUME NEW k \in 1..Len(toStub), AckedAt(toStub, k)
      PROVE  k \in 1..Len(toStub') /\ AckedAt(toStub, k)'
  <2>1. k \in 1..Len(toStub') /\ toStub'[k] = Ack
    BY <1>4, <1>8 DEF AckedAt
  <2>2. \A i \in 1..(k - 1) : Again(toStub'[i])
    BY <1>4, <1>8 DEF AckedAt
  <2>3. \A i \in (k + 1)..Len(toStub') : i \in 1..Len(toStub')
    BY <1>4
  <2>4. ASSUME NEW i \in (k + 1)..Len(toStub'), i # Len(toStub) + 1
        PROVE  /\ i \in (k + 1)..Len(toStub)
               /\ toStub'[i] = toStub[i]
               /\ toStub[i] \in StubFrames /\ toStub[i].body.op = "overlong"
    BY <1>2, <1>4, <1>8, <2>4 DEF AckedAt
  <2> QED
    BY <1>2, <1>3, <1>4, <2>1, <2>2, <2>3, <2>4 DEF AckedAt, Again
<1>9. OnlyFrames(toClient)' /\ served' < asked'
  BY <1>1, <1>2, <1>5 DEF Settled, OnlyFrames
<1>10. Settled'
  BY <1>2, <1>5, <1>7, <1>8, <1>9 DEF Settled
<1> QED
  BY <1>10 DEF Conversation

\* A frame in flight is garbled.
LEMMA NoiseStep ==
  ASSUME StubTypes, Conversation, cphase # "gone", noise
  PROVE  Conversation'
<1>1. UNCHANGED <<phase, remcomOutBuffer, cphase, request, asked, served>>
  BY DEF noise, client
<1>2. Answering => Answering'
  BY <1>1 DEF Answering, Expected, IsBad
<1>3. CASE garbled(toStub) /\ toStub' = garble(toStub) /\ UNCHANGED toClient
  <2>1. /\ toStub # << >> /\ toStub[1] \in StubFrames /\ toStub'[1] \in StubFrames
        /\ toStub'[1].n = toStub[1].n /\ toStub'[1].body = toStub[1].body
        /\ Len(toStub') = Len(toStub) /\ Len(toStub) \in Nat \ {0}
        /\ \A i \in 1..Len(toStub) : i # 1 => toStub'[i] = toStub[i]
    BY <1>3, Garbling DEF StubTypes, StubQueue, StubFrames, garbled
  <2>2. ~OnlyAgain(toStub)
    BY <1>3, AgainKept
  <2>3. ASSUME NEW k \in 1..Len(toStub), AckedAt(toStub, k) PROVE FALSE
    <3>1. toStub[1] = Ack \/ Again(toStub[1])
      BY <2>1, <2>3 DEF AckedAt
    <3> QED
      BY <2>1, <3>1 DEF Again, StubFrames, Frames, Ack, Nak, Break
  <2>4. Settled /\ phase = "serve" /\ Unread(toStub)
    BY <2>1, <2>2, <2>3 DEF Conversation, Resumed, Awaiting, Settled, Refused, Taken
  <2>5. Unread(toStub)'
    BY <1>1, <2>1, <2>4 DEF Unread
  <2>6. Settled'
    BY <1>1, <1>3, <2>4, <2>5 DEF Settled, OnlyFrames
  <2> QED
    BY <2>6 DEF Conversation
<1>4. CASE garbled(toClient) /\ toClient' = garble(toClient) /\ UNCHANGED toStub
  <2>1. /\ toClient # << >> /\ toClient[1] \in ClientFrames /\ toClient'[1] \in ClientFrames
        /\ toClient'[1].n = toClient[1].n /\ toClient'[1].body = toClient[1].body
        /\ Len(toClient') = Len(toClient) /\ Len(toClient) \in Nat \ {0}
        /\ \A i \in 1..Len(toClient) : i # 1 => toClient'[i] = toClient[i]
    BY <1>4, Garbling DEF StubTypes, ClientQueue, ClientFrames, garbled
  <2>2. toClient[1] # Ack /\ toClient[1] # Nak
    BY <2>1 DEF ClientFrames, Frames, Ack, Nak
  <2>3. CASE Awaiting
    <3>1. OnlyCopies(garble(toClient))
      BY <1>4, <2>3, CopiesKept DEF Awaiting
    <3>2. OnlyCopies(toClient)' /\ OnlyAgain(toStub)'
      BY <1>1, <1>4, <2>3, <3>1 DEF Awaiting, OnlyCopies, Copy, OnlyAgain
    <3>3. Awaiting'
      BY <1>1, <1>2, <2>3, <3>2 DEF Awaiting
    <3> QED
      BY <3>3 DEF Conversation
  <2>4. CASE Settled
    <3>1. OnlyFrames(garble(toClient))
      BY <1>4, <2>4, FramesKept DEF Settled
    <3>2. OnlyFrames(toClient)'
      BY <1>4, <3>1 DEF OnlyFrames
    <3>3. Settled'
      BY <1>1, <1>4, <2>4, <3>2 DEF Settled, Unread, AckedAt, Again
    <3> QED
      BY <3>3 DEF Conversation
  <2>5. CASE Refused
    <3>1. PICK k \in 1..Len(toClient) :
            /\ k = Len(toClient)
            /\ toClient[k] = Nak
            /\ \A i \in 1..(k - 1) : toClient[i] \in ClientFrames
      BY <2>5 DEF Refused
    <3>2. /\ k \in 1..Len(toClient') /\ k = Len(toClient') /\ toClient'[k] = Nak
          /\ \A i \in 1..(k - 1) : toClient'[i] \in ClientFrames
      BY <2>1, <2>2, <3>1
    <3>3. Refused'
      BY <1>1, <1>4, <2>5, <3>2 DEF Refused
    <3> QED
      BY <3>3 DEF Conversation
  <2>6. CASE Taken
    <3>1. PICK k \in 1..Len(toClient) :
            TakenAt(toClient, k) /\ (phase \in {"run", "ended"} => k = Len(toClient))
      BY <2>6 DEF Taken
    <3>2. k # 1
      BY <2>2, <3>1 DEF TakenAt
    <3>3. k \in 1..Len(toClient') /\ TakenAt(toClient, k)'
      BY <1>1, <2>1, <3>1, <3>2 DEF TakenAt, Copy
    <3>4. Taken'
      BY <1>1, <1>2, <1>4, <2>1, <2>6, <3>1, <3>3 DEF Taken
    <3> QED
      BY <3>4 DEF Conversation
  <2> QED
    BY <2>1, <2>3, <2>4, <2>5, <2>6 DEF Conversation, Resumed
<1> QED
  BY <1>3, <1>4 DEF noise

LEMMA ConversationStep == StubTypes /\ Conversation /\ [GdbNext]_gdbVars => Conversation'
<1> SUFFICES ASSUME StubTypes, Conversation, [GdbNext]_gdbVars, cphase' # "gone"
             PROVE  Conversation'
  BY DEF Conversation
<1>a. ASSUME cphase = "gone" PROVE FALSE
  BY <1>a DEF GdbNext, Stub, Client, gdbserver_start, putpacket_wait, putpacket_eof,
     gdbserver_handle_exception, KVM_RUN, final_exit, client_receive,
     client_receive_packet, client_receive_ack, client_timeout, client_ask,
     client_interrupt, client_disconnect, noise, gdbVars, client
<1>b. connected
  BY <1>a DEF StubTypes, StateTypes
<1>c. /\ served \in Nat /\ "RIP" \in Registers /\ registers["RIP"] \in Values
      /\ vcpu \in RegisterFile /\ vcpu["RIP"] \in Values
  BY GdbAssumption DEF StubTypes, StateTypes, RegisterFile, Registers
<1>d. ASSUME NEW v \in Values
      PROVE  [op |-> "T", rip |-> v] \in Replies /\ [op |-> "T", rip |-> v].op = "T"
  BY DEF Replies
<1>1. CASE gdbserver_start
  <2>1. putpacket(served, << >>, [op |-> "T", rip |-> registers["RIP"]], "notify")
    BY <1>1 DEF gdbserver_start, stop_packet
  <2> QED
    BY <1>1, <2>1, <1>a, <1>c, <1>d, ReportSent DEF gdbserver_start, client
<1>2. CASE putpacket_wait
  BY <1>2, <1>a, WaitStep
<1>3. CASE putpacket_eof
  BY <1>3, <1>b DEF putpacket_eof
<1>4. CASE gdbserver_handle_exception
  BY <1>4, <1>a, ServeStep
<1>5. CASE KVM_RUN
  <2>1. phase = "run" /\ UNCHANGED <<toStub, cphase, request, asked, served>>
    BY <1>5 DEF KVM_RUN, client
  <2>2. CASE UNCHANGED <<phase, remcomOutBuffer, toClient>>
    BY <2>1, <2>2, ConversationStays
  <2>3. ASSUME NEW regs \in RegisterFile, NEW pc \in Values, kvm_handle_debug_exit(regs, pc)
        PROVE  Conversation'
    <3>1. registers'["RIP"] = pc
      BY <2>3, <1>c DEF kvm_handle_debug_exit, RegisterFile
    <3>2. putpacket(served, << >>, [op |-> "T", rip |-> pc], "notify")
      BY <2>3, <3>1 DEF kvm_handle_debug_exit, stop_packet
    <3> QED
      BY <3>2, <2>1, <1>a, <1>d, ReportSent
  <2>4. PICK next : next = [vcpu EXCEPT !["RIP"] = (vcpu["RIP"] + 1) % N]
    OBVIOUS
  <2>5. next \in RegisterFile /\ next["RIP"] \in Values
    BY <2>4, <1>c, NextInstruction DEF RegisterFile
  <2>6. \/ kvm_handle_debug_exit(vcpu, vcpu["RIP"])
        \/ kvm_handle_debug_exit(next, next["RIP"])
        \/ UNCHANGED <<phase, remcomOutBuffer, toClient>>
    BY <1>5, <2>4 DEF KVM_RUN
  <2> QED
    BY <2>2, <2>3, <2>5, <2>6, <1>c
<1>6. CASE final_exit
  <2>1. /\ [op |-> "X"] \in Replies /\ [op |-> "X"].op = "X"
        /\ putpacket(served, << >>, [op |-> "X"], "bye")
    BY <1>6 DEF final_exit, Replies
  <2> QED
    BY <1>6, <2>1, <1>a, ReportSent DEF final_exit, client
<1>7. CASE client_receive
  BY <1>7, PacketStep, AckStep DEF client_receive
<1>8. CASE client_timeout
  <2>1. /\ cphase = "ack" /\ cphase' = "idle" /\ request.op = "overlong"
        /\ UNCHANGED <<phase, remcomOutBuffer, toStub, toClient, request, asked, served>>
    BY <1>8 DEF client_timeout
  <2>2. Settled
    BY <2>1 DEF Conversation, Resumed, Awaiting, Refused, Taken
  <2>3. Settled'
    BY <2>1, <2>2 DEF Settled, Unread, AckedAt, Again, OnlyFrames
  <2> QED
    BY <2>3 DEF Conversation
<1>9. CASE \E r \in Asks : client_ask(r)
  BY <1>9, AskStep
<1>10. CASE client_interrupt
  <2>1. /\ cphase = "stop" /\ toStub' = Append(toStub, Break)
        /\ UNCHANGED <<phase, remcomOutBuffer, toClient, cphase, request, asked, served>>
    BY <1>10 DEF client_interrupt, client
  <2>2. CASE Resumed
    <3>1. OnlyAgain(Append(toStub, Break))
      BY <2>2, AgainKept DEF Resumed
    <3>2. Resumed'
      BY <2>1, <2>2, <3>1 DEF Resumed, OnlyAgain, Again
    <3> QED
      BY <3>2 DEF Conversation
  <2>3. CASE Awaiting
    <3>1. OnlyAgain(Append(toStub, Break))
      BY <2>3, AgainKept DEF Awaiting
    <3>2. OnlyAgain(toStub)' /\ OnlyCopies(toClient)' /\ Answering'
      BY <2>1, <2>3, <3>1 DEF Awaiting, OnlyAgain, Again, OnlyCopies, Copy, Answering,
         Expected, IsBad
    <3>3. Awaiting'
      BY <2>1, <2>3, <3>2 DEF Awaiting
    <3> QED
      BY <3>3 DEF Conversation
  <2> QED
    BY <2>1, <2>2, <2>3 DEF Conversation, Settled, Refused, Taken
<1>11. CASE client_disconnect
  BY <1>11 DEF client_disconnect
<1>12. CASE noise
  BY <1>12, <1>a, NoiseStep
<1>13. CASE UNCHANGED gdbVars
  BY <1>13, ConversationStays DEF gdbVars, client
<1> QED
  BY <1>1, <1>2, <1>3, <1>4, <1>5, <1>6, <1>7, <1>8, <1>9, <1>10, <1>11, <1>12, <1>13
  DEF GdbNext, Stub, Client

-----------------------------------------------------------------------------
(***************************************************************************)
(* Third layer: what is known of the guest.                                *)
(***************************************************************************)
LEMMA TruthInit == GdbInit => Truth
<1> SUFFICES ASSUME GdbInit PROVE Truth
  OBVIOUS
<1>1. view \in [Registers -> Values \cup {Unknown}]
  BY DEF GdbInit
<1>2. Stopped
  BY DEF GdbInit, Stopped, Registers
<1>3. Pending => AnswerTrue /\ ResumeTrue
  BY DEF GdbInit, AnswerTrue, ResumeTrue
<1> QED
  BY <1>1, <1>2, <1>3 DEF GdbInit, Truth

LEMMA TruthStays ==
  ASSUME Truth,
         UNCHANGED <<phase, guest, registers, singlestep, remcomOutBuffer, cphase, request,
                     view, asked, served>>
  PROVE  Truth'
<1>1. UNCHANGED <<phase, vcpu, memory, registers, singlestep, remcomOutBuffer, cphase, request,
                  view, asked, served>>
  BY DEF guest
<1>2. Stopped => Stopped'
  BY <1>1 DEF Stopped
<1>3. AnswerTrue => AnswerTrue'
  BY <1>1 DEF AnswerTrue, FitsBut
<1>4. ResumeTrue => ResumeTrue'
  BY <1>1 DEF ResumeTrue
<1>5. Pending' => Pending
  BY <1>1 DEF Pending
<1> QED
  BY <1>1, <1>2, <1>3, <1>4, <1>5 DEF Truth, FitsBut

\* A G or P request keeps copy and guest together.
LEMMA SetStopped ==
  ASSUME StubTypes, NEW r \in Requests, r.op \in {"G", "P"}, ~IsBad(r), set_registers(r)
  PROVE  /\ \A x \in General : registers'[x] = vcpu'[x]
         /\ r.op = "G" => \A x \in General : vcpu'[x] = r.regs[x]
         /\ r.op = "P" => \A x \in General :
                             vcpu'[x] = IF x = r.reg THEN r.val ELSE registers[x]
<1>1. registers \in RegisterFile /\ vcpu \in RegisterFile
  BY DEF StubTypes, StateTypes
<1>2. registers' = IF r.op = "G" THEN r.regs ELSE [registers EXCEPT ![r.reg] = r.val]
  BY DEF set_registers
<1>3. vcpu' = [x \in Registers |-> IF x \in General THEN registers'[x] ELSE vcpu[x]]
  BY DEF set_registers, kvm_load_registers_from_gdbcache
<1>4. \A x \in General : vcpu'[x] = registers'[x]
  BY <1>3 DEF Registers
<1> QED
  BY <1>1, <1>2, <1>4, RequestShape DEF RegisterFile, Registers

\* The stub takes a request.
LEMMA TruthServe ==
  ASSUME StubTypes, Conversation, Truth, gdbserver_handle_exception
  PROVE  Truth'
<1> PICK m : m = Head(toStub)
  OBVIOUS
<1>1. /\ phase = "serve" /\ getpacket(m) /\ toStub # << >>
      /\ UNCHANGED <<cphase, request, view, asked>>
  BY DEF gdbserver_handle_exception, client
<1>2. /\ m \in Messages(Asks) /\ m = toStub[1] /\ 1 \in 1..Len(toStub)
      /\ asked \in Nat /\ served \in 0..asked /\ "RIP" \in General
  BY <1>1, Taking, GdbAssumption DEF StubTypes, StubQueue, StateTypes
<1>3. CASE m.kind # "frame" \/ (m.kind = "frame" /\ m.body.op = "overlong")
  BY <1>1, <1>3, TruthStays DEF getpacket
<1>4. CASE m.kind = "frame" /\ m.body.op # "overlong" /\ ~m.good
  BY <1>1, <1>4, TruthStays DEF getpacket
<1>5. CASE m.kind = "frame" /\ m.body.op # "overlong" /\ m.good
  <2> PICK r : r = m.body
    OBVIOUS
  <2>1. served' = m.n /\ (process_request(r) \/ process_resume(r))
    BY <1>1, <1>5 DEF getpacket
  <2>2. r \in Requests /\ r.op # "overlong"
    BY <1>2, <1>5, MessageKinds, GdbAssumption
  <2>3. cphase # "gone" =>
          /\ cphase = "ack" /\ r = request /\ m.n = asked
          /\ FitsBut({}) /\ view["RIP"] # Unknown
    <3> SUFFICES ASSUME cphase # "gone"
                 PROVE  /\ cphase = "ack" /\ r = request /\ m.n = asked
                        /\ FitsBut({}) /\ view["RIP"] # Unknown
      OBVIOUS
    <3>1. Settled /\ Unread(toStub)
      BY <1>1 DEF Conversation, Resumed, Awaiting, Answering, Packets, Settled, Refused, Taken
    <3>2. cphase = "ack" /\ m.n = asked /\ r = request
      BY <3>1, <1>2, <1>5 DEF Unread
    <3>3. served < asked /\ asked > 0
      BY <3>1, <3>2, <1>2 DEF Settled
    <3> QED
      BY <3>2, <3>3 DEF Truth
  <2>4. Stopped /\ \A x \in General : registers[x] = vcpu[x]
    BY <1>1 DEF Truth, Stopped
  <2>5. CASE process_request(r)
    <3>1. r.op \notin {"s", "c", "k"} /\ phase' = "reply" /\ remcomOutBuffer' = answer(r)
      BY <2>5 DEF process_request, putpacket
    <3>2. CASE r.op \in {"G", "P"} /\ ~IsBad(r)
      <4>1. set_registers(r)
        BY <2>5, <3>2 DEF process_request
      <4>2. /\ \A x \in General : registers'[x] = vcpu'[x]
            /\ r.op = "G" => \A x \in General : vcpu'[x] = r.regs[x]
            /\ r.op = "P" => \A x \in General :
                                vcpu'[x] = IF x = r.reg THEN r.val ELSE registers[x]
        BY <4>1, <2>2, <3>2, SetStopped
      <4>3. Stopped'
        BY <4>2, <3>1 DEF Stopped
      <4>4. remcomOutBuffer' = [op |-> "OK"]
        BY <3>1, <3>2, RequestShape DEF answer
      <4>5. ASSUME cphase # "gone" PROVE AnswerTrue' /\ ResumeTrue'
        <5>1. request' = r /\ r.op \in {"G", "P"} /\ FitsBut({})
          BY <4>5, <1>1, <2>3, <3>2
        <5>2. r.op = "P" => FitsBut({r.reg})'
          BY <1>1, <4>2, <2>4, <5>1 DEF FitsBut
        <5>3. AnswerTrue'
          BY <4>2, <4>4, <5>1, <5>2 DEF AnswerTrue
        <5>4. ResumeTrue'
          BY <3>1, <5>1 DEF ResumeTrue
        <5> QED
          BY <5>3, <5>4
      <4>6. cphase # "gone" => view["RIP"] # Unknown /\ cphase' = "ack" /\ served' = asked'
        BY <1>1, <2>1, <2>3
      <4> QED
        BY <1>1, <1>2, <4>3, <4>5, <4>6 DEF Truth
    <3>3. CASE ~(r.op \in {"G", "P"} /\ ~IsBad(r))
      <4>1. UNCHANGED <<registers, vcpu>>
        BY <2>5, <3>3 DEF process_request
      <4>2. Stopped'
        BY <2>4, <3>1, <4>1 DEF Stopped
      <4>3. ASSUME cphase # "gone" PROVE AnswerTrue' /\ ResumeTrue'
        <5>1. request' = r /\ r = request /\ FitsBut({})
          BY <4>3, <1>1, <2>3
        <5>2. FitsBut({})'
          BY <1>1, <4>1, <5>1 DEF FitsBut
        <5>3. ~(remcomOutBuffer'.op = "OK" /\ r.op \in {"G", "P"})
          <6>1. r.op \in {"G", "P"} => IsBad(r)
            BY <3>3
          <6>2. IsBad(r) => answer(r) = [op |-> "E"]
            BY <2>2, RequestShape DEF answer
          <6> QED
            BY <6>1, <6>2, <3>1
        <5>4. /\ remcomOutBuffer'.op = "g" => remcomOutBuffer'.regs = registers
              /\ remcomOutBuffer'.op = "p" => r.op = "p" /\ ~IsBad(r) /\ remcomOutBuffer'.val = registers[r.reg]
          BY <2>2, <3>1, RequestShape DEF answer
        <5>5. AnswerTrue'
          BY <5>1, <5>2, <5>3, <5>4, <2>4, <4>1 DEF AnswerTrue
        <5>6. ResumeTrue'
          BY <3>1, <5>1 DEF ResumeTrue
        <5> QED
          BY <5>5, <5>6
      <4>4. cphase # "gone" => view["RIP"] # Unknown /\ cphase' = "ack" /\ served' = asked'
        BY <1>1, <2>1, <2>3
      <4> QED
        BY <1>1, <1>2, <4>2, <4>3, <4>4 DEF Truth
    <3> QED
      BY <3>2, <3>3
  <2>6. CASE process_resume(r)
    <3>1. /\ r.op \in {"s", "c", "k"} /\ phase' \in {"run", "ended"}
          /\ r.op # "k" => singlestep' = (r.op = "s")
          /\ UNCHANGED <<vcpu, memory, registers, remcomOutBuffer>>
      BY <2>6 DEF process_resume, kvm_debug_set_step, guest
    <3>2. Stopped'
      BY <3>1 DEF Stopped
    <3>3. ASSUME cphase # "gone" PROVE AnswerTrue' /\ ResumeTrue'
      <4>1. request' = r /\ vcpu["RIP"] = view["RIP"] /\ view' = view
        BY <3>3, <1>1, <1>2, <2>3 DEF FitsBut
      <4> QED
        BY <3>1, <4>1 DEF AnswerTrue, ResumeTrue
    <3>4. cphase # "gone" => view["RIP"] # Unknown /\ cphase' = "ack" /\ served' = asked'
      BY <1>1, <2>1, <2>3
    <3> QED
      BY <1>1, <1>2, <3>2, <3>3, <3>4 DEF Truth
  <2> QED
    BY <2>1, <2>5, <2>6
<1>6. m.kind = "frame" => m.good \in BOOLEAN
  BY <1>2, MessageKinds
<1> QED
  BY <1>3, <1>4, <1>5, <1>6

\* The guest executes an instruction.
LEMMA TruthRun ==
  ASSUME StubTypes, Conversation, Truth, KVM_RUN
  PROVE  Truth'
<1> PICK here : here = vcpu["RIP"]
  OBVIOUS
<1> PICK next : next = [vcpu EXCEPT !["RIP"] = (here + 1) % N]
  OBVIOUS
<1>1. /\ phase = "run"
      /\ UNCHANGED <<memory, singlestep, cphase, request, view, asked, served>>
  BY DEF KVM_RUN, client
<1>2. /\ "RIP" \in General /\ "RIP" \in Registers
      /\ vcpu \in RegisterFile /\ here \in Values /\ (here + 1) % N \in Values
      /\ memory \in [Values -> BOOLEAN] /\ singlestep \in BOOLEAN /\ asked \in Nat
  BY GdbAssumption, NextInstruction DEF StubTypes, StateTypes, RegisterFile, Registers
<1>3. next \in RegisterFile /\ next["RIP"] = (here + 1) % N
  BY <1>2 DEF RegisterFile
<1>4. cphase # "gone" => /\ served = asked /\ cphase \in {"stop", "ack"}
                         /\ request.op \in {"s", "c"} /\ ResumeTrue
  BY <1>1 DEF Conversation, Resumed, Awaiting, Answering, Packets, Settled, Refused, Taken,
     Truth, Pending
<1>5. ASSUME NEW regs \in RegisterFile, NEW pc, pc = regs["RIP"],
             kvm_handle_debug_exit(regs, pc), vcpu' = regs
      PROVE  /\ phase' = "notify" /\ remcomOutBuffer' = [op |-> "T", rip |-> pc]
             /\ Stopped'
  <2>1. registers' = regs
    BY <1>5 DEF kvm_handle_debug_exit, RegisterFile
  <2>2. phase' = "notify" /\ remcomOutBuffer' = [op |-> "T", rip |-> pc]
    BY <1>5, <2>1 DEF kvm_handle_debug_exit, stop_packet, putpacket
  <2> QED
    BY <1>5, <2>1, <2>2 DEF Stopped
<1>6. CASE memory[here] /\ UNCHANGED vcpu /\ kvm_handle_debug_exit(vcpu, here)
  <2>1. /\ phase' = "notify" /\ remcomOutBuffer' = [op |-> "T", rip |-> here]
        /\ Stopped'
    BY <1>2, <1>5, <1>6
  <2>2. cphase # "gone" => AnswerTrue' /\ ResumeTrue'
    BY <1>1, <1>4, <1>6, <2>1 DEF AnswerTrue, ResumeTrue
  <2> QED
    BY <1>1, <1>2, <1>4, <2>1, <2>2 DEF Truth
<1>7. CASE singlestep /\ vcpu' = next /\ kvm_handle_debug_exit(next, next["RIP"])
  <2>1. /\ phase' = "notify" /\ remcomOutBuffer' = [op |-> "T", rip |-> (here + 1) % N]
        /\ Stopped'
    BY <1>3, <1>5, <1>7
  <2>2. cphase # "gone" => AnswerTrue' /\ ResumeTrue'
    BY <1>1, <1>4, <1>7, <2>1 DEF AnswerTrue, ResumeTrue
  <2> QED
    BY <1>1, <1>2, <1>4, <2>1, <2>2 DEF Truth
<1>8. CASE ~singlestep /\ UNCHANGED <<phase, registers, remcomOutBuffer>>
  <2>1. Stopped'
    BY <1>1, <1>8 DEF Stopped
  <2>2. cphase # "gone" => AnswerTrue' /\ ResumeTrue'
    BY <1>1, <1>4, <1>8 DEF AnswerTrue, ResumeTrue
  <2> QED
    BY <1>1, <1>2, <1>4, <2>1, <2>2 DEF Truth
<1> QED
  BY <1>2, <1>6, <1>7, <1>8 DEF KVM_RUN

\* What the client knows after the packet it waits for.
LEMMA TruthLearnt ==
  ASSUME StubTypes, Truth, Awaiting, phase # "bye"
  PROVE  /\ learnt(remcomOutBuffer) \in [Registers -> Values \cup {Unknown}]
         /\ learnt(remcomOutBuffer)["RIP"] # Unknown
         /\ \A r \in General : learnt(remcomOutBuffer)[r] # Unknown =>
                                learnt(remcomOutBuffer)[r] = vcpu[r]
<1> PICK b : b = remcomOutBuffer
  OBVIOUS
<1>1. /\ b \in Replies /\ request \in Requests /\ "RIP" \in General /\ "RIP" \in Registers
      /\ view \in [Registers -> Values \cup {Unknown}] /\ General \subseteq Registers
      /\ b.op \in Expected(request) /\ Answering
  BY RequestKnown, GdbAssumption DEF StubTypes, ClientQueue, Truth, Registers, Awaiting, Answering
<1>2. \A v \in Values : v # Unknown
  BY DEF Values, Unknown
<1>3. CASE b.op = "T"
  <2>1. learnt(b) = [[r \in Registers |-> Unknown] EXCEPT !["RIP"] = b.rip]
    BY <1>3 DEF learnt
  <2>2. b.rip \in Values /\ b.rip = vcpu["RIP"]
    BY <1>1, <1>3, ReplyShape DEF Truth, Stopped, Answering
  <2> QED
    BY <1>1, <1>2, <2>1, <2>2
<1>4. CASE b.op # "T"
  <2>1. phase = "reply"
    BY <1>1, <1>4 DEF Answering, Packets
  <2>2. request.op \notin {"s", "c"}
    BY <1>1, <1>4, <2>1, StopExpected DEF Answering
  <2>3. AnswerTrue
    BY <2>2 DEF Awaiting, Pending, Truth
  <2>4. asked > 0 /\ view["RIP"] # Unknown
    BY <2>2 DEF Awaiting, StubTypes, StateTypes, Truth
  <2>5. CASE b.op = "g"
    <3>1. learnt(b) = b.regs
      BY <2>5 DEF learnt
    <3>2. b.regs \in RegisterFile /\ \A r \in General : b.regs[r] = vcpu[r]
      BY <1>1, <2>1, <2>3, <2>5, ReplyShape DEF AnswerTrue
    <3> QED
      BY <1>1, <1>2, <3>1, <3>2 DEF RegisterFile
  <2>6. CASE b.op = "p"
    <3>1. learnt(b) = [view EXCEPT ![request.reg] = b.val]
      BY <2>6 DEF learnt
    <3>2. request.op = "p" /\ ~IsBad(request)
      BY <1>1, <2>6, RequestShape DEF Expected, IsBad
    <3>3. b.val \in Values /\ request.reg \in Registers
      BY <1>1, <2>6, <3>2, ReplyShape, RequestShape
    <3>4. (request.reg \in General => b.val = vcpu[request.reg]) /\ FitsBut({})
      BY <2>1, <2>3, <2>6 DEF AnswerTrue
    <3> QED
      BY <1>1, <1>2, <2>4, <3>1, <3>3, <3>4 DEF FitsBut
  <2>7. CASE b.op = "OK" /\ request.op = "G"
    <3>1. learnt(b) = request.regs
      BY <2>7 DEF learnt
    <3>2. request.regs \in RegisterFile /\ \A r \in General : request.regs[r] = vcpu[r]
      BY <1>1, <2>1, <2>3, <2>7, RequestShape DEF AnswerTrue
    <3> QED
      BY <1>1, <1>2, <3>1, <3>2 DEF RegisterFile
  <2>8. CASE b.op = "OK" /\ request.op = "P"
    <3>1. learnt(b) = [view EXCEPT ![request.reg] = request.val]
      BY <2>8 DEF learnt
    <3>2. ~IsBad(request)
      BY <1>1, <2>8, RequestShape DEF Expected, IsBad
    <3>3. request.val \in Values /\ request.reg \in Registers
      BY <1>1, <2>8, <3>2, RequestShape
    <3>4. /\ request.reg \in General => request.val = vcpu[request.reg]
          /\ FitsBut({request.reg})
      BY <2>1, <2>3, <2>8 DEF AnswerTrue
    <3> QED
      BY <1>1, <1>2, <2>4, <3>1, <3>3, <3>4 DEF FitsBut
  <2>9. CASE b.op \notin {"T", "g", "p"} /\ ~(b.op = "OK" /\ request.op \in {"G", "P"})
    <3>1. learnt(b) = view
      BY <2>9 DEF learnt
    <3>2. FitsBut({})
      BY <2>1, <2>3, <2>9 DEF AnswerTrue
    <3> QED
      BY <1>1, <2>4, <3>1, <3>2 DEF FitsBut
  <2> QED
    BY <1>4, <2>5, <2>6, <2>7, <2>8, <2>9
<1> QED
  BY <1>3, <1>4

\* The packet a waiting client reads: garbled, the end, or what it learns from.
LEMMA PacketRead ==
  ASSUME StubTypes, Conversation, client_receive, client_receive_packet(Head(toClient))
  PROVE  /\ Awaiting
         /\ \/ UNCHANGED <<cphase, view>>
            \/ cphase' = "gone" /\ view' = view
            \/ cphase' = "idle" /\ phase # "bye" /\ view' = learnt(remcomOutBuffer)
<1> PICK m : m = Head(toClient)
  OBVIOUS
<1>1. toClient # << >> /\ cphase \in {"stop", "reply"}
  BY DEF client_receive, client_receive_packet
<1>2. Awaiting
  BY <1>1 DEF Conversation, Resumed, Settled, Refused, Taken
<1>3. Copy(m)
  BY <1>1, <1>2, CopiesKept DEF Awaiting
<1>4. m.kind = "frame" /\ m.good \in BOOLEAN /\ m.body = remcomOutBuffer
  BY <1>3 DEF Copy, ClientFrames, Frames
<1>5. CASE ~m.good
  BY <1>2, <1>4, <1>5 DEF client_receive_packet
<1>6. CASE m.good
  <2>1. /\ cphase' = IF remcomOutBuffer.op = "X" THEN "gone" ELSE "idle"
        /\ view' = learnt(remcomOutBuffer)
    BY <1>4, <1>6 DEF client_receive_packet
  <2>2. phase = "bye" <=> remcomOutBuffer.op = "X"
    BY <1>2 DEF Awaiting, Answering
  <2>3. remcomOutBuffer.op = "X" => learnt(remcomOutBuffer) = view
    BY DEF learnt
  <2> QED
    BY <1>2, <2>1, <2>2, <2>3
<1> QED
  BY <1>4, <1>5, <1>6

LEMMA TruthStep ==
  StubTypes /\ Conversation /\ Truth /\ [GdbNext]_gdbVars => Truth'
<1> SUFFICES ASSUME StubTypes, Conversation, Truth, [GdbNext]_gdbVars PROVE Truth'
  OBVIOUS
<1>a. asked \in Nat /\ served \in 0..asked /\ (~connected => cphase = "gone")
  BY DEF StubTypes, StateTypes
<1>1. CASE gdbserver_start
  <2>1. /\ phase = "accept" /\ phase' = "notify" /\ remcomOutBuffer' = stop_packet(registers)
        /\ UNCHANGED <<vcpu, memory, registers, singlestep, cphase, request, view, asked, served>>
    BY <1>1 DEF gdbserver_start, putpacket, guest, client
  <2>2. Stopped'
    BY <2>1, GdbAssumption DEF Truth, Stopped, stop_packet
  <2>3. cphase # "gone" => cphase = "stop" /\ asked = 0 /\ served = asked
    BY <2>1 DEF Conversation, Resumed, Awaiting, Answering, Packets, Settled, Refused, Taken
  <2>4. cphase # "gone" => AnswerTrue' /\ ResumeTrue'
    BY <2>1, <2>3 DEF AnswerTrue, ResumeTrue
  <2> QED
    BY <2>1, <2>2, <2>3, <2>4 DEF Truth
<1>2. CASE putpacket_wait \/ putpacket_eof
  <2>1. /\ phase \in {"notify", "reply", "bye"} /\ phase' \in {phase, after_putpacket, "ended"}
        /\ UNCHANGED <<vcpu, memory, registers, singlestep, remcomOutBuffer, cphase, request,
                       view, asked, served>>
    BY <1>2 DEF putpacket_wait, putpacket_eof, putpacket, guest, client
  <2>2. phase' \in {phase, "serve", "ended"} /\ (phase' = "serve" => phase # "bye")
    BY <2>1 DEF after_putpacket
  <2>3. Stopped'
    BY <2>1, <2>2 DEF Truth, Stopped
  <2>4. /\ AnswerTrue => AnswerTrue'
        /\ ResumeTrue => ResumeTrue'
        /\ Pending' => Pending
        /\ FitsBut({}) => FitsBut({})'
    <3>1. CASE phase' = phase
      BY <2>1, <3>1 DEF AnswerTrue, ResumeTrue, Pending, FitsBut
    <3>2. CASE phase' \in {"serve", "ended"}
      BY <2>1, <3>2 DEF AnswerTrue, ResumeTrue, Pending, FitsBut
    <3> QED
      BY <2>2, <3>1, <3>2
  <2> QED
    BY <2>1, <2>3, <2>4 DEF Truth
<1>3. CASE gdbserver_handle_exception
  BY <1>3, TruthServe
<1>4. CASE KVM_RUN
  BY <1>4, TruthRun
<1>5. CASE final_exit
  <2>1. /\ phase' = "bye"
        /\ UNCHANGED <<vcpu, view, cphase, asked, served>>
    BY <1>5 DEF final_exit, putpacket, guest, client
  <2>2. Stopped' /\ AnswerTrue' /\ ResumeTrue' /\ (FitsBut({}) => FitsBut({})')
    BY <2>1 DEF Stopped, AnswerTrue, ResumeTrue, FitsBut
  <2> QED
    BY <2>1, <2>2 DEF Truth
<1>6. CASE client_receive
  <2>1. UNCHANGED <<phase, guest, registers, singlestep, remcomOutBuffer, request, asked, served>>
    BY <1>6 DEF client_receive
  <2>2. UNCHANGED <<phase, vcpu, memory, registers, singlestep, remcomOutBuffer, request, asked,
                    served>>
    BY <2>1 DEF guest
  <2>3. Stopped'
    BY <2>2 DEF Truth, Stopped
  <2>4. CASE client_receive_packet(Head(toClient))
    <3>1. Awaiting
      BY <1>6, <2>4, PacketRead
    <3>2. CASE UNCHANGED <<cphase, view>>
      BY <2>1, <3>2, TruthStays
    <3>3. CASE cphase' = "gone" /\ view' = view
      BY <2>3, <3>3 DEF Truth
    <3>4. CASE cphase' = "idle" /\ phase # "bye" /\ view' = learnt(remcomOutBuffer)
      <4>1. /\ view' \in [Registers -> Values \cup {Unknown}]
            /\ view'["RIP"] # Unknown
            /\ \A r \in General : view'[r] # Unknown => view'[r] = vcpu[r]
        BY <3>1, <3>4, TruthLearnt
      <4>2. FitsBut({})' /\ ~Pending'
        BY <2>2, <3>4, <4>1 DEF FitsBut, Pending
      <4> QED
        BY <2>3, <4>1, <4>2 DEF Truth
    <3> QED
      BY <1>6, <2>4, <3>2, <3>3, <3>4, PacketRead
  <2>5. CASE client_receive_ack(Head(toClient))
    <3>1. cphase = "ack" /\ view' = view /\ cphase' \in {"ack", "stop", "reply", "gone"}
      BY <2>5 DEF client_receive_ack
    <3>2. /\ AnswerTrue => AnswerTrue'
          /\ ResumeTrue => ResumeTrue'
          /\ FitsBut({}) => FitsBut({})'
          /\ Pending' => Pending
      BY <2>2, <3>1 DEF AnswerTrue, ResumeTrue, FitsBut, Pending
    <3> QED
      BY <2>2, <2>3, <3>1, <3>2 DEF Truth
  <2> QED
    BY <1>6, <2>4, <2>5 DEF client_receive
<1>7. CASE client_timeout
  <2>1. /\ cphase = "ack" /\ cphase' = "idle" /\ request.op = "overlong"
        /\ UNCHANGED <<phase, vcpu, registers, remcomOutBuffer, view, asked, served>>
    BY <1>7 DEF client_timeout, guest
  <2>2. served < asked /\ asked > 0
    BY <2>1, <1>a DEF Conversation, Resumed, Awaiting, Settled, Refused, Taken
  <2>3. FitsBut({}) /\ view["RIP"] # Unknown
    BY <2>1, <2>2 DEF Truth
  <2>4. Stopped' /\ FitsBut({})' /\ ~Pending'
    BY <2>1, <2>3 DEF Truth, Stopped, FitsBut, Pending
  <2> QED
    BY <2>1, <2>3, <2>4 DEF Truth
<1>8. CASE \E r \in Asks : client_ask(r)
  <2>1. /\ cphase = "idle" /\ cphase' = "ack" /\ asked' = asked + 1 /\ served' = served
        /\ UNCHANGED <<phase, vcpu, registers, remcomOutBuffer, view>>
    BY <1>8 DEF client_ask, guest
  <2>2. FitsBut({}) /\ view["RIP"] # Unknown
    BY <2>1 DEF Truth
  <2>3. Stopped' /\ FitsBut({})' /\ ~Pending'
    BY <2>1, <2>2, <1>a DEF Truth, Stopped, FitsBut, Pending
  <2> QED
    BY <2>1, <2>2, <2>3 DEF Truth
<1>9. CASE client_interrupt \/ noise
  BY <1>9, TruthStays DEF client_interrupt, noise, client
<1>10. CASE client_disconnect
  <2>1. cphase' = "gone" /\ UNCHANGED <<phase, vcpu, registers, remcomOutBuffer, view>>
    BY <1>10 DEF client_disconnect, guest
  <2> QED
    BY <2>1 DEF Truth, Stopped
<1>11. CASE UNCHANGED gdbVars
  BY <1>11, TruthStays DEF gdbVars, client
<1> QED
  BY <1>1, <1>2, <1>3, <1>4, <1>5, <1>6, <1>7, <1>8, <1>9, <1>10, <1>11
  DEF GdbNext, Stub, Client

-----------------------------------------------------------------------------
(***************************************************************************)
(* The invariant, and what follows from it.                                *)
(***************************************************************************)
GdbInv == StubTypes /\ Conversation /\ Truth

\* GdbInv holds whatever the client asks and whatever is lost on the way
\* (getpacket, putpacket, gdbserver_handle_exception, the run loop).
THEOREM GdbInvariant == GdbSpec => []GdbInv
<1>1. GdbInit => GdbInv
  BY TypesInit, ConversationInit, TruthInit DEF GdbInv
<1>2. GdbInv /\ [GdbNext]_gdbVars => GdbInv'
  BY TypesStep, ConversationStep, TruthStep DEF GdbInv
<1> QED
  BY <1>1, <1>2, PTL DEF GdbSpec

\* Types of the stub's state and of the client's view, GdbTypeOK.
THEOREM TypeCorrect == GdbSpec => []GdbTypeOK
<1>1. GdbInv => GdbTypeOK
  BY DEF GdbInv, StubTypes, StateTypes, Truth, GdbTypeOK
<1> QED
  BY <1>1, GdbInvariant, PTL

\* The packet a client takes for its answer is the answer to its request,
\* however often putpacket has sent it (ReplyMatches).
THEOREM ReplyCorrect == GdbSpec => []ReplyMatches
<1>1. GdbInv => ReplyMatches
  <2> SUFFICES ASSUME GdbInv, cphase \in {"stop", "reply"}, toClient # << >>
               PROVE  Head(toClient).n = asked /\ Head(toClient).body.op \in Expected(request)
    BY DEF ReplyMatches
  <2>1. Awaiting
    BY DEF GdbInv, Conversation, Resumed, Settled, Refused, Taken
  <2>2. Copy(Head(toClient))
    BY <2>1, CopiesKept DEF Awaiting, GdbInv
  <2> QED
    BY <2>1, <2>2 DEF Copy, Awaiting, Answering
<1> QED
  BY <1>1, GdbInvariant, PTL

\* What the user was shown, or has set, of the general registers is what the
\* guest will resume with (ViewTrue).
THEOREM ViewCorrect == GdbSpec => []ViewTrue
<1>1. GdbInv => ViewTrue
  BY DEF GdbInv, Truth, FitsBut, ViewTrue
<1> QED
  BY <1>1, GdbInvariant, PTL

\* A step executes one instruction and a continue stops at breakpoints only,
\* whatever was resumed or written before (ResumeHonoured).
THEOREM ResumeCorrect == GdbSpec => ResumeHonoured
<1> DEFINE A == cphase = "stop" /\ cphase' = "idle" /\ asked > 0 =>
                  CASE request.op = "c" -> memory[view'["RIP"]]
                    [] request.op = "s" -> \/ view'["RIP"] = (view["RIP"] + 1) % N
                                           \/ memory[view["RIP"]]
<1>1. ASSUME GdbInv, GdbNext PROVE A
  <2> SUFFICES ASSUME cphase = "stop", cphase' = "idle", asked > 0
               PROVE  CASE request.op = "c" -> memory[view'["RIP"]]
                        [] request.op = "s" -> \/ view'["RIP"] = (view["RIP"] + 1) % N
                                               \/ memory[view["RIP"]]
    OBVIOUS
  <2>1. client_receive
    BY <1>1 DEF GdbNext, Stub, Client, gdbserver_start, putpacket_wait, putpacket_eof,
       gdbserver_handle_exception, KVM_RUN, final_exit, client_timeout, client_ask,
       client_interrupt, client_disconnect, noise, client
  <2>2. client_receive_packet(Head(toClient))
    BY <2>1 DEF client_receive, client_receive_ack
  <2>3. Awaiting /\ phase # "bye" /\ view' = learnt(remcomOutBuffer)
    BY <1>1, <2>1, <2>2, PacketRead DEF GdbInv
  <2>4. request \in Requests /\ request.op \in {"s", "c"} /\ "RIP" \in Registers
    BY <1>1, <2>3, RequestKnown, GdbAssumption DEF GdbInv, Awaiting, Registers
  <2>5. remcomOutBuffer.op = "T" /\ phase = "notify"
    BY <2>3, <2>4, StopExpected DEF Awaiting, Answering
  <2>6. view'["RIP"] = remcomOutBuffer.rip
    BY <2>3, <2>4, <2>5 DEF learnt
  <2>7. ResumeTrue
    BY <1>1, <2>3 DEF GdbInv, Truth, Pending, Awaiting
  <2> QED
    BY <2>4, <2>5, <2>6, <2>7 DEF ResumeTrue
<1>2. GdbInv /\ [GdbNext]_gdbVars => [A]_gdbVars
  BY <1>1
<1>3. GdbSpec => [][A]_gdbVars
  <2> HIDE DEF A
  <2> QED
    BY <1>2, GdbInvariant, PTL DEF GdbSpec
<1> QED
  BY <1>3 DEF ResumeHonoured
=============================================================================
