---------------------------- MODULE IecBusProofs ----------------------------
(* Proofs about IecBus: types, what a call transfers, who hears it, and    *)
(* that the bus is free between calls.  The invariant says, for each rest  *)
(* of a call that todo can hold, what the devices have made of the part    *)
(* before it.                                                              *)
EXTENDS IecBus, SequenceTheorems, TLAPS

-----------------------------------------------------------------------------
(* The rests of a call.  A number counts the steps that are gone: Send2 is *)
(* what is left of Send(b) after two, with k to follow.                    *)

Then(s, k) == <<s>> \o k

Clock2(k) == Then(Until("DATA", "low"), k)
Clock1(b, k) == Then(<<"clock", b>>, Clock2(k))
Clock0(b, k) == Then(Sleep, Clock1(b, k))
Send3(b, k) == Then(<<"ready", b>>, k)
Send2(b, k) == Then(Until("DATA", "high"), Send3(b, k))
Send1(b, k) == Then(Free("CLK"), Send2(b, k))
Send0(b, k) == Then(Sleep, Send1(b, k))
Eoi1(b, k) == Then(Sleep, Send2(b, k))
Eoi0(b, k) == Then(<<"eoi">>, Eoi1(b, k))

Atn2(b, k) == Then(<<"probe", b>>, k)
Atn1(b, k) == Then(Sleep, Atn2(b, k))
Atn0(b, k) == Then(<<"attention">>, Atn1(b, k))
Call2(b, k) == Then(Free("CLK"), Atn0(b, k))
Call1(b, k) == Then(Free("DATA"), Call2(b, k))
Call0(b, k) == Then(<<"flush">>, Call1(b, k))

End3(k) == Then(Free("DATA"), k)
End2(k) == Then(Free("CLK"), End3(k))
End1(k) == Then(Sleep, End2(k))
End0(k) == Then(Free("ATN"), End1(k))
Unlisten0(k) == Then(<<"flush">>, Atn0(UNLISTEN, End0(k)))

Closed1 == Unlisten0(<<>>)
Closed0 == Then(Free("ATN"), Closed1)
Close0(d) == Call0(LISTEN(d), Atn0(CLOSE(1), Closed0))

OutSteps(msg, i) == [n \in 1 .. Len(msg) - i + 1 |-> <<"out", Data(msg[n + i - 1])>>]
Out0(msg, i) == OutSteps(msg, i) \o Unlisten0(Close0(4))
Opened0(msg) == Then(Free("ATN"), Out0(msg, 1))
Print0(d, msg) == Call0(LISTEN(d), Atn0(OPENCH(1), Opened0(msg)))

Untalk0 == Then(Pull("CLK"), Atn0(UNTALK, End0(<<>>)))
Receive3 == Then(<<"bits">>, <<>>)
Receive2 == Then(Until("DATA", "high"), Receive3)
Receive1 == Then(Free("DATA"), Receive2)
Receive0 == Then(<<"receive">>, Receive1)
Last1 == Then(Sleep, Receive1)
Last0 == Then(Pull("DATA"), Last1)
Take3(b) == Then(<<"store", b>>, <<>>)
Take2(b) == Then(Sleep, Take3(b))
Take1(b) == Then(Pull("DATA"), Take2(b))
Take0(b) == Then(Sleep, Take1(b))
Turn4(n) == IF n = 0 THEN Untalk0 ELSE Receive0
Turn3(n) == Then(Until("CLK", "low"), Turn4(n))
Turn2(n) == Then(Free("CLK"), Turn3(n))
Turn1(n) == Then(Free("ATN"), Turn2(n))
Turn0(n) == Then(Pull("DATA"), Turn1(n))
Status0(d, n) == Call0(TALK(d), Atn0(OPENCH(15), Turn0(n)))

Io4 == Then(Sleep, <<>>)
Io3 == Then(Pull("CLK"), Io4)
Io2 == Then(Free("DATA"), Io3)
Io1 == Then(Free("ATN"), Io2)
Io0 == Then(Sleep, Io1)

-----------------------------------------------------------------------------
(* Types. *)

States == {"idle", "hold", "ready", "got", "eoi",
           "turn", "clk", "offer", "due", "acked", "sent", "done"}
Roles == {"none", "listener", "talker"}
Letters == {<<n, x>> : n \in {"data", "listen", "talk", "open", "close"},
                       x \in Bytes \cup Called \cup {1, 4, 15, 31}}
Steps == {<<n>> : n \in {"attention", "sleep", "eoi", "receive", "bits", "flush"}}
  \cup {<<n, line>> : n \in {"pull", "free"}, line \in {"ATN", "CLK", "DATA"}}
  \cup {<<"until", line, level>> : line \in {"CLK", "DATA"}, level \in {"low", "high"}}
  \cup {<<n, b>> : n \in {"probe", "ready", "clock", "out", "store"}, b \in Letters}
DeviceRecord == [plugged : BOOLEAN, atn : BOOLEAN, role : Roles, state : States,
                 pull : SUBSET {"CLK", "DATA"}, heard : Seq([byte : Letters, last : BOOLEAN]),
                 last : BOOLEAN, sent : 0 .. Len(Text)]
Ops == {"none", "init", "print", "status", "close"}
CallRecord == [op : Ops, dev : Called \cup {0}, msg : Messages \cup {<<>>}, count : Counts \cup {0}]

(* What the state of a device says of its lines and of its role. *)
PullOf(state) == IF state \in {"hold", "eoi"} THEN {"DATA"}
                 ELSE IF state \in {"clk", "sent"} THEN {"CLK"} ELSE {}
StatesOf(role) == IF role = "none" THEN {"idle"}
                  ELSE IF role = "listener" THEN {"hold", "ready", "got", "eoi"}
                  ELSE {"turn", "clk", "offer", "due", "acked", "sent", "done"}
Fit(r) ==
  /\ r.pull = PullOf(r.state)
  /\ r.state \in IF r.atn THEN {"hold", "ready", "got"} ELSE StatesOf(r.role)
  /\ ~r.plugged => r = NoDevice
  /\ r.state = "done" => r.sent = Len(Text)

Base ==
  /\ dev \in [Devices -> DeviceRecord] /\ \A d \in Devices : Fit(dev[d])
  /\ call \in CallRecord
  /\ buffer \in Seq(Letters) /\ result \in Nat /\ terminator \in Int
  /\ TypeOK

-----------------------------------------------------------------------------
(* The bytes sent with ATN pulled, named for what they are part of; the    *)
(* first and the second time that iec_print has a device listen differ.    *)

Jobs == {"listen1", "open1", "unlisten1", "listen2", "close2", "unlisten2", "talk", "open3", "untalk"}
Second == {"listen2", "close2", "unlisten2"}
Target(j) == IF j \in Second /\ call.op = "print" THEN 4 ELSE call.dev
Byte(j) ==
  CASE j \in {"listen1", "listen2"} -> LISTEN(Target(j))
    [] j = "open1" -> OPENCH(1)
    [] j = "close2" -> CLOSE(1)
    [] j \in {"unlisten1", "unlisten2"} -> UNLISTEN
    [] j = "talk" -> TALK(Target(j))
    [] j = "open3" -> OPENCH(15)
    [] j = "untalk" -> UNTALK
Follow(j) ==
  CASE j = "listen1" -> Atn0(OPENCH(1), Opened0(call.msg))
    [] j = "open1" -> Opened0(call.msg)
    [] j = "unlisten1" -> End0(Close0(4))
    [] j = "listen2" -> Atn0(CLOSE(1), Closed0)
    [] j = "close2" -> Closed0
    [] j = "talk" -> Atn0(OPENCH(15), Turn0(call.count))
    [] j = "open3" -> Turn0(call.count)
    [] j \in {"unlisten2", "untalk"} -> End0(<<>>)
CallsOf(j) ==
  IF j \in {"listen1", "open1", "unlisten1"} THEN {"print"}
  ELSE IF j \in Second THEN {"print", "close"} ELSE {"status"}
RoleBefore(j) ==
  IF j \in {"open1", "unlisten1", "close2", "unlisten2"} THEN "listener"
  ELSE IF j \in {"open3", "untalk"} THEN "talker" ELSE "none"
RoleAfter(j) ==
  IF j \in {"listen1", "open1", "listen2", "close2"} THEN "listener"
  ELSE IF j \in {"talk", "open3"} THEN "talker" ELSE "none"

(* What holds whatever the devices do on their own. *)
Here(d) == d \in Devices /\ dev[d].plugged
RolesAre(d, role) ==
  \A e \in Devices : dev[e].role = IF dev[e].plugged /\ e = d THEN role ELSE "none"
Quiet == queue = None /\ eoi_pending = FALSE /\ \A d \in Devices : ~dev[d].last
Plain(n) == [i \in 1 .. n |-> [byte |-> Data(call.msg[i]), last |-> FALSE]]
Heard(n) == Here(call.dev) => dev[call.dev].heard = Plain(n)
HeardAll == Here(call.dev) => dev[call.dev].heard = Marked(call.msg)
HasSent(n) == Here(call.dev) => dev[call.dev].sent = n
Answered ==
  Here(call.dev) =>
    /\ Len(buffer) <= Len(Text) /\ buffer = StatusOf(Len(buffer))
    /\ Len(buffer) = BytesRead /\ result = Returned /\ terminator = result + 1
Served == (call.op = "print" => HeardAll) /\ (call.op = "status" => Answered)
Blank == buffer = <<>> /\ result = 0 /\ terminator = -1

Before(j) ==
  /\ call.op \in CallsOf(j) /\ Quiet /\ RolesAre(Target(j), RoleBefore(j))
  /\ j \in {"talk", "open3"} => Blank
  /\ j \in Second \cup {"unlisten1", "untalk"} => Served
After(j) ==
  /\ call.op \in CallsOf(j) /\ Quiet /\ RolesAre(Target(j), RoleAfter(j))
  /\ j \in {"talk", "open3"} => Blank
  /\ j = "open1" => Heard(0)
  /\ j = "open3" => HasSent(0)
  /\ j \in Second \cup {"unlisten1", "untalk"} => Served

-----------------------------------------------------------------------------
(* How far the devices are. *)

Off == "ATN" \notin host /\ \A d \in Devices : ~dev[d].atn
AllAtn(S) == "ATN" \in host /\ \A d \in Devices : dev[d].plugged => dev[d].atn /\ dev[d].state \in S
Holds(d) == "CLK" \in host /\ (Here(d) /\ dev[d].atn => dev[d].state \in {"hold", "got"})
Attentive(d) == Here(d) => Holds(d) \/ ("ATN" \notin host /\ ~dev[d].atn)
OffIn(S) == Off /\ \A d \in Devices : dev[d].role = "listener" => dev[d].state \in S
Says(S) == Here(call.dev) => ~dev[call.dev].atn /\ dev[call.dev].state \in S

(* A byte with ATN pulled ... *)
Attending(j) ==
  LET b == Byte(j)
      k == Follow(j)
  IN /\ Before(j)
     /\ \/ todo = Atn0(b, k) /\ Attentive(Target(j))
        \/ todo = Atn1(b, k) /\ "ATN" \in host /\ Holds(Target(j))
        \/ todo = Atn2(b, k) /\ AllAtn({"hold", "ready"}) /\ Holds(Target(j))
        \/ todo \in {Send0(b, k), Send1(b, k), Send2(b, k)} /\ AllAtn({"hold", "ready"})
        \/ todo \in {Send3(b, k), Clock0(b, k), Clock1(b, k)} /\ AllAtn({"ready"})

(* ... that the devices have, or that is not sent as nobody answered. *)
Attended(j) ==
  /\ After(j) /\ "DATA" \notin host
  /\ \/ /\ todo = Clock2(Follow(j))
        /\ AllAtn({"hold", "ready", "got"}) /\ Holds(Target(j))
     \/ todo = Then(Free("ATN"), Follow(j)) /\ ~Here(Target(j))

Calling(j) ==
  /\ Before(j) /\ Off
  /\ todo \in {Call0(Byte(j), Follow(j)), Call1(Byte(j), Follow(j)), Call2(Byte(j), Follow(j))}

Leaving(j) ==
  LET k == IF j = "unlisten1" THEN Close0(4) ELSE <<>>
  IN /\ After(j)
     /\ \/ todo = End0(k)
        \/ todo = End1(k) /\ "ATN" \notin host
        \/ todo \in {End2(k), End3(k)} /\ Off

Finished ==
  todo = <<>> /\ Off /\ "DATA" \notin host /\ Quiet /\ RolesAre(0, "none") /\ Served

Initialising ==
  /\ call.op = "init" /\ Off /\ Quiet /\ RolesAre(0, "none")
  /\ \/ todo \in {Io0, Io1, Io2}
     \/ todo \in {Io3, Io4} /\ "DATA" \notin host

Closing ==
  todo \in {Closed0, Closed1} /\ Before("unlisten2") /\ Attentive(Target("unlisten2"))

Listening == call.op = "print" /\ RolesAre(call.dev, "listener") /\ "DATA" \notin host
Opening == todo = Opened0(call.msg) /\ After("open1") /\ "DATA" \notin host /\ Attentive(call.dev)

(* Before the bytes of the message from i on; the one before it may be     *)
(* held back.                                                              *)
Printing(i) ==
  /\ Listening /\ "ATN" \notin host /\ todo = Out0(call.msg, i) /\ Attentive(call.dev)
  /\ eoi_pending = FALSE /\ \A d \in Devices : ~dev[d].last
  /\ \/ queue = None /\ Heard(i - 1) /\ (i <= Len(call.msg) \/ Len(call.msg) = 0)
     \/ i >= 2 /\ queue = Data(call.msg[i - 1]) /\ Heard(i - 2)

(* Byte i of the message is sent, as the last one or not. *)
Final(i) == i = Len(call.msg)
Marks(mark) == \A d \in Devices : dev[d].last = (mark /\ dev[d].role = "listener")
AfterByte(i) == IF Final(i) THEN Atn0(UNLISTEN, End0(Close0(4))) ELSE Out0(call.msg, i + 1)
Telling(i) ==
  LET b == Data(call.msg[i])
      k == AfterByte(i)
  IN /\ Listening /\ "ATN" \notin host /\ queue = None
     /\ eoi_pending => Final(i)
     /\ Heard(i - 1)
     /\ \/ /\ Marks(Final(i) /\ ~eoi_pending)
           /\ \/ todo = Send0(b, k) /\ eoi_pending = Final(i)
              \/ todo = Send1(b, k) /\ eoi_pending = Final(i) /\ OffIn({"hold", "ready", "eoi"})
              \/ todo = Send2(b, k) /\ OffIn({"hold", "ready", "eoi"})
              \/ todo = Send3(b, k) /\ OffIn({"ready"})
              \/ /\ todo \in {Clock0(b, k), Clock1(b, k)} /\ OffIn({"ready"})
                 /\ eoi_pending = FALSE
              \/ todo = Eoi1(b, k) /\ OffIn({"ready", "eoi"}) /\ Final(i) /\ eoi_pending = FALSE
        \/ /\ todo = Eoi0(b, k) /\ OffIn({"ready", "eoi"}) /\ eoi_pending
           /\ \A d \in Devices : dev[d].last = (dev[d].state = "eoi")
Told(i) ==
  /\ Listening /\ "ATN" \notin host /\ Quiet
  /\ todo = Clock2(AfterByte(i))
  /\ "CLK" \in host /\ OffIn({"got", "hold"})
  /\ IF Final(i) THEN HeardAll ELSE Heard(i)

(* A talker has been called and takes the bus over. *)
Talking == call.op = "status" /\ Quiet /\ RolesAre(call.dev, "talker")
Alone == Here(call.dev) /\ dev[call.dev].state \in {"offer", "due", "acked", "sent", "done"}
           => \A d \in Devices : ~dev[d].atn
Turning ==
  /\ Talking /\ Blank /\ HasSent(0)
  /\ \/ todo = Turn0(call.count) /\ (Here(call.dev) => "ATN" \in host /\ dev[call.dev].atn)
     \/ todo = Turn1(call.count) /\ "DATA" \in host /\ (Here(call.dev) => "ATN" \in host /\ dev[call.dev].atn)
     \/ /\ "DATA" \in host /\ "ATN" \notin host
        /\ Here(call.dev) => \/ dev[call.dev].atn
                             \/ dev[call.dev].state \in {"turn", "clk", "offer"} /\ Alone
        /\ \/ todo = Turn2(call.count)
           \/ todo = Turn3(call.count) /\ "CLK" \notin host

(* A byte is received: it is awaited, perhaps as the last one, or taken. *)
OnBus == "ATN" \notin host /\ "CLK" \notin host /\ Len(buffer) < call.count /\ Alone
Begun == Here(call.dev) => Len(buffer) < Len(Text) /\ buffer = StatusOf(Len(buffer))
IsLast == Here(call.dev) => Last(call.dev)
Awaiting ==
  /\ Talking /\ OnBus /\ Begun /\ HasSent(Len(buffer))
  /\ \/ todo = Receive0 /\ "DATA" \in host /\ Says({"clk", "offer", "sent"})
     \/ /\ rx_eoi = FALSE
        /\ \/ todo = Receive1 /\ "DATA" \in host /\ Says({"offer"})
           \/ todo \in {Receive2, Receive3} /\ "DATA" \notin host /\ Says({"offer", "due"})
     \/ /\ rx_eoi = TRUE /\ IsLast
        /\ \/ todo = Last0 /\ "DATA" \notin host /\ Says({"due"})
           \/ todo = Last1 /\ "DATA" \in host /\ Says({"due", "acked"})
           \/ todo = Receive1 /\ "DATA" \in host /\ Says({"acked"})
           \/ todo \in {Receive2, Receive3} /\ "DATA" \notin host /\ Says({"acked"})
Taking(i) ==
  LET b == Data(Text[i])
  IN /\ Talking /\ OnBus /\ Begun
     /\ Here(call.dev) =>
          /\ i = Len(buffer) + 1 /\ dev[call.dev].sent = i
          /\ rx_eoi = (i = Len(Text))
     /\ \/ todo \in {Take0(b), Take1(b)} /\ "DATA" \notin host /\ Says({"sent"})
        \/ todo \in {Take2(b), Take3(b)} /\ "DATA" \in host /\ Says({"sent", "clk", "offer", "done"})
Missing ==
  Talking /\ OnBus /\ todo = Take3(Data(Garbage)) /\ rx_eoi = TRUE /\ ~Here(call.dev)
Untalking == todo = Untalk0 /\ Before("untalk") /\ Attentive(call.dev)

Somewhere ==
  \/ Finished \/ Initialising \/ Closing \/ Opening
  \/ Turning \/ Awaiting \/ Missing \/ Untalking
  \/ \E i \in DOMAIN Text : Taking(i)
  \/ \E i \in 1 .. Len(call.msg) + 1 : Printing(i)
  \/ \E i \in 1 .. Len(call.msg) : Telling(i) \/ Told(i)
  \/ \E j \in Jobs : Attending(j) \/ Attended(j)
  \/ \E j \in {"listen1", "listen2", "talk"} : Calling(j)
  \/ \E j \in {"unlisten1", "unlisten2", "untalk"} : Leaving(j)
Inv == Base /\ Somewhere

-----------------------------------------------------------------------------
(* Rests of calls as sequences of steps. *)

(* A step and what follows it: the first step and the tail. *)
LEMMA ThenIs ==
  ASSUME NEW s \in Steps, NEW k \in Seq(Steps)
  PROVE  /\ Then(s, k) \in Seq(Steps)
         /\ Then(s, k) # <<>>
         /\ Then(s, k)[1] = s
         /\ Tail(Then(s, k)) = k
<1> DEFINE t == <<s>> \o k
<1>1. <<s>> \in Seq(Steps) /\ Len(<<s>>) = 1 /\ <<s>>[1] = s
  OBVIOUS
<1>2. t \in Seq(Steps) /\ Len(t) = 1 + Len(k) /\ t[1] = s
      /\ \A i \in 1 .. Len(k) : t[i + 1] = k[i]
  BY <1>1, LenProperties DEF t
<1>3. Tail(t) = k
  BY <1>2, HeadTailProperties, LenProperties, SeqEqual
<1> QED BY <1>1, <1>2, <1>3 DEF Then

(* The same for every step at once. *)
LEMMA ThenType ==
  \A s \in Steps, k \in Seq(Steps) : Then(s, k) \in Seq(Steps)
BY ThenIs

(* Concatenation with nothing, and from behind one step. *)
LEMMA Concat ==
  /\ \A k \in Seq(Steps) : <<>> \o k = k /\ k \o <<>> = k
  /\ \A s \in Steps : <<s>> = Then(s, <<>>)
  /\ \A s \in Steps, k \in Seq(Steps), r \in Seq(Steps) : Then(s, k) \o r = Then(s, k \o r)
<1>1. \A s \in Steps : <<s>> \in Seq(Steps)
  OBVIOUS
<1> QED BY <1>1, ConcatEmptySeq, ConcatAssociative DEF Then

(* The places of a step and what follows it. *)
LEMMA ThenAt ==
  ASSUME NEW s \in Steps, NEW k \in Seq(Steps)
  PROVE  /\ Then(s, k) \in Seq(Steps)
         /\ Len(Then(s, k)) = 1 + Len(k) /\ Then(s, k)[1] = s
         /\ \A i \in 1 .. Len(k) : Then(s, k)[i + 1] = k[i]
<1>1. <<s>> \in Seq(Steps) /\ Len(<<s>>) = 1 /\ <<s>>[1] = s
  OBVIOUS
<1> QED BY <1>1, LenProperties, ConcatProperties DEF Then

(* A sequence with these places is that step and what follows it. *)
LEMMA IsThen ==
  ASSUME NEW a \in Steps, NEW k \in Seq(Steps), NEW t \in Seq(Steps),
         Len(t) = Len(k) + 1, t[1] = a, \A i \in 1 .. Len(k) : t[i + 1] = k[i]
  PROVE  t = Then(a, k)
<1> DEFINE u == Then(a, k)
<1>1. /\ u \in Seq(Steps) /\ Len(u) = Len(k) + 1 /\ u[1] = a
      /\ \A i \in 1 .. Len(k) : u[i + 1] = k[i]
  BY ThenAt, LenProperties
<1> HIDE DEF u
<1>2. Len(k) \in Nat
  BY LenProperties
<1>3. ASSUME NEW i \in 1 .. Len(t) PROVE t[i] = u[i]
  <2>1. CASE i = 1
    BY <1>1, <2>1
  <2>2. CASE i # 1
    <3>1. i - 1 \in 1 .. Len(k) /\ i = (i - 1) + 1
      BY <1>2, <2>2
    <3>2. t[(i - 1) + 1] = k[i - 1] /\ u[(i - 1) + 1] = k[i - 1]
      BY <1>1, <3>1
    <3> QED BY <3>1, <3>2
  <2> QED BY <2>1, <2>2
<1>4. Len(t) = Len(u)
  BY <1>1
<1>5. t = u
  BY <1>1, <1>3, <1>4, SeqEqual
<1> QED BY <1>5 DEF u

(* Sequences that are written out, as steps that follow each other. *)
LEMMA Lists ==
  /\ \A a, b \in Steps : <<a, b>> = Then(a, Then(b, <<>>))
  /\ \A a, b, c \in Steps : <<a, b, c>> = Then(a, Then(b, Then(c, <<>>)))
  /\ \A a, b, c, d \in Steps : <<a, b, c, d>> = Then(a, Then(b, Then(c, Then(d, <<>>))))
<1>1. \A a, b \in Steps : <<a, b>> = Then(a, Then(b, <<>>))
  <2> TAKE a, b \in Steps
  <2> DEFINE k == <<b>>
             t == <<a, b>>
  <2>1. k \in Seq(Steps) /\ t \in Seq(Steps) /\ Len(t) = Len(k) + 1 /\ t[1] = a
        /\ \A i \in 1 .. Len(k) : t[i + 1] = k[i]
    OBVIOUS
  <2>2. k = Then(b, <<>>)
    BY Concat
  <2> HIDE DEF k, t
  <2>3. t = Then(a, k)
    BY IsThen, <2>1
  <2> QED BY <2>2, <2>3 DEF t
<1>2. \A a, b, c \in Steps : <<a, b, c>> = Then(a, Then(b, Then(c, <<>>)))
  <2> TAKE a, b, c \in Steps
  <2> DEFINE k == <<b, c>>
             t == <<a, b, c>>
  <2>1. k \in Seq(Steps) /\ t \in Seq(Steps) /\ Len(t) = Len(k) + 1 /\ t[1] = a
        /\ \A i \in 1 .. Len(k) : t[i + 1] = k[i]
    OBVIOUS
  <2>2. k = Then(b, Then(c, <<>>))
    BY <1>1
  <2> HIDE DEF k, t
  <2>3. t = Then(a, k)
    BY IsThen, <2>1
  <2> QED BY <2>2, <2>3 DEF t
<1>3. \A a, b, c, d \in Steps : <<a, b, c, d>> = Then(a, Then(b, Then(c, Then(d, <<>>))))
  <2> TAKE a, b, c, d \in Steps
  <2> DEFINE k == <<b, c, d>>
             t == <<a, b, c, d>>
  <2>1. k \in Seq(Steps) /\ t \in Seq(Steps) /\ Len(t) = Len(k) + 1 /\ t[1] = a
        /\ \A i \in 1 .. Len(k) : t[i + 1] = k[i]
    OBVIOUS
  <2>2. k = Then(b, Then(c, Then(d, <<>>)))
    BY <1>2
  <2> HIDE DEF k, t
  <2>3. t = Then(a, k)
    BY IsThen, <2>1
  <2> QED BY <2>2, <2>3 DEF t
<1> QED BY <1>1, <1>2, <1>3

(* The same for the longest of them. *)
LEMMA ListOfFive ==
  ASSUME NEW a \in Steps, NEW b \in Steps, NEW c \in Steps, NEW d \in Steps, NEW e \in Steps
  PROVE  <<a, b, c, d, e>> = Then(a, Then(b, Then(c, Then(d, Then(e, <<>>)))))
<1> DEFINE k == <<b, c, d, e>>
           t == <<a, b, c, d, e>>
<1>1. k \in Seq(Steps) /\ t \in Seq(Steps) /\ Len(t) = Len(k) + 1 /\ t[1] = a
      /\ \A i \in 1 .. Len(k) : t[i + 1] = k[i]
  OBVIOUS
<1>2. k = Then(b, Then(c, Then(d, Then(e, <<>>))))
  BY Lists
<1> HIDE DEF k, t
<1>3. t = Then(a, k)
  BY IsThen, <1>1
<1> QED BY <1>2, <1>3 DEF t

(* What the steps of a call are called, and what they carry. *)
LEMMA StepNames ==
  /\ Sleep \in Steps /\ Sleep[1] = "sleep"
  /\ \A line \in {"ATN", "CLK", "DATA"} :
       /\ Pull(line) \in Steps /\ Pull(line)[1] = "pull" /\ Pull(line)[2] = line
       /\ Free(line) \in Steps /\ Free(line)[1] = "free" /\ Free(line)[2] = line
  /\ \A line \in {"CLK", "DATA"}, level \in {"low", "high"} :
       /\ Until(line, level) \in Steps /\ Until(line, level)[1] = "until"
       /\ Until(line, level)[2] = line /\ Until(line, level)[3] = level
  /\ \A n \in {"attention", "eoi", "receive", "bits", "flush"} :
       <<n>> \in Steps /\ <<n>>[1] = n
  /\ \A n \in {"probe", "ready", "clock", "out", "store"}, b \in Letters :
       <<n, b>> \in Steps /\ <<n, b>>[1] = n /\ <<n, b>>[2] = b
BY DEF Steps, Sleep, Pull, Free, Until

(* The bytes that are sent with ATN pulled are letters. *)
LEMMA LetterNames ==
  /\ \A b \in Bytes : Data(b) \in Letters
  /\ \A d \in Called \cup {4} : LISTEN(d) \in Letters /\ TALK(d) \in Letters
  /\ \A c \in {1, 15} : OPENCH(c) \in Letters /\ CLOSE(c) \in Letters
  /\ UNLISTEN \in Letters /\ UNTALK \in Letters
  /\ Garbage \in Bytes
<1>1. \A n \in {"data", "listen", "talk", "open", "close"},
         x \in Bytes \cup Called \cup {1, 4, 15, 31} : <<n, x>> \in Letters
  BY DEF Letters
<1>2. \A b \in Bytes : Data(b) \in Letters
  BY <1>1 DEF Data
<1>3. \A d \in Called \cup {4} : LISTEN(d) \in Letters /\ TALK(d) \in Letters
  BY <1>1 DEF LISTEN, TALK
<1>4. \A c \in {1, 15} : OPENCH(c) \in Letters /\ CLOSE(c) \in Letters
  BY <1>1 DEF OPENCH, CLOSE
<1>5. UNLISTEN \in Letters /\ UNTALK \in Letters
  BY <1>1 DEF UNLISTEN, UNTALK
<1>6. Garbage \in Bytes
  BY DEF Garbage, Bytes
<1> QED BY <1>2, <1>3, <1>4, <1>5, <1>6

Two(a, b, k) == <<a, b>> \o k
Three(a, b, c, k) == <<a, b, c>> \o k
Four(a, b, c, d, k) == <<a, b, c, d>> \o k
Five(a, b, c, d, e, k) == <<a, b, c, d, e>> \o k

(* Concatenation, kept folded. *)
Cat(r, k) == r \o k

(* Sequences that are written out, before others. *)
LEMMA Prefixes ==
  ASSUME NEW k \in Seq(Steps)
  PROVE  /\ \A a \in Steps : <<a>> \o k = Then(a, k)
         /\ \A a, b \in Steps : Two(a, b, k) = Then(a, Then(b, k))
         /\ \A a, b, c \in Steps : Three(a, b, c, k) = Then(a, Then(b, Then(c, k)))
         /\ \A a, b, c, d \in Steps : Four(a, b, c, d, k) = Then(a, Then(b, Then(c, Then(d, k))))
         /\ \A a, b, c, d, e \in Steps : Five(a, b, c, d, e, k) = Then(a, Then(b, Then(c, Then(d, Then(e, k)))))
<1> DEFINE J(r) == r \o k
<1>1. <<>> \in Seq(Steps)
  OBVIOUS
<1>2. \A a \in Steps, r \in Seq(Steps) : Then(a, r) \in Seq(Steps) /\ J(Then(a, r)) = Then(a, J(r))
  BY Concat, ThenType
<1>3. \A a \in Steps : J(<<a>>) = Then(a, k)
  BY DEF Then
<1>4. J(<<>>) = k
  BY Concat
<1> HIDE DEF J
<1>5. ASSUME NEW a \in Steps, NEW b \in Steps
     PROVE  Two(a, b, k) = Then(a, Then(b, k))
  <2>0. <<a, b>> = Then(a, Then(b, <<>>))
    BY Lists
  <2>1. Then(b, <<>>) \in Seq(Steps) /\ J(Then(b, <<>>)) = Then(b, k)
    BY <1>1, <1>2, <1>4
  <2>2. Then(a, Then(b, <<>>)) \in Seq(Steps) /\ J(Then(a, Then(b, <<>>))) = Then(a, Then(b, k))
    BY <1>1, <1>2, <1>4, <2>1
  <2> QED BY <2>0, <2>2, Zenon DEF J, Two
<1>6. ASSUME NEW a \in Steps, NEW b \in Steps, NEW c \in Steps
     PROVE  Three(a, b, c, k) = Then(a, Then(b, Then(c, k)))
  <2>0. <<a, b, c>> = Then(a, Then(b, Then(c, <<>>)))
    BY Lists
  <2>1. Then(c, <<>>) \in Seq(Steps) /\ J(Then(c, <<>>)) = Then(c, k)
    BY <1>1, <1>2, <1>4
  <2>2. Then(b, Then(c, <<>>)) \in Seq(Steps) /\ J(Then(b, Then(c, <<>>))) = Then(b, Then(c, k))
    BY <1>1, <1>2, <1>4, <2>1
  <2>3. Then(a, Then(b, Then(c, <<>>))) \in Seq(Steps) /\ J(Then(a, Then(b, Then(c, <<>>)))) = Then(a, Then(b, Then(c, k)))
    BY <1>1, <1>2, <1>4, <2>2
  <2> QED BY <2>0, <2>3, Zenon DEF J, Three
<1>7. ASSUME NEW a \in Steps, NEW b \in Steps, NEW c \in Steps, NEW d \in Steps
     PROVE  Four(a, b, c, d, k) = Then(a, Then(b, Then(c, Then(d, k))))
  <2>0. <<a, b, c, d>> = Then(a, Then(b, Then(c, Then(d, <<>>))))
    BY Lists
  <2>1. Then(d, <<>>) \in Seq(Steps) /\ J(Then(d, <<>>)) = Then(d, k)
    BY <1>1, <1>2, <1>4
  <2>2. Then(c, Then(d, <<>>)) \in Seq(Steps) /\ J(Then(c, Then(d, <<>>))) = Then(c, Then(d, k))
    BY <1>1, <1>2, <1>4, <2>1
  <2>3. Then(b, Then(c, Then(d, <<>>))) \in Seq(Steps) /\ J(Then(b, Then(c, Then(d, <<>>)))) = Then(b, Then(c, Then(d, k)))
    BY <1>1, <1>2, <1>4, <2>2
  <2>4. Then(a, Then(b, Then(c, Then(d, <<>>)))) \in Seq(Steps) /\ J(Then(a, Then(b, Then(c, Then(d, <<>>))))) = Then(a, Then(b, Then(c, Then(d, k))))
    BY <1>1, <1>2, <1>4, <2>3
  <2> QED BY <2>0, <2>4, Zenon DEF J, Four
<1>8. ASSUME NEW a \in Steps, NEW b \in Steps, NEW c \in Steps, NEW d \in Steps, NEW e \in Steps
     PROVE  Five(a, b, c, d, e, k) = Then(a, Then(b, Then(c, Then(d, Then(e, k)))))
  <2>0. <<a, b, c, d, e>> = Then(a, Then(b, Then(c, Then(d, Then(e, <<>>)))))
    BY ListOfFive
  <2>1. Then(e, <<>>) \in Seq(Steps) /\ J(Then(e, <<>>)) = Then(e, k)
    BY <1>1, <1>2, <1>4
  <2>2. Then(d, Then(e, <<>>)) \in Seq(Steps) /\ J(Then(d, Then(e, <<>>))) = Then(d, Then(e, k))
    BY <1>1, <1>2, <1>4, <2>1
  <2>3. Then(c, Then(d, Then(e, <<>>))) \in Seq(Steps) /\ J(Then(c, Then(d, Then(e, <<>>)))) = Then(c, Then(d, Then(e, k)))
    BY <1>1, <1>2, <1>4, <2>2
  <2>4. Then(b, Then(c, Then(d, Then(e, <<>>)))) \in Seq(Steps) /\ J(Then(b, Then(c, Then(d, Then(e, <<>>))))) = Then(b, Then(c, Then(d, Then(e, k))))
    BY <1>1, <1>2, <1>4, <2>3
  <2>5. Then(a, Then(b, Then(c, Then(d, Then(e, <<>>))))) \in Seq(Steps) /\ J(Then(a, Then(b, Then(c, Then(d, Then(e, <<>>)))))) = Then(a, Then(b, Then(c, Then(d, Then(e, k)))))
    BY <1>1, <1>2, <1>4, <2>4
  <2> QED BY <2>0, <2>5, Zenon DEF J, Five
<1> QED BY <1>3, <1>5, <1>6, <1>7, <1>8, Zenon DEF J

(* Every rest of a call is a sequence of steps ... *)
LEMMA Rests ==
  ASSUME NEW b \in Letters, NEW k \in Seq(Steps)
  PROVE  /\ Clock2(k) \in Seq(Steps) /\ Clock1(b, k) \in Seq(Steps) /\ Clock0(b, k) \in Seq(Steps)
         /\ Send3(b, k) \in Seq(Steps) /\ Send2(b, k) \in Seq(Steps)
         /\ Send1(b, k) \in Seq(Steps) /\ Send0(b, k) \in Seq(Steps)
         /\ Eoi1(b, k) \in Seq(Steps) /\ Eoi0(b, k) \in Seq(Steps)
         /\ Atn2(b, k) \in Seq(Steps) /\ Atn1(b, k) \in Seq(Steps) /\ Atn0(b, k) \in Seq(Steps)
         /\ Call2(b, k) \in Seq(Steps) /\ Call1(b, k) \in Seq(Steps) /\ Call0(b, k) \in Seq(Steps)
         /\ End3(k) \in Seq(Steps) /\ End2(k) \in Seq(Steps)
         /\ End1(k) \in Seq(Steps) /\ End0(k) \in Seq(Steps)
         /\ Unlisten0(k) \in Seq(Steps)
         /\ Take3(b) \in Seq(Steps) /\ Take2(b) \in Seq(Steps)
         /\ Take1(b) \in Seq(Steps) /\ Take0(b) \in Seq(Steps)
<1> USE ThenType, StepNames
<1>0. <<>> \in Seq(Steps)
  OBVIOUS
<1>1. Clock2(k) \in Seq(Steps) /\ Send3(b, k) \in Seq(Steps)
  BY DEF Clock2, Send3
<1>2. Clock1(b, k) \in Seq(Steps) /\ Send2(b, k) \in Seq(Steps)
  BY <1>1 DEF Clock1, Send2
<1>3. Clock0(b, k) \in Seq(Steps) /\ Send1(b, k) \in Seq(Steps) /\ Eoi1(b, k) \in Seq(Steps)
  BY <1>2 DEF Clock0, Send1, Eoi1
<1>4. Send0(b, k) \in Seq(Steps) /\ Eoi0(b, k) \in Seq(Steps)
  BY <1>3 DEF Send0, Eoi0
<1>5. \A c \in Letters, r \in Seq(Steps) :
         Atn2(c, r) \in Seq(Steps) /\ Atn1(c, r) \in Seq(Steps) /\ Atn0(c, r) \in Seq(Steps)
  BY DEF Atn2, Atn1, Atn0
<1>6. Call2(b, k) \in Seq(Steps) /\ Call1(b, k) \in Seq(Steps) /\ Call0(b, k) \in Seq(Steps)
  BY <1>5 DEF Call2, Call1, Call0
<1>7. End3(k) \in Seq(Steps)
  BY DEF End3
<1>8. End2(k) \in Seq(Steps)
  BY <1>7 DEF End2
<1>9. End1(k) \in Seq(Steps)
  BY <1>8 DEF End1
<1>10. End0(k) \in Seq(Steps)
  BY <1>9 DEF End0
<1>11. Unlisten0(k) \in Seq(Steps)
  BY <1>5, <1>10, LetterNames DEF Unlisten0
<1>12. Take3(b) \in Seq(Steps)
  BY <1>0 DEF Take3
<1>13. Take2(b) \in Seq(Steps)
  BY <1>12 DEF Take2
<1>14. Take1(b) \in Seq(Steps)
  BY <1>13 DEF Take1
<1>15. Take0(b) \in Seq(Steps)
  BY <1>14 DEF Take0
<1> HIDE ThenType, StepNames
<1> QED BY <1>1, <1>2, <1>3, <1>4, <1>5, <1>6, <1>7, <1>8, <1>9, <1>10, <1>11, <1>12, <1>13, <1>14, <1>15

(* ... and the calls are what they are made of. *)
LEMMA Pieces ==
  ASSUME NEW b \in Letters, NEW k \in Seq(Steps)
  PROVE  /\ AtnCommon(b) \in Seq(Steps) /\ Cat(AtnCommon(b), k) = Atn0(b, k)
         /\ Cat(Send(b), k) = Send0(b, k)
         /\ Cat(SendLast(b), k) = Eoi0(b, k)
         /\ Cat(SendBits(b), k) = Clock0(b, k)
         /\ Cat(Received(b), k) = Then(Sleep, Then(Pull("DATA"), Then(Sleep, Then(<<"store", b>>, k))))
         /\ Cat(<<Free("ATN")>>, k) = Then(Free("ATN"), k)
         /\ Cat(<<<<"store", b>>>>, k) = Then(<<"store", b>>, k)
<1> DEFINE attention == <<"attention">>
           probe == <<"probe", b>>
           ready == <<"ready", b>>
           clock == <<"clock", b>>
           store == <<"store", b>>
           eoi == <<"eoi">>
<1>1. /\ attention \in Steps /\ probe \in Steps /\ ready \in Steps /\ clock \in Steps
      /\ store \in Steps /\ eoi \in Steps /\ Sleep \in Steps
      /\ Pull("DATA") \in Steps /\ Free("CLK") \in Steps /\ Free("ATN") \in Steps
      /\ Until("DATA", "high") \in Steps /\ Until("DATA", "low") \in Steps
  BY StepNames
<1>2. AtnCommon(b) \in Seq(Steps)
  BY <1>1 DEF AtnCommon
<1> HIDE DEF attention, probe, ready, clock, store, eoi
<1>3. Cat(AtnCommon(b), k) = Atn0(b, k)
  <2>1. Cat(AtnCommon(b), k) = Three(attention, Sleep, probe, k)
    BY Zenon DEF Cat, AtnCommon, Three, attention, probe
  <2>2. Three(attention, Sleep, probe, k) = Then(attention, Then(Sleep, Then(probe, k)))
    BY <1>1, Prefixes
  <2> QED BY <2>1, <2>2, Zenon DEF Atn0, Atn1, Atn2, attention, probe
<1>4. Cat(Send(b), k) = Send0(b, k)
  <2>1. Cat(Send(b), k) = Four(Sleep, Free("CLK"), Until("DATA", "high"), ready, k)
    BY Zenon DEF Cat, Send, Four, ready
  <2>2. Four(Sleep, Free("CLK"), Until("DATA", "high"), ready, k) = Then(Sleep, Then(Free("CLK"), Then(Until("DATA", "high"), Then(ready, k))))
    BY <1>1, Prefixes
  <2> QED BY <2>1, <2>2, Zenon DEF Send0, Send1, Send2, Send3, ready
<1>5. Cat(SendLast(b), k) = Eoi0(b, k)
  <2>1. Cat(SendLast(b), k) = Four(eoi, Sleep, Until("DATA", "high"), ready, k)
    BY Zenon DEF Cat, SendLast, Four, eoi, ready
  <2>2. Four(eoi, Sleep, Until("DATA", "high"), ready, k) = Then(eoi, Then(Sleep, Then(Until("DATA", "high"), Then(ready, k))))
    BY <1>1, Prefixes
  <2> QED BY <2>1, <2>2, Zenon DEF Eoi0, Eoi1, Send2, Send3, eoi, ready
<1>6. Cat(SendBits(b), k) = Clock0(b, k)
  <2>1. Cat(SendBits(b), k) = Three(Sleep, clock, Until("DATA", "low"), k)
    BY Zenon DEF Cat, SendBits, Three, clock
  <2>2. Three(Sleep, clock, Until("DATA", "low"), k) = Then(Sleep, Then(clock, Then(Until("DATA", "low"), k)))
    BY <1>1, Prefixes
  <2> QED BY <2>1, <2>2, Zenon DEF Clock0, Clock1, Clock2, clock
<1>7. Cat(Received(b), k) = Then(Sleep, Then(Pull("DATA"), Then(Sleep, Then(<<"store", b>>, k))))
  <2>1. Cat(Received(b), k) = Four(Sleep, Pull("DATA"), Sleep, store, k)
    BY Zenon DEF Cat, Received, Four, store
  <2>2. Four(Sleep, Pull("DATA"), Sleep, store, k) = Then(Sleep, Then(Pull("DATA"), Then(Sleep, Then(store, k))))
    BY <1>1, Prefixes
  <2> QED BY <2>1, <2>2, Zenon DEF store
<1>8. Cat(<<Free("ATN")>>, k) = Then(Free("ATN"), k) /\ Cat(<<store>>, k) = Then(store, k)
  BY <1>1, Prefixes DEF Cat
<1> QED BY <1>2, <1>3, <1>4, <1>5, <1>6, <1>7, <1>8, Zenon DEF store

(* Concatenation may be done in any order. *)
LEMMA Assoc ==
  \A r, s, t \in Seq(Steps) : Cat(r, s) \in Seq(Steps) /\ Cat(Cat(r, s), t) = Cat(r, Cat(s, t))
BY ConcatProperties, ConcatAssociative DEF Cat

(* The parts of a call, before what follows them. *)
LEMMA Parts ==
  ASSUME NEW b \in Letters, NEW d \in Called \cup {4}, NEW k \in Seq(Steps)
  PROVE  /\ AtnRelease(b) \in Seq(Steps) /\ Cat(AtnRelease(b), k) = Atn0(b, End0(k))
         /\ Listen(d) \in Seq(Steps) /\ Cat(Listen(d), k) = Call0(LISTEN(d), k)
         /\ ListenSa(b) \in Seq(Steps) /\ Cat(ListenSa(b), k) = Atn0(b, Then(Free("ATN"), k))
         /\ Unlisten \in Seq(Steps) /\ Cat(Unlisten, k) = Unlisten0(k)
         /\ Talk(d) \in Seq(Steps) /\ Cat(Talk(d), k) = Call0(TALK(d), k)
         /\ TalkSa(b) \in Seq(Steps)
         /\ Cat(TalkSa(b), k) = Atn0(b, Then(Pull("DATA"), Then(Free("ATN"),
                               Then(Free("CLK"), Then(Until("CLK", "low"), k)))))
<1> DEFINE flush == <<"flush">>
           ends == <<Free("ATN"), Sleep, Free("CLK"), Free("DATA")>>
           frees == <<Free("DATA"), Free("CLK")>>
           turns == <<Pull("DATA"), Free("ATN"), Free("CLK"), Until("CLK", "low")>>
           free == <<Free("ATN")>>
<1>1. /\ flush \in Steps /\ Sleep \in Steps /\ Pull("DATA") \in Steps
      /\ Free("DATA") \in Steps /\ Free("CLK") \in Steps /\ Free("ATN") \in Steps
      /\ Until("CLK", "low") \in Steps
  BY StepNames
<1>2. /\ ends \in Seq(Steps) /\ frees \in Seq(Steps) /\ turns \in Seq(Steps)
      /\ free \in Seq(Steps) /\ Flush \in Seq(Steps)
  BY <1>1 DEF Flush
<1>3. ASSUME NEW r \in Seq(Steps)
      PROVE  /\ Cat(ends, r) = End0(r)
             /\ Cat(frees, r) = Then(Free("DATA"), Then(Free("CLK"), r))
             /\ Cat(turns, r) = Then(Pull("DATA"), Then(Free("ATN"), Then(Free("CLK"), Then(Until("CLK", "low"), r))))
             /\ Cat(free, r) = Then(Free("ATN"), r)
             /\ Cat(Flush, r) = Then(<<"flush">>, r)
  <2>1. Cat(ends, r) = Four(Free("ATN"), Sleep, Free("CLK"), Free("DATA"), r)
        /\ Cat(frees, r) = Two(Free("DATA"), Free("CLK"), r)
        /\ Cat(turns, r) = Four(Pull("DATA"), Free("ATN"), Free("CLK"), Until("CLK", "low"), r)
        /\ Cat(Flush, r) = Cat(<<flush>>, r)
    BY Zenon DEF Cat, Two, Four, Flush
  <2> HIDE DEF flush, ends, frees, turns
  <2>2. Four(Free("ATN"), Sleep, Free("CLK"), Free("DATA"), r)
          = Then(Free("ATN"), Then(Sleep, Then(Free("CLK"), Then(Free("DATA"), r))))
    BY <1>1, Prefixes
  <2>3. Two(Free("DATA"), Free("CLK"), r) = Then(Free("DATA"), Then(Free("CLK"), r))
    BY <1>1, Prefixes
  <2>4. Four(Pull("DATA"), Free("ATN"), Free("CLK"), Until("CLK", "low"), r)
          = Then(Pull("DATA"), Then(Free("ATN"), Then(Free("CLK"), Then(Until("CLK", "low"), r))))
    BY <1>1, Prefixes
  <2>5. Cat(<<flush>>, r) = Then(flush, r) /\ Cat(<<Free("ATN")>>, r) = Then(Free("ATN"), r)
    BY <1>1, Prefixes, Zenon DEF Cat
  <2> QED BY <2>1, <2>2, <2>3, <2>4, <2>5, Zenon DEF flush, End0, End1, End2, End3
<1> HIDE DEF flush, ends, frees, turns, free
<1>4. ASSUME NEW c \in Letters
      PROVE  /\ AtnRelease(c) \in Seq(Steps) /\ Cat(AtnRelease(c), k) = Atn0(c, End0(k))
             /\ AtnReleaseData(c) \in Seq(Steps) /\ Cat(AtnReleaseData(c), k) = Call1(c, k)
             /\ ListenSa(c) \in Seq(Steps) /\ Cat(ListenSa(c), k) = Atn0(c, Then(Free("ATN"), k))
  <2>1. \A r \in Seq(Steps) : AtnCommon(c) \in Seq(Steps) /\ Cat(AtnCommon(c), r) = Atn0(c, r)
    BY Pieces
  <2>2. /\ AtnRelease(c) = Cat(AtnCommon(c), ends)
        /\ AtnReleaseData(c) = Cat(frees, AtnCommon(c))
        /\ ListenSa(c) = Cat(AtnCommon(c), free)
    BY Zenon DEF Cat, AtnRelease, AtnReleaseData, ListenSa, ends, frees, free
  <2>3. AtnRelease(c) \in Seq(Steps) /\ Cat(AtnRelease(c), k) = Cat(AtnCommon(c), Cat(ends, k))
    BY <1>2, <2>1, <2>2, Assoc
  <2>4. AtnReleaseData(c) \in Seq(Steps) /\ Cat(AtnReleaseData(c), k) = Cat(frees, Cat(AtnCommon(c), k))
    BY <1>2, <2>1, <2>2, Assoc
  <2>5. ListenSa(c) \in Seq(Steps) /\ Cat(ListenSa(c), k) = Cat(AtnCommon(c), Cat(free, k))
    BY <1>2, <2>1, <2>2, Assoc
  <2>6. End0(k) \in Seq(Steps) /\ Then(Free("ATN"), k) \in Seq(Steps) /\ Atn0(c, k) \in Seq(Steps)
    BY <1>1, Rests, ThenType
  <2>7. Cat(AtnRelease(c), k) = Atn0(c, End0(k))
    BY <1>3, <2>1, <2>3, <2>6
  <2>8. Cat(AtnReleaseData(c), k) = Call1(c, k)
    BY <1>3, <2>1, <2>4, <2>6 DEF Call1, Call2
  <2>9. Cat(ListenSa(c), k) = Atn0(c, Then(Free("ATN"), k))
    BY <1>3, <2>1, <2>5, <2>6
  <2> QED BY <2>3, <2>4, <2>5, <2>7, <2>8, <2>9
<1>5. LISTEN(d) \in Letters /\ TALK(d) \in Letters /\ UNLISTEN \in Letters
  BY LetterNames
<1>6. ASSUME NEW c \in Letters
      PROVE  /\ Cat(Flush, AtnReleaseData(c)) \in Seq(Steps)
             /\ Cat(Cat(Flush, AtnReleaseData(c)), k) = Call0(c, k)
  <2>1. Cat(Cat(Flush, AtnReleaseData(c)), k) = Cat(Flush, Cat(AtnReleaseData(c), k))
    BY <1>2, <1>4, Assoc
  <2>2. Call1(c, k) \in Seq(Steps)
    BY Rests
  <2>3. Cat(Flush, Call1(c, k)) = Call0(c, k)
    BY <1>3, <2>2 DEF Call0
  <2>4. Cat(Cat(Flush, AtnReleaseData(c)), k) = Call0(c, k)
    BY <1>4, <2>1, <2>3
  <2> QED BY <1>2, <1>4, <2>4, Assoc
<1>7. Listen(d) \in Seq(Steps) /\ Cat(Listen(d), k) = Call0(LISTEN(d), k)
  BY <1>5, <1>6 DEF Listen, Cat
<1>8. Talk(d) \in Seq(Steps) /\ Cat(Talk(d), k) = Call0(TALK(d), k)
  BY <1>5, <1>6 DEF Talk, Cat
<1>9. Unlisten \in Seq(Steps) /\ Cat(Unlisten, k) = Unlisten0(k)
  <2>0. Unlisten = Cat(Flush, AtnRelease(UNLISTEN))
    BY Zenon DEF Unlisten, Cat
  <2>1. Unlisten \in Seq(Steps) /\ Cat(Unlisten, k) = Cat(Flush, Cat(AtnRelease(UNLISTEN), k))
    BY <1>2, <1>4, <1>5, <2>0, Assoc
  <2>2. Atn0(UNLISTEN, End0(k)) \in Seq(Steps)
    BY <1>5, Rests
  <2>3. Cat(Flush, Atn0(UNLISTEN, End0(k))) = Unlisten0(k)
    BY <1>3, <2>2 DEF Unlisten0
  <2> QED BY <1>4, <1>5, <2>1, <2>3
<1>10. /\ TalkSa(b) \in Seq(Steps)
       /\ Cat(TalkSa(b), k) = Atn0(b, Then(Pull("DATA"), Then(Free("ATN"),
                             Then(Free("CLK"), Then(Until("CLK", "low"), k)))))
  <2>1. TalkSa(b) = Cat(AtnCommon(b), turns)
    BY Zenon DEF Cat, TalkSa, turns
  <2>2. AtnCommon(b) \in Seq(Steps)
    BY Pieces
  <2>3. TalkSa(b) \in Seq(Steps) /\ Cat(TalkSa(b), k) = Cat(AtnCommon(b), Cat(turns, k))
    BY <1>2, <2>1, <2>2, Assoc
  <2> DEFINE r == Cat(turns, k)
  <2>4. r \in Seq(Steps)
    BY <1>2, Assoc
  <2>5. Cat(AtnCommon(b), r) = Atn0(b, r)
    BY <2>4, Pieces
  <2> QED BY <1>3, <2>3, <2>5
<1> QED BY <1>4, <1>7, <1>8, <1>9, <1>10

(* The rests of whole calls are sequences of steps. *)
LEMMA CallRests ==
  /\ Closed1 \in Seq(Steps) /\ Closed0 \in Seq(Steps)
  /\ \A d \in Called \cup {4} : Close0(d) \in Seq(Steps)
  /\ Io4 \in Seq(Steps) /\ Io3 \in Seq(Steps) /\ Io2 \in Seq(Steps)
  /\ Io1 \in Seq(Steps) /\ Io0 \in Seq(Steps)
  /\ Receive3 \in Seq(Steps) /\ Receive2 \in Seq(Steps)
  /\ Receive1 \in Seq(Steps) /\ Receive0 \in Seq(Steps)
  /\ Last1 \in Seq(Steps) /\ Last0 \in Seq(Steps)
  /\ Untalk0 \in Seq(Steps)
  /\ \A n : /\ Turn4(n) \in Seq(Steps) /\ Turn3(n) \in Seq(Steps) /\ Turn2(n) \in Seq(Steps)
            /\ Turn1(n) \in Seq(Steps) /\ Turn0(n) \in Seq(Steps)
<1>0. <<>> \in Seq(Steps)
  OBVIOUS
<1>1. /\ Sleep \in Steps /\ Pull("DATA") \in Steps /\ Pull("CLK") \in Steps
      /\ Free("DATA") \in Steps /\ Free("CLK") \in Steps /\ Free("ATN") \in Steps
      /\ Until("CLK", "low") \in Steps /\ Until("DATA", "high") \in Steps
      /\ <<"bits">> \in Steps /\ <<"receive">> \in Steps
  BY StepNames
<1>2. /\ LISTEN(4) \in Letters /\ CLOSE(1) \in Letters /\ UNTALK \in Letters
      /\ \A d \in Called \cup {4} : LISTEN(d) \in Letters
  BY LetterNames
<1>3. \A b \in Letters, k \in Seq(Steps) :
         Atn0(b, k) \in Seq(Steps) /\ Call0(b, k) \in Seq(Steps)
         /\ End0(k) \in Seq(Steps) /\ Unlisten0(k) \in Seq(Steps)
  BY Rests
<1>4. Closed1 \in Seq(Steps)
  BY <1>0, <1>2, <1>3 DEF Closed1
<1>5. Closed0 \in Seq(Steps)
  BY <1>1, <1>4, ThenType DEF Closed0
<1>6. \A d \in Called \cup {4} : Close0(d) \in Seq(Steps)
  BY <1>2, <1>3, <1>5 DEF Close0
<1>7. Io4 \in Seq(Steps)
  BY <1>0, <1>1, ThenType DEF Io4
<1>8. Io3 \in Seq(Steps)
  BY <1>1, <1>7, ThenType DEF Io3
<1>9. Io2 \in Seq(Steps)
  BY <1>1, <1>8, ThenType DEF Io2
<1>10. Io1 \in Seq(Steps)
  BY <1>1, <1>9, ThenType DEF Io1
<1>11. Io0 \in Seq(Steps)
  BY <1>1, <1>10, ThenType DEF Io0
<1>12. Receive3 \in Seq(Steps)
  BY <1>0, <1>1, ThenType DEF Receive3
<1>13. Receive2 \in Seq(Steps)
  BY <1>1, <1>12, ThenType DEF Receive2
<1>14. Receive1 \in Seq(Steps)
  BY <1>1, <1>13, ThenType DEF Receive1
<1>15. Receive0 \in Seq(Steps) /\ Last1 \in Seq(Steps)
  BY <1>1, <1>14, ThenType DEF Receive0, Last1
<1>16. Last0 \in Seq(Steps)
  BY <1>1, <1>15, ThenType DEF Last0
<1>17. Untalk0 \in Seq(Steps)
  BY <1>0, <1>1, <1>2, <1>3, ThenType DEF Untalk0
<1>18. ASSUME NEW n
       PROVE  /\ Turn4(n) \in Seq(Steps) /\ Turn3(n) \in Seq(Steps) /\ Turn2(n) \in Seq(Steps)
              /\ Turn1(n) \in Seq(Steps) /\ Turn0(n) \in Seq(Steps)
  <2>1. Turn4(n) \in Seq(Steps)
    BY <1>15, <1>17 DEF Turn4
  <2>2. Turn3(n) \in Seq(Steps)
    BY <1>1, <2>1, ThenType DEF Turn3
  <2>3. Turn2(n) \in Seq(Steps)
    BY <1>1, <2>2, ThenType DEF Turn2
  <2>4. Turn1(n) \in Seq(Steps)
    BY <1>1, <2>3, ThenType DEF Turn1
  <2>5. Turn0(n) \in Seq(Steps)
    BY <1>1, <2>4, ThenType DEF Turn0
  <2> QED BY <2>1, <2>2, <2>3, <2>4, <2>5
<1> QED BY <1>4, <1>5, <1>6, <1>7, <1>8, <1>9, <1>10, <1>11, <1>12, <1>13, <1>14, <1>15, <1>16, <1>17, <1>18

(* Ranges from 1 are equal only when their ends are. *)
LEMMA Ranges ==
  \A m, n \in Nat : 1 .. m = 1 .. n => m = n
<1> SUFFICES ASSUME NEW m \in Nat, NEW n \in Nat, 1 .. m = 1 .. n, m < n PROVE FALSE
  OBVIOUS
<1>1. n \in 1 .. n /\ n \notin 1 .. m
  OBVIOUS
<1> QED BY <1>1

(* A function on a range from 1 is a sequence. *)
LEMMA IsList ==
  ASSUME NEW S, NEW m \in Nat, NEW t \in [1 .. m -> S]
  PROVE  t \in Seq(S) /\ Len(t) = m
<1>1. t \in Seq(S)
  OBVIOUS
<1>2. DOMAIN t = 1 .. Len(t) /\ Len(t) \in Nat
  BY <1>1, LenProperties
<1> QED BY <1>1, <1>2, Ranges

(* The bytes of a message, from i on. *)
LEMMA OutRests ==
  ASSUME NEW msg \in Seq(Bytes), NEW i \in 1 .. Len(msg) + 1
  PROVE  /\ OutSteps(msg, i) \in Seq(Steps)
         /\ Out0(msg, i) \in Seq(Steps)
         /\ i <= Len(msg) => Out0(msg, i) = Then(<<"out", Data(msg[i])>>, Out0(msg, i + 1))
         /\ i = Len(msg) + 1 => Out0(msg, i) = Unlisten0(Close0(4))
<1> DEFINE outs(n) == <<"out", Data(msg[n])>>
<1>0. Len(msg) \in Nat /\ \A n \in 1 .. Len(msg) : msg[n] \in Bytes
  BY LenProperties
<1>1. \A n \in 1 .. Len(msg) : outs(n) \in Steps
  BY <1>0, StepNames, LetterNames
<1> DEFINE m == Len(msg) - i + 1
           t == [n \in 1 .. m |-> outs(n + i - 1)]
<1>2. OutSteps(msg, i) = t
  BY DEF OutSteps
<1> HIDE DEF outs
<1>3. m \in Nat /\ t \in [1 .. m -> Steps]
  BY <1>0, <1>1
<1>4. t \in Seq(Steps) /\ Len(t) = m
  <2> HIDE DEF t
  <2> QED BY <1>3, IsList
<1>5. OutSteps(msg, i) \in Seq(Steps)
  BY <1>2, <1>4
<1>6. Unlisten0(Close0(4)) \in Seq(Steps)
  <2>1. Close0(4) \in Seq(Steps) /\ UNLISTEN \in Letters
    BY CallRests, LetterNames
  <2> QED BY <2>1, Rests
<1>7. Out0(msg, i) \in Seq(Steps)
  BY <1>5, <1>6, ConcatProperties DEF Out0
<1>8. ASSUME i <= Len(msg)
      PROVE  Out0(msg, i) = Then(outs(i), Out0(msg, i + 1))
  <2> DEFINE r == [n \in 1 .. Len(msg) - i |-> outs(n + i)]
  <2>1. OutSteps(msg, i + 1) = r
    <3>1. Len(msg) - (i + 1) + 1 = Len(msg) - i /\ \A n \in Int : n + (i + 1) - 1 = n + i
      BY <1>0
    <3> QED BY <1>0, <3>1 DEF OutSteps, outs
  <2>2. Len(msg) - i \in Nat /\ r \in [1 .. Len(msg) - i -> Steps]
    BY <1>0, <1>1, <1>8
  <2>3. r \in Seq(Steps) /\ Len(r) = Len(msg) - i
    <3> HIDE DEF r
    <3> QED BY <2>2, IsList
  <2>4. Len(t) = Len(r) + 1 /\ t[1] = outs(i)
    BY <1>0, <1>3, <1>4, <1>8, <2>3
  <2>5. \A n \in 1 .. Len(r) : t[n + 1] = r[n]
    <3>1. Len(r) = Len(msg) - i
      BY <2>3
    <3>2. SUFFICES ASSUME NEW n \in 1 .. Len(msg) - i PROVE t[n + 1] = r[n]
      BY Zenon, <3>1
    <3>3. n + 1 \in 1 .. m /\ n + 1 + i - 1 = n + i
      BY <1>0
    <3> QED BY <3>3
  <2>6. outs(i) \in Steps
    BY <1>0, <1>1, <1>8
  <2> HIDE DEF t, r
  <2>7. t = Then(outs(i), r)
    BY <1>4, <2>3, <2>4, <2>5, <2>6, IsThen
  <2>8. Then(outs(i), r) \o Unlisten0(Close0(4)) = Then(outs(i), r \o Unlisten0(Close0(4)))
    BY <1>6, <2>3, <2>6, Concat
  <2> QED BY <1>2, <2>1, <2>7, <2>8 DEF Out0
<1>9. ASSUME i = Len(msg) + 1
      PROVE  Out0(msg, i) = Unlisten0(Close0(4))
  <2>1. t = <<>>
    BY <1>0, <1>4, <1>9, EmptySeq
  <2> QED BY <1>2, <1>6, <2>1, Concat DEF Out0
<1> QED BY <1>5, <1>7, <1>8, <1>9 DEF outs

(* The calls are the rests that nothing is gone of. *)
LEMMA CallsAre ==
  /\ IoInit = Io0 /\ Receive = Receive0 /\ ReceiveLast = Last0 /\ Untalk = Untalk0
  /\ \A b \in Letters : Cat(Received(b), <<>>) = Take0(b) /\ Cat(<<<<"store", b>>>>, <<>>) = Take3(b)
  /\ \A d \in Called \cup {4} : Close(d, 1) = Close0(d)
  /\ \A d \in Called, msg \in Seq(Bytes) : PrintSteps(d, msg) = Print0(d, msg)
  /\ \A d \in Called : \A n : StatusSteps(d, n) = Status0(d, n)
<1>0. <<>> \in Seq(Steps) /\ \A r \in Seq(Steps) : Cat(r, <<>>) = r
  BY Concat DEF Cat
<1>1. /\ Sleep \in Steps /\ Pull("DATA") \in Steps /\ Pull("CLK") \in Steps
      /\ Free("DATA") \in Steps /\ Free("CLK") \in Steps /\ Free("ATN") \in Steps
      /\ Until("DATA", "high") \in Steps
      /\ <<"bits">> \in Steps /\ <<"receive">> \in Steps
  BY StepNames
<1> DEFINE none == <<>>
<1>10. /\ \A a, b, c, d \in Steps : Four(a, b, c, d, none) = Then(a, Then(b, Then(c, Then(d, none))))
      /\ \A a, b, c, d, e \in Steps : Five(a, b, c, d, e, none) = Then(a, Then(b, Then(c, Then(d, Then(e, none)))))
  <2> HIDE DEF none
  <2>1. none \in Seq(Steps)
    BY <1>0 DEF none
  <2> QED BY <2>1, Prefixes
<1>2. IoInit = Io0
  BY <1>1, ListOfFive DEF IoInit, Io0, Io1, Io2, Io3, Io4
<1>3. Receive = Receive0
  <2> DEFINE receive == <<"receive">>
             bits == <<"bits">>
  <2>1. receive \in Steps /\ bits \in Steps /\ Free("DATA") \in Steps /\ Until("DATA", "high") \in Steps
    BY <1>1
  <2> HIDE DEF receive, bits, none
  <2>2. Four(receive, Free("DATA"), Until("DATA", "high"), bits, none)
          = Then(receive, Then(Free("DATA"), Then(Until("DATA", "high"), Then(bits, none))))
    BY <1>10, <2>1
  <2>3. Receive \in Seq(Steps)
    BY <1>1 DEF Receive
  <2>4. Cat(Receive, none) = Four(receive, Free("DATA"), Until("DATA", "high"), bits, none)
    BY Zenon DEF Receive, receive, bits, Four, Cat
  <2> QED BY <1>0, <2>2, <2>3, <2>4, Zenon DEF none, receive, bits, Receive0, Receive1, Receive2, Receive3
<1>4. ReceiveLast = Last0
  <2> DEFINE bits == <<"bits">>
  <2>1. bits \in Steps /\ Pull("DATA") \in Steps /\ Sleep \in Steps
        /\ Free("DATA") \in Steps /\ Until("DATA", "high") \in Steps
    BY <1>1
  <2> HIDE DEF bits, none
  <2>2. Five(Pull("DATA"), Sleep, Free("DATA"), Until("DATA", "high"), bits, none)
          = Then(Pull("DATA"), Then(Sleep, Then(Free("DATA"), Then(Until("DATA", "high"), Then(bits, none)))))
    BY <1>10, <2>1
  <2>3. ReceiveLast \in Seq(Steps)
    BY <1>1 DEF ReceiveLast
  <2>4. Cat(ReceiveLast, none) = Five(Pull("DATA"), Sleep, Free("DATA"), Until("DATA", "high"), bits, none)
    BY Zenon DEF ReceiveLast, bits, Five, Cat
  <2> QED BY <1>0, <2>2, <2>3, <2>4, Zenon DEF none, bits, Last0, Last1, Receive1, Receive2, Receive3
<1>5. Untalk = Untalk0
  <2>1. UNTALK \in Letters /\ Called \cup {4} # {}
    BY LetterNames
  <2>2. AtnRelease(UNTALK) \in Seq(Steps) /\ Cat(AtnRelease(UNTALK), <<>>) = Atn0(UNTALK, End0(<<>>))
    BY <1>0, <2>1, Parts
  <2>3. Cat(<<Pull("CLK")>>, AtnRelease(UNTALK)) = Then(Pull("CLK"), AtnRelease(UNTALK))
    BY <1>1, <2>2, Prefixes, Zenon DEF Cat
  <2>4. AtnRelease(UNTALK) = Atn0(UNTALK, End0(<<>>))
    BY <1>0, <2>2
  <2> QED BY <2>3, <2>4, Zenon DEF Untalk, Untalk0, Cat
<1>6. ASSUME NEW b \in Letters
      PROVE  Cat(Received(b), <<>>) = Take0(b) /\ Cat(<<<<"store", b>>>>, <<>>) = Take3(b)
  <2>1. /\ Cat(Received(b), <<>>) = Then(Sleep, Then(Pull("DATA"), Then(Sleep, Then(<<"store", b>>, <<>>))))
        /\ Cat(<<<<"store", b>>>>, <<>>) = Then(<<"store", b>>, <<>>)
    BY <1>0, Pieces
  <2> QED BY <2>1, Zenon DEF Take0, Take1, Take2, Take3
<1>7. ASSUME NEW d \in Called \cup {4}
      PROVE  Close(d, 1) \in Seq(Steps) /\ Close(d, 1) = Close0(d)
  <2>0. CLOSE(1) \in Letters
    BY LetterNames
  <2>1. Close(d, 1) = Cat(Cat(Listen(d), ListenSa(CLOSE(1))), Unlisten)
    BY Zenon DEF Close, Cat
  <2>2. Listen(d) \in Seq(Steps) /\ ListenSa(CLOSE(1)) \in Seq(Steps) /\ Unlisten \in Seq(Steps)
    BY <1>0, <2>0, Parts
  <2>3. Close(d, 1) \in Seq(Steps) /\ Close(d, 1) = Cat(Listen(d), Cat(ListenSa(CLOSE(1)), Unlisten))
    BY <2>1, <2>2, Assoc
  <2>4. Unlisten = Unlisten0(<<>>)
    BY <1>0, <2>0, <2>2, Parts
  <2>5. Cat(ListenSa(CLOSE(1)), Unlisten) = Atn0(CLOSE(1), Then(Free("ATN"), Unlisten))
    BY <2>0, <2>2, Parts
  <2>6. Atn0(CLOSE(1), Closed0) \in Seq(Steps)
    BY <2>0, CallRests, Rests
  <2>7. Cat(Listen(d), Atn0(CLOSE(1), Closed0)) = Call0(LISTEN(d), Atn0(CLOSE(1), Closed0))
    BY <2>0, <2>6, Parts
  <2> QED BY <2>3, <2>4, <2>5, <2>7 DEF Closed0, Closed1, Close0
<1>8. ASSUME NEW d \in Called, NEW msg \in Seq(Bytes)
      PROVE  PrintSteps(d, msg) = Print0(d, msg)
  <2> DEFINE outs == OutSteps(msg, 1)
             rest == Cat(outs, Cat(Unlisten, Close(4, 1)))
  <2>0. OPENCH(1) \in Letters /\ d \in Called \cup {4} /\ 4 \in Called \cup {4}
    BY LetterNames
  <2>1. /\ Len(msg) \in Nat
        /\ outs \in Seq(Steps) /\ Out0(msg, 1) \in Seq(Steps)
    <3>1. Len(msg) \in Nat
      BY LenProperties
    <3>2. 1 \in 1 .. Len(msg) + 1
      BY <3>1
    <3> QED BY <3>1, <3>2, OutRests
  <2>2. outs = [i \in 1 .. Len(msg) |-> <<"out", Data(msg[i])>>]
    <3>1. Len(msg) - 1 + 1 = Len(msg) /\ \A i \in 1 .. Len(msg) : i + 1 - 1 = i
      BY <2>1
    <3> QED BY <3>1 DEF OutSteps
  <2>3. PrintSteps(d, msg) = Cat(Cat(Cat(Cat(Listen(d), ListenSa(OPENCH(1))), outs), Unlisten), Close(4, 1))
    BY <2>2, Zenon DEF PrintSteps, Cat
  <2>4. /\ Listen(d) \in Seq(Steps) /\ ListenSa(OPENCH(1)) \in Seq(Steps)
        /\ Unlisten \in Seq(Steps) /\ Close(4, 1) \in Seq(Steps)
    <3>1. Close(4, 1) \in Seq(Steps)
      BY <1>7, <2>0
    <3> QED BY <1>0, <2>0, <3>1, Parts
  <2>5. rest \in Seq(Steps)
    BY <2>1, <2>4, Assoc
  <2>6. PrintSteps(d, msg) = Cat(Listen(d), Cat(ListenSa(OPENCH(1)), rest))
    <3>1. Cat(Listen(d), ListenSa(OPENCH(1))) \in Seq(Steps)
          /\ Cat(Unlisten, Close(4, 1)) \in Seq(Steps)
      BY <2>4, Assoc
    <3> DEFINE l == Cat(Listen(d), ListenSa(OPENCH(1)))
               u == Cat(Unlisten, Close(4, 1))
    <3> HIDE DEF outs, l
    <3>2. Cat(l, outs) \in Seq(Steps) /\ Cat(Cat(Cat(l, outs), Unlisten), Close(4, 1)) = Cat(Cat(l, outs), u)
      <4>1. l \in Seq(Steps)
        BY <3>1 DEF l
      <4>2. Cat(l, outs) \in Seq(Steps)
        BY <2>1, <4>1, Assoc
      <4> QED BY <2>4, <4>2, Assoc
    <3> USE DEF l
    <3>3. Cat(Cat(l, outs), u) = Cat(l, rest)
      BY <2>1, <3>1, Assoc
    <3>4. Cat(l, rest) = Cat(Listen(d), Cat(ListenSa(OPENCH(1)), rest))
      BY <2>4, <2>5, Assoc
    <3> QED BY <2>3, <3>2, <3>3, <3>4
  <2>7. Cat(Unlisten, Close(4, 1)) = Unlisten0(Close0(4))
    <3>1. Cat(Unlisten, Close(4, 1)) = Unlisten0(Close(4, 1))
      BY <2>0, <2>4, Parts
    <3> QED BY <1>7, <2>0, <3>1
  <2>8. rest = Out0(msg, 1)
    BY <2>7, Zenon DEF Out0, Cat
  <2> HIDE DEF rest
  <2>9. Cat(ListenSa(OPENCH(1)), rest) = Atn0(OPENCH(1), Opened0(msg))
    <3>1. Cat(ListenSa(OPENCH(1)), rest) = Atn0(OPENCH(1), Then(Free("ATN"), rest))
      BY <2>0, <2>5, Parts
    <3> QED BY <2>8, <3>1 DEF Opened0
  <2>10. Atn0(OPENCH(1), Opened0(msg)) \in Seq(Steps)
    <3>1. Opened0(msg) \in Seq(Steps)
      BY <1>1, <2>1, ThenType DEF Opened0
    <3> QED BY <2>0, <3>1, Rests
  <2>11. Cat(Listen(d), Atn0(OPENCH(1), Opened0(msg))) = Print0(d, msg)
    BY <2>0, <2>10, Parts DEF Print0
  <2> QED BY <2>6, <2>9, <2>11
<1>9. ASSUME NEW d \in Called, NEW n
      PROVE  StatusSteps(d, n) = Status0(d, n)
  <2>0. OPENCH(15) \in Letters /\ d \in Called \cup {4}
    BY LetterNames
  <2>1. More(n) = Turn4(n) /\ Turn4(n) \in Seq(Steps)
    BY <1>3, <1>5, CallRests DEF More, Turn4
  <2>2. StatusSteps(d, n) = Cat(Cat(Talk(d), TalkSa(OPENCH(15))), More(n))
    BY Zenon DEF StatusSteps, Cat
  <2>3. Talk(d) \in Seq(Steps) /\ TalkSa(OPENCH(15)) \in Seq(Steps)
    BY <1>0, <2>0, Parts
  <2>4. StatusSteps(d, n) = Cat(Talk(d), Cat(TalkSa(OPENCH(15)), More(n)))
    BY <2>1, <2>2, <2>3, Assoc
  <2>5. Cat(TalkSa(OPENCH(15)), More(n)) = Atn0(OPENCH(15), Turn0(n))
    <3>1. Cat(TalkSa(OPENCH(15)), Turn4(n)) = Atn0(OPENCH(15), Then(Pull("DATA"), Then(Free("ATN"),
                             Then(Free("CLK"), Then(Until("CLK", "low"), Turn4(n))))))
      BY <2>0, <2>1, Parts
    <3> QED BY <2>1, <3>1 DEF Turn0, Turn1, Turn2, Turn3
  <2>6. Atn0(OPENCH(15), Turn0(n)) \in Seq(Steps)
    BY <2>0, CallRests, Rests
  <2>7. Cat(Talk(d), Atn0(OPENCH(15), Turn0(n))) = Status0(d, n)
    BY <2>0, <2>6, Parts DEF Status0
  <2> QED BY <2>4, <2>5, <2>7
<1> QED BY <1>2, <1>3, <1>4, <1>5, <1>6, <1>7, <1>8, <1>9

-----------------------------------------------------------------------------
(* What the controller does, by the step that is next. *)

(* What the operators of the controller are when a step is known. *)
LEMMA Doing ==
  ASSUME NEW s \in Steps, NEW k \in Seq(Steps), todo = Then(s, k)
  PROVE  /\ \A name : At(name) <=> s[1] = name
         /\ todo # <<>> /\ Next1 = s /\ Rest = k
         /\ \A steps : Do(steps) <=> todo' = Cat(steps, k)
         /\ Do(<<>>) => todo' = k
<1>1. Then(s, k) # <<>> /\ Then(s, k)[1] = s /\ Tail(Then(s, k)) = k
  BY ThenIs
<1>2. Cat(<<>>, k) = k
  BY Concat DEF Cat
<1>3. Next1 = s /\ Rest = k /\ todo # <<>>
  BY <1>1 DEF Next1, Rest
<1>4. \A name : At(name) <=> s[1] = name
  BY <1>3 DEF At
<1>5. \A steps : Do(steps) <=> todo' = Cat(steps, k)
  BY <1>3, Zenon DEF Do, Cat
<1>6. Do(<<>>) => todo' = k
  BY <1>2, <1>5
<1> QED BY <1>3, <1>4, <1>5, <1>6

(* Each step is taken by one action of the controller. *)
LEMMA OneAction ==
  ASSUME NEW s \in Steps, NEW k \in Seq(Steps), todo = Then(s, k), Controller
  PROVE  /\ s[1] \in {"pull", "free", "attention"} => Line
         /\ s[1] \in {"sleep", "until"} => Wait
         /\ s[1] = "probe" => Probe
         /\ s[1] = "ready" => Ready
         /\ s[1] = "eoi" => EoiSeen
         /\ s[1] = "clock" => Clock
         /\ s[1] = "out" => Out
         /\ s[1] = "flush" => FlushQueue
         /\ s[1] = "receive" => Await
         /\ s[1] = "bits" => Silence
         /\ s[1] = "store" => Store
<1>1. \A name : At(name) <=> s[1] = name
  BY Doing
<1>2. Line => s[1] \in {"pull", "free", "attention"}
  BY <1>1 DEF Line
<1>3. Wait => s[1] \in {"sleep", "until"}
  BY <1>1 DEF Wait
<1>4. /\ Probe => s[1] = "probe"
      /\ Ready => s[1] = "ready"
      /\ EoiSeen => s[1] = "eoi"
      /\ Clock => s[1] = "clock"
      /\ Out => s[1] = "out"
      /\ FlushQueue => s[1] = "flush"
      /\ Await => s[1] = "receive"
      /\ Silence => s[1] = "bits"
      /\ Store => s[1] = "store"
  BY <1>1, Zenon DEF Probe, Ready, EoiSeen, Clock, Out, FlushQueue, Await, Silence, Store
<1>5. Line \/ Wait \/ Probe \/ Ready \/ EoiSeen \/ Clock \/ Out \/ FlushQueue \/ Await \/ Silence \/ Store
  BY DEF Controller
<1> HIDE DEF Line, Wait, Probe, Ready, EoiSeen, Clock, Out, FlushQueue, Await, Silence, Store
<1> QED BY <1>2, <1>3, <1>4, <1>5

DevicesKept == dev' = dev
CallKept == call' = call
FlagsKept == queue' = queue /\ eoi_pending' = eoi_pending /\ rx_eoi' = rx_eoi
AnswerKept == buffer' = buffer /\ result' = result /\ terminator' = terminator
BytesKept == CallKept /\ FlagsKept /\ AnswerKept

(* The controller pulls or frees a line, or asks for attention. *)
LEMMA OnLine ==
  ASSUME NEW k \in Seq(Steps), Controller
  PROVE  /\ \A line \in {"ATN", "CLK", "DATA"} :
              /\ todo = Then(Pull(line), k) =>
                   host' = host \cup {line} /\ todo' = k /\ DevicesKept /\ BytesKept
              /\ todo = Then(Free(line), k) =>
                   host' = host \ {line} /\ todo' = k /\ DevicesKept /\ BytesKept
         /\ todo = Then(<<"attention">>, k) =>
              host' = (host \cup {"ATN", "CLK"}) \ {"DATA"} /\ todo' = k /\ DevicesKept /\ BytesKept
<1>1. ASSUME NEW s \in Steps, todo = Then(s, k), s[1] \in {"pull", "free", "attention"}
      PROVE  /\ todo' = k /\ DevicesKept /\ BytesKept
             /\ s[1] = "pull" => host' = host \cup {s[2]}
             /\ s[1] = "free" => host' = host \ {s[2]}
             /\ s[1] = "attention" => host' = (host \cup {"ATN", "CLK"}) \ {"DATA"}
  <2>1. /\ At("pull") <=> s[1] = "pull"
        /\ At("free") <=> s[1] = "free"
        /\ At("attention") <=> s[1] = "attention"
        /\ Next1 = s
    BY <1>1, Doing
  <2>2. Line
    BY <1>1, OneAction
  <2>3. todo' = k
    <3>1. Do(<<>>)
      BY <2>2, Zenon DEF Line
    <3> QED BY <1>1, <3>1, Doing
  <2>4. dev' = dev /\ call' = call /\ flags' = flags /\ answer' = answer
    BY <2>2 DEF Line
  <2>5. DevicesKept /\ BytesKept
    BY <2>4 DEF DevicesKept, BytesKept, CallKept, FlagsKept, AnswerKept, flags, answer
  <2> QED BY <1>1, <2>1, <2>2, <2>3, <2>5 DEF Line
<1>2. ASSUME NEW line \in {"ATN", "CLK", "DATA"}, todo = Then(Pull(line), k)
      PROVE  host' = host \cup {line} /\ todo' = k /\ DevicesKept /\ BytesKept
  <2>1. Pull(line) \in Steps /\ Pull(line)[1] = "pull" /\ Pull(line)[2] = line
    BY StepNames
  <2> QED BY <1>1, <1>2, <2>1
<1>3. ASSUME NEW line \in {"ATN", "CLK", "DATA"}, todo = Then(Free(line), k)
      PROVE  host' = host \ {line} /\ todo' = k /\ DevicesKept /\ BytesKept
  <2>1. Free(line) \in Steps /\ Free(line)[1] = "free" /\ Free(line)[2] = line
    BY StepNames
  <2> QED BY <1>1, <1>3, <2>1
<1>4. ASSUME todo = Then(<<"attention">>, k)
      PROVE  host' = (host \cup {"ATN", "CLK"}) \ {"DATA"} /\ todo' = k /\ DevicesKept /\ BytesKept
  <2> DEFINE s == <<"attention">>
  <2>1. s \in Steps /\ s[1] = "attention"
    BY StepNames
  <2>2. todo = Then(s, k)
    BY <1>4
  <2> HIDE DEF s
  <2> QED BY <1>1, <2>1, <2>2
<1> QED BY <1>2, <1>3, <1>4

(* The controller pauses: what devices owe has been done. *)
LEMMA OnSleep ==
  ASSUME NEW k \in Seq(Steps), Controller, todo = Then(Sleep, k)
  PROVE  Settled /\ host' = host /\ todo' = k /\ DevicesKept /\ BytesKept
<1>1. Sleep \in Steps /\ Sleep[1] = "sleep"
  BY StepNames
<1>2. Wait /\ ~At("until") /\ (Do(<<>>) => todo' = k)
  BY <1>1, Doing, OneAction
<1> QED
  BY <1>2 DEF Wait, ReadsNothing, HostWaitsForClock,
     DevicesKept, BytesKept, CallKept, FlagsKept, AnswerKept, flags

(* The controller has seen the line it waits for; when a talker has taken   *)
(* the clock and there is nothing to read, the 0 is written.                *)
LEMMA OnUntil ==
  ASSUME NEW k \in Seq(Steps), Controller,
         NEW line \in {"CLK", "DATA"}, NEW level \in {"low", "high"}, todo = Then(Until(line, level), k)
  PROVE  /\ Low(line) = (level = "low") /\ host' = host /\ todo' = k
         /\ DevicesKept /\ CallKept /\ FlagsKept /\ buffer' = buffer /\ result' = result
         /\ (line = "DATA" \/ call.count # 0) => BytesKept
         /\ (line = "CLK" /\ level = "low" /\ call.count = 0) => terminator' = 1
<1> DEFINE s == Until(line, level)
<1>1. s \in Steps /\ s[1] = "until" /\ s[2] = line /\ s[3] = level /\ todo = Then(s, k)
  BY StepNames
<1> HIDE DEF s
<1>2. Wait /\ ~At("sleep") /\ At("until") /\ Next1 = s /\ (Do(<<>>) => todo' = k)
  BY <1>1, Doing, OneAction
<1>3. /\ Low(line) = (level = "low") /\ host' = host /\ todo' = k
      /\ DevicesKept /\ CallKept /\ FlagsKept /\ buffer' = buffer /\ result' = result
      /\ terminator' = IF ReadsNothing THEN 1 ELSE terminator
  BY <1>1, <1>2 DEF Wait, DevicesKept, CallKept, FlagsKept, flags
<1>4. line = "DATA" \/ call.count # 0 => ~ReadsNothing
  <2>1. Until("CLK", "low")[2] = "CLK"
    BY StepNames
  <2> QED BY <1>1, <1>2, <2>1 DEF ReadsNothing, HostWaitsForClock
<1>5. line = "CLK" /\ level = "low" /\ call.count = 0 => ReadsNothing
  BY <1>2 DEF ReadsNothing, HostWaitsForClock, s
<1> QED BY <1>3, <1>4, <1>5 DEF BytesKept, AnswerKept

(* The controller goes on if a device has answered, or gives up. *)
LEMMA OnProbe ==
  ASSUME NEW k \in Seq(Steps), Controller, NEW b \in Letters, todo = Atn2(b, k)
  PROVE  /\ host' = host /\ DevicesKept /\ CallKept /\ AnswerKept
         /\ queue' = queue /\ rx_eoi' = rx_eoi
         /\ \/ Low("DATA") /\ eoi_pending' = FALSE /\ todo' = Send0(b, k)
            \/ ~Low("DATA") /\ eoi_pending' = eoi_pending /\ todo' = Then(Free("ATN"), k)
<1> DEFINE s == <<"probe", b>>
<1>1. s \in Steps /\ s[1] = "probe" /\ s[2] = b
  BY StepNames
<1>2. todo = Then(s, k)
  BY DEF Atn2
<1> HIDE DEF s
<1>3. Probe /\ Next1 = s /\ \A steps : Do(steps) <=> todo' = Cat(steps, k)
  BY <1>1, <1>2, Doing, OneAction
<1>4. Cat(Send(b), k) = Send0(b, k) /\ Cat(<<Free("ATN")>>, k) = Then(Free("ATN"), k)
  BY Pieces
<1>5. /\ host' = host /\ dev' = dev /\ call' = call /\ queue' = queue /\ rx_eoi' = rx_eoi /\ answer' = answer
      /\ \/ Low("DATA") /\ eoi_pending' = FALSE /\ Do(Send(b))
         \/ ~Low("DATA") /\ eoi_pending' = eoi_pending /\ Do(<<Free("ATN")>>)
  BY <1>1, <1>3 DEF Probe
<1>6. Do(Send(b)) => todo' = Send0(b, k)
  BY <1>3, <1>4
<1>7. Do(<<Free("ATN")>>) => todo' = Then(Free("ATN"), k)
  BY <1>3, <1>4, Zenon
<1> QED
  BY <1>5, <1>6, <1>7 DEF DevicesKept, CallKept, AnswerKept, answer

(* The byte is sent, as the last one if it is. *)
LEMMA OnReady ==
  ASSUME NEW k \in Seq(Steps), Controller, NEW b \in Letters, todo = Send3(b, k)
  PROVE  /\ host' = host /\ DevicesKept /\ BytesKept
         /\ todo' = IF eoi_pending THEN Eoi0(b, k) ELSE Clock0(b, k)
<1> DEFINE s == <<"ready", b>>
<1>1. s \in Steps /\ s[1] = "ready" /\ s[2] = b
  BY StepNames
<1>2. todo = Then(s, k)
  BY DEF Send3
<1> HIDE DEF s
<1>3. Ready /\ Next1 = s /\ \A steps : Do(steps) <=> todo' = Cat(steps, k)
  BY <1>1, <1>2, Doing, OneAction
<1>4. Cat(SendLast(b), k) = Eoi0(b, k) /\ Cat(SendBits(b), k) = Clock0(b, k)
  BY Pieces
<1>5. Do(IF eoi_pending THEN SendLast(b) ELSE SendBits(b))
  BY <1>1, <1>3 DEF Ready
<1>6. todo' = IF eoi_pending THEN Eoi0(b, k) ELSE Clock0(b, k)
  BY <1>3, <1>4, <1>5
<1> QED
  BY <1>3, <1>6 DEF Ready, DevicesKept, BytesKept, CallKept, FlagsKept, AnswerKept, flags, answer

(* A listener has seen that the last byte comes. *)
LEMMA OnEoi ==
  ASSUME NEW k \in Seq(Steps), Controller, NEW b \in Letters, todo = Eoi0(b, k)
  PROVE  /\ Low("DATA") /\ host' = host /\ DevicesKept /\ CallKept /\ AnswerKept
         /\ queue' = queue /\ rx_eoi' = rx_eoi /\ eoi_pending' = FALSE /\ todo' = Eoi1(b, k)
<1> DEFINE s == <<"eoi">>
           r == Eoi1(b, k)
<1>1. s \in Steps /\ s[1] = "eoi" /\ r \in Seq(Steps)
  BY StepNames, Rests
<1>2. todo = Then(s, r)
  BY DEF Eoi0
<1> HIDE DEF s, r
<1>3. EoiSeen /\ (Do(<<>>) => todo' = r)
  BY <1>1, <1>2, Doing, OneAction
<1> QED
  BY <1>3 DEF EoiSeen, DevicesKept, CallKept, AnswerKept, answer, r

(* The bits of a byte are sent. *)
LEMMA OnClock ==
  ASSUME NEW k \in Seq(Steps), Controller, NEW b \in Letters, todo = Clock1(b, k)
  PROVE  /\ host' = (host \cup {"CLK"}) \ {"DATA"} /\ BytesKept /\ todo' = Clock2(k)
         /\ dev' = [d \in Devices |-> IF dev[d].state = "ready" THEN Hears(d, b) ELSE dev[d]]
<1> DEFINE s == <<"clock", b>>
           r == Clock2(k)
<1>1. s \in Steps /\ s[1] = "clock" /\ s[2] = b /\ r \in Seq(Steps)
  BY StepNames, Rests
<1>2. todo = Then(s, r)
  BY DEF Clock1
<1> HIDE DEF s, r
<1>3. Clock /\ Next1 = s /\ (Do(<<>>) => todo' = r)
  BY <1>1, <1>2, Doing, OneAction
<1>4. dev' = [d \in Devices |-> IF dev[d].state = "ready" THEN Hears(d, b) ELSE dev[d]]
  BY <1>1, <1>3, Zenon DEF Clock
<1> QED
  BY <1>3, <1>4 DEF Clock, BytesKept, CallKept, FlagsKept, AnswerKept, flags, answer, r

(* A byte of the message is held back, and the one before it sent. *)
LEMMA OnOut ==
  ASSUME NEW k \in Seq(Steps), Controller, NEW b \in Letters, todo = Then(<<"out", b>>, k),
         queue = None \/ queue \in Letters
  PROVE  /\ host' = host /\ DevicesKept /\ CallKept /\ AnswerKept
         /\ eoi_pending' = eoi_pending /\ rx_eoi' = rx_eoi
         /\ \/ queue = None /\ queue' = b /\ todo' = k
            \/ queue # None /\ queue' = None /\ todo' = Send0(queue, todo)
<1> DEFINE s == <<"out", b>>
<1>1. s \in Steps /\ s[1] = "out" /\ s[2] = b
  BY StepNames
<1>2. todo = Then(s, k)
  OBVIOUS
<1> HIDE DEF s
<1>3. Out /\ Next1 = s /\ (\A steps : Do(steps) <=> todo' = Cat(steps, k)) /\ (Do(<<>>) => todo' = k)
  BY <1>1, <1>2, Doing, OneAction
<1>4. ASSUME queue # None, Do(Send(queue) \o <<s>>)
      PROVE  todo' = Send0(queue, todo)
  <2>1. queue \in Letters
    BY <1>4
  <2>2. Send(queue) \in Seq(Steps)
    BY <2>1, StepNames DEF Send
  <2>3. <<s>> \in Seq(Steps)
    BY <1>1
  <2>4. todo' = Cat(Cat(Send(queue), <<s>>), k)
    BY <1>3, <1>4, Zenon DEF Cat
  <2>5. Cat(Cat(Send(queue), <<s>>), k) = Cat(Send(queue), Cat(<<s>>, k))
    BY <2>2, <2>3, Assoc
  <2>6. Cat(<<s>>, k) = todo
    BY <1>2, Zenon DEF Cat, Then
  <2>7. todo \in Seq(Steps)
    BY <1>1, <1>2, ThenType
  <2>8. Cat(Send(queue), todo) = Send0(queue, todo)
    BY <2>1, <2>7, Pieces
  <2> QED BY <2>4, <2>5, <2>6, <2>8
<1>5. \/ queue = None /\ queue' = b /\ todo' = k
      \/ queue # None /\ queue' = None /\ todo' = Send0(queue, todo)
  <2>1. CASE queue = None
    BY <1>1, <1>3, <2>1 DEF Out
  <2>2. CASE queue # None
    <3>1. queue' = None /\ Do(Send(queue) \o <<s>>)
      BY <1>3, <2>2, Zenon DEF Out
    <3> QED BY <1>4, <2>2, <3>1
  <2> QED BY <2>1, <2>2
<1> QED
  BY <1>3, <1>5 DEF Out, DevicesKept, CallKept, AnswerKept, answer

(* The byte held back is sent as the last one. *)
LEMMA OnFlush ==
  ASSUME NEW k \in Seq(Steps), Controller, todo = Then(<<"flush">>, k),
         queue = None \/ queue \in Letters
  PROVE  /\ host' = host /\ DevicesKept /\ CallKept /\ AnswerKept /\ rx_eoi' = rx_eoi
         /\ \/ queue = None /\ queue' = None /\ eoi_pending' = eoi_pending /\ todo' = k
            \/ queue # None /\ queue' = None /\ eoi_pending' = TRUE /\ todo' = Send0(queue, k)
<1> DEFINE s == <<"flush">>
<1>1. s \in Steps /\ s[1] = "flush"
  BY StepNames
<1>2. todo = Then(s, k)
  OBVIOUS
<1> HIDE DEF s
<1>3. FlushQueue /\ (\A steps : Do(steps) <=> todo' = Cat(steps, k)) /\ (Do(<<>>) => todo' = k)
  BY <1>1, <1>2, Doing, OneAction
<1>4. queue \in Letters => Cat(Send(queue), k) = Send0(queue, k)
  BY Pieces
<1>5. \/ queue = None /\ queue' = None /\ eoi_pending' = eoi_pending /\ todo' = k
      \/ queue # None /\ queue' = None /\ eoi_pending' = TRUE /\ todo' = Send0(queue, k)
  BY <1>3, <1>4 DEF FlushQueue
<1> QED
  BY <1>3, <1>5 DEF FlushQueue, DevicesKept, CallKept, AnswerKept, answer

(* The talker has a byte. *)
LEMMA OnReceive ==
  ASSUME Controller, todo = Receive0
  PROVE  /\ ~Low("CLK") /\ host' = host /\ DevicesKept /\ CallKept /\ AnswerKept
         /\ queue' = queue /\ eoi_pending' = eoi_pending /\ rx_eoi' = FALSE /\ todo' = Receive1
<1> DEFINE s == <<"receive">>
<1>1. s \in Steps /\ s[1] = "receive" /\ Receive1 \in Seq(Steps)
  BY StepNames, CallRests
<1>2. todo = Then(s, Receive1)
  BY DEF Receive0
<1> HIDE DEF s
<1>3. Await /\ (Do(<<>>) => todo' = Receive1)
  BY <1>1, <1>2, Doing, OneAction
<1> QED
  BY <1>3 DEF Await, DevicesKept, CallKept, AnswerKept, answer

(* The talker is silent. *)
LEMMA OnBits ==
  ASSUME Controller, todo = Receive3
  PROVE  /\ ~Low("CLK") /\ Settled /\ \A d \in Devices : ~Sends(d)
         /\ host' = host /\ DevicesKept /\ CallKept /\ AnswerKept
         /\ queue' = queue /\ eoi_pending' = eoi_pending
         /\ \/ rx_eoi /\ rx_eoi' = rx_eoi /\ todo' = Take3(Data(Garbage))
            \/ ~rx_eoi /\ rx_eoi' = TRUE /\ todo' = Last0
<1> DEFINE s == <<"bits">>
           none == <<>>
           store == <<<<"store", Data(Garbage)>>>>
<1>1. s \in Steps /\ s[1] = "bits" /\ none \in Seq(Steps)
  BY StepNames
<1>2. todo = Then(s, none)
  BY DEF Receive3
<1>3. Cat(store, none) = Take3(Data(Garbage)) /\ Cat(ReceiveLast, none) = Last0
  <2>1. Data(Garbage) \in Letters
    BY LetterNames
  <2>2. Last0 \in Seq(Steps) /\ ReceiveLast = Last0
    BY CallRests, CallsAre
  <2> QED BY <2>1, <2>2, CallsAre, Concat DEF Cat
<1> HIDE DEF s, none
<1>4. Silence /\ \A steps : Do(steps) <=> todo' = Cat(steps, none)
  BY <1>1, <1>2, Doing, OneAction
<1> HIDE DEF store
<1>5. \/ rx_eoi /\ rx_eoi' = rx_eoi /\ Do(store)
      \/ ~rx_eoi /\ rx_eoi' = TRUE /\ Do(ReceiveLast)
  BY <1>4 DEF Silence, store
<1> QED
  BY <1>3, <1>4, <1>5 DEF Silence, DevicesKept, CallKept, AnswerKept, answer

(* A byte of the status is stored. *)
LEMMA OnStore ==
  ASSUME Controller, NEW b \in Letters, todo = Take3(b)
  PROVE  /\ host' = host /\ DevicesKept /\ CallKept /\ FlagsKept
         /\ buffer' = Append(buffer, b)
         /\ result' = IF rx_eoi THEN Len(buffer) ELSE Len(buffer')
         /\ terminator' = IF rx_eoi \/ Len(buffer') = call.count THEN result' + 1 ELSE terminator
         /\ todo' = IF rx_eoi \/ Len(buffer') = call.count THEN Untalk0 ELSE Receive0
<1> DEFINE s == <<"store", b>>
           none == <<>>
<1>1. s \in Steps /\ s[1] = "store" /\ s[2] = b /\ none \in Seq(Steps)
  BY StepNames
<1>2. todo = Then(s, none)
  BY DEF Take3
<1>3. Cat(Untalk, none) = Untalk0 /\ Cat(Receive, none) = Receive0
  BY CallRests, CallsAre, Concat DEF Cat
<1> HIDE DEF s, none
<1>4. Store /\ Next1 = s /\ \A steps : Do(steps) <=> todo' = Cat(steps, none)
  BY <1>1, <1>2, Doing, OneAction
<1>5. Do(IF rx_eoi \/ Len(buffer') = call.count THEN Untalk ELSE Receive)
  BY <1>4 DEF Store
<1>6. todo' = IF rx_eoi \/ Len(buffer') = call.count THEN Untalk0 ELSE Receive0
  BY <1>3, <1>4, <1>5
<1> QED
  BY <1>1, <1>4, <1>6 DEF Store, DevicesKept, CallKept, FlagsKept, flags

-----------------------------------------------------------------------------
(* What a device does on its own. *)

Vanishes(d) == dev'[d] = NoDevice
Stays(d) ==
  /\ dev'[d].plugged /\ dev'[d].role = dev[d].role
  /\ dev'[d].heard = dev[d].heard /\ dev'[d].sent = dev[d].sent
Notices(d) ==
  /\ "ATN" \in host /\ ~dev[d].atn /\ dev'[d].atn
  /\ dev'[d].state = "hold" /\ dev'[d].last = dev[d].last
Leaves(d) ==
  /\ "ATN" \notin host /\ dev[d].atn /\ ~dev'[d].atn /\ dev'[d].last = dev[d].last
  /\ dev'[d].state = IF dev[d].role = "listener" THEN "hold"
                     ELSE IF dev[d].role = "talker" THEN "turn" ELSE "idle"
Turns(d, from, to) == dev[d].state = from /\ dev'[d].state = to
Goes(d) ==
  /\ dev'[d].atn = dev[d].atn /\ dev'[d].last = dev[d].last
  /\ \/ Turns(d, "hold", "ready") /\ ~Low("CLK")
     \/ Turns(d, "got", "hold")
     \/ Turns(d, "eoi", "ready") /\ ~HostWaitsForEoi
     \/ Turns(d, "turn", "clk") /\ ~Low("CLK")
     \/ Turns(d, "clk", "offer") /\ ~HostWaitsForClock /\ \A e \in Devices : ~Owes(e)
     \/ Turns(d, "offer", "due") /\ ~Low("DATA")
     \/ Turns(d, "due", "acked") /\ Last(d) /\ Low("DATA")
     \/ Turns(d, "sent", "clk") /\ Low("DATA") /\ dev[d].sent < Len(Text)
     \/ Turns(d, "sent", "done") /\ Low("DATA") /\ dev[d].sent = Len(Text)
Learns(d) ==
  /\ dev'[d].atn = dev[d].atn /\ HostWaitsForEoi
  /\ Turns(d, "ready", "eoi") /\ dev'[d].last
Evolves(d) ==
  /\ todo' = todo /\ host' = host /\ BytesKept
  /\ dev' \in [Devices -> DeviceRecord] /\ \A e \in Devices : Fit(dev'[e])
  /\ dev[d].plugged /\ \A e \in Devices : e # d => dev'[e] = dev[e]
  /\ Vanishes(d) \/ (Stays(d) /\ (Notices(d) \/ Leaves(d) \/ Goes(d) \/ Learns(d)))

(* Only the controller pulls ATN, and a device that is off pulls nothing. *)
LEMMA LowAtn ==
  ASSUME Base
  PROVE  /\ Low("ATN") <=> "ATN" \in host
         /\ \A e \in Devices : ~dev[e].plugged => dev[e] = NoDevice /\ ~dev[e].atn /\ dev[e].role = "none"
                                   /\ dev[e].state = "idle" /\ ~dev[e].last /\ dev[e].pull = {}
BY DEF Base, Low, Fit, PullOf, NoDevice, NewDevice, DeviceRecord

(* What replacing the record of one device leaves of the others. *)
LEMMA OthersKept ==
  ASSUME Base, NEW d \in Devices, NEW r \in DeviceRecord, Fit(r), dev' = [dev EXCEPT ![d] = r]
  PROVE  /\ dev' \in [Devices -> DeviceRecord] /\ dev'[d] = r
         /\ \A e \in Devices : e # d => dev'[e] = dev[e]
         /\ \A e \in Devices : Fit(dev'[e])
<1>1. dev \in [Devices -> DeviceRecord] /\ \A e \in Devices : Fit(dev[e])
  BY DEF Base
<1>2. /\ dev' \in [Devices -> DeviceRecord] /\ dev'[d] = r
      /\ \A e \in Devices : e # d => dev'[e] = dev[e]
  BY <1>1
<1>3. ASSUME NEW e \in Devices PROVE Fit(dev'[e])
  <2>1. CASE e = d
    BY <1>2, <2>1
  <2>2. CASE e # d
    <3>1. dev'[e] = dev[e]
      BY <1>2, <2>2
    <3> QED BY <1>1, <3>1
  <2> QED BY <2>1, <2>2
<1> QED BY <1>2, <1>3

(* The record of a device that is off is well formed. *)
LEMMA NoDeviceFits == NoDevice \in DeviceRecord /\ Fit(NoDevice)
<1> DEFINE empty == <<>>
<1>1. empty \in Seq([byte : Letters, last : BOOLEAN])
  OBVIOUS
<1>2. 0 \in 0 .. Len(Text)
  BY IecAssumption, LenProperties DEF IecAssumption
<1>6. NewDevice = [plugged |-> TRUE, atn |-> FALSE, role |-> "none", state |-> "idle",
                   pull |-> {}, heard |-> empty, last |-> FALSE, sent |-> 0]
  BY Zenon DEF NewDevice
<1> HIDE DEF empty
<1>3. NewDevice \in DeviceRecord
  BY <1>1, <1>2, <1>6 DEF DeviceRecord, States, Roles
<1>7. NewDevice.atn = FALSE /\ NewDevice.role = "none" /\ NewDevice.state = "idle" /\ NewDevice.pull = {}
  BY <1>6
<1>4. NoDevice \in DeviceRecord
  BY <1>3 DEF DeviceRecord, NoDevice
<1>8. /\ NoDevice.atn = NewDevice.atn /\ NoDevice.role = NewDevice.role /\ NoDevice.state = NewDevice.state
      /\ NoDevice.pull = NewDevice.pull
  BY <1>3 DEF DeviceRecord, NoDevice
<1>5. Fit(NoDevice)
  BY <1>7, <1>8 DEF Fit, PullOf, StatesOf
<1> QED BY <1>4, <1>5

(* A device as it is, but for what a step of it may change. *)
Changed(r, atn, state, pull, last) ==
  [r EXCEPT !.atn = atn, !.state = state, !.pull = pull, !.last = last]

AtnBecomes(d, atn, state, pull) ==
  dev' = [dev EXCEPT ![d].atn = atn, ![d].state = state, ![d].pull = pull]
LastBecomes(d, state, pull, last) ==
  dev' = [dev EXCEPT ![d].state = state, ![d].pull = pull, ![d].last = last]

(* The updates of a device, as records. *)
LEMMA Changes ==
  ASSUME Base, NEW d \in Devices, NEW state \in States, NEW pull \in SUBSET {"CLK", "DATA"}, NEW last \in BOOLEAN
  PROVE  /\ Becomes(d, state, pull) => dev' = [dev EXCEPT ![d] = Changed(dev[d], dev[d].atn, state, pull, dev[d].last)]
         /\ LastBecomes(d, state, pull, last)
              => dev' = [dev EXCEPT ![d] = Changed(dev[d], dev[d].atn, state, pull, last)]
         /\ \A atn \in BOOLEAN : AtnBecomes(d, atn, state, pull)
              => dev' = [dev EXCEPT ![d] = Changed(dev[d], atn, state, pull, dev[d].last)]
<1>1. dev \in [Devices -> DeviceRecord] /\ dev[d] \in DeviceRecord
  BY DEF Base
<1>2. [dev[d] EXCEPT !.state = state, !.pull = pull] = Changed(dev[d], dev[d].atn, state, pull, dev[d].last)
  BY <1>1 DEF Changed, DeviceRecord
<1>3. [dev[d] EXCEPT !.state = state, !.pull = pull, !.last = last] = Changed(dev[d], dev[d].atn, state, pull, last)
  BY <1>1 DEF Changed, DeviceRecord
<1>4. ASSUME NEW atn \in BOOLEAN
      PROVE  [dev[d] EXCEPT !.atn = atn, !.state = state, !.pull = pull] = Changed(dev[d], atn, state, pull, dev[d].last)
  BY <1>1 DEF Changed, DeviceRecord
<1>5. [dev EXCEPT ![d].state = state, ![d].pull = pull] = [dev EXCEPT ![d] = [dev[d] EXCEPT !.state = state, !.pull = pull]]
  BY <1>1
<1>6. [dev EXCEPT ![d].state = state, ![d].pull = pull, ![d].last = last]
        = [dev EXCEPT ![d] = [dev[d] EXCEPT !.state = state, !.pull = pull, !.last = last]]
  BY <1>1
<1>7. ASSUME NEW atn \in BOOLEAN
      PROVE  [dev EXCEPT ![d].atn = atn, ![d].state = state, ![d].pull = pull]
               = [dev EXCEPT ![d] = [dev[d] EXCEPT !.atn = atn, !.state = state, !.pull = pull]]
  BY <1>1
<1> QED BY <1>2, <1>3, <1>4, <1>5, <1>6, <1>7 DEF Becomes, AtnBecomes, LastBecomes

(* A step of a device is one of the few ways it can evolve, or sends a byte. *)
LEMMA DeviceStep ==
  ASSUME Base, HostWaitsForEoi => Off, NEW d \in Devices, Device(d) \/ SwitchOff(d)
  PROVE  Evolves(d) \/ TalkerSends(d)
<1>1. /\ dev \in [Devices -> DeviceRecord] /\ dev[d] \in DeviceRecord /\ Fit(dev[d])
      /\ Text \in Seq(Bytes) /\ Len(Text) \in Nat
  BY IecAssumption, LenProperties DEF Base, IecAssumption
<1>2. ASSUME BusOnly PROVE todo' = todo /\ host' = host /\ BytesKept
  BY <1>2 DEF BusOnly, BytesKept, CallKept, FlagsKept, AnswerKept, flags, answer
<1>3. ASSUME SwitchOff(d) PROVE Evolves(d)
  <2>1. dev' = [dev EXCEPT ![d] = NoDevice] /\ dev[d].plugged /\ BusOnly
    BY <1>3 DEF SwitchOff
  <2>2. NoDevice \in DeviceRecord /\ Fit(NoDevice)
    BY NoDeviceFits
  <2> QED BY <1>2, <2>1, <2>2, OthersKept DEF Evolves, Vanishes
<1>4. ASSUME NEW atn \in BOOLEAN, NEW state \in States, NEW pull \in SUBSET {"CLK", "DATA"}, NEW last \in BOOLEAN,
             dev' = [dev EXCEPT ![d] = Changed(dev[d], atn, state, pull, last)],
             dev[d].plugged, BusOnly,
             pull = PullOf(state), state = "done" => dev[d].sent = Len(Text),
             state \in IF atn THEN {"hold", "ready", "got"} ELSE StatesOf(dev[d].role)
      PROVE  /\ dev'[d].atn = atn /\ dev'[d].state = state /\ dev'[d].last = last
             /\ Stays(d)
             /\ Notices(d) \/ Leaves(d) \/ Goes(d) \/ Learns(d) => Evolves(d)
  <2> DEFINE r == Changed(dev[d], atn, state, pull, last)
  <2>1. /\ r \in DeviceRecord /\ r.atn = atn /\ r.state = state /\ r.pull = pull /\ r.last = last
        /\ r.plugged = dev[d].plugged /\ r.role = dev[d].role /\ r.heard = dev[d].heard /\ r.sent = dev[d].sent
    BY <1>1 DEF DeviceRecord, Changed
  <2>2. dev' = [dev EXCEPT ![d] = r]
    BY <1>4
  <2> HIDE DEF r
  <2>3. Fit(r)
    BY <1>4, <2>1 DEF Fit
  <2>4. /\ dev' \in [Devices -> DeviceRecord] /\ dev'[d] = r
        /\ \A e \in Devices : e # d => dev'[e] = dev[e]
        /\ \A e \in Devices : Fit(dev'[e])
    BY <2>1, <2>2, <2>3, OthersKept
  <2>5. Stays(d)
    BY <1>4, <2>1, <2>4 DEF Stays
  <2> QED BY <1>2, <1>4, <2>1, <2>4, <2>5 DEF Evolves
<1>5. dev[d].plugged \/ (dev[d].state = "idle" /\ ~dev[d].atn)
  BY LowAtn
<1>6. ASSUME NEW state \in States, Becomes(d, state, PullOf(state)), BusOnly, dev[d].state # "idle",
             state \in IF dev[d].atn THEN {"hold", "ready", "got"} ELSE StatesOf(dev[d].role),
             state = "done" => dev[d].sent = Len(Text)
      PROVE  dev'[d].atn = dev[d].atn /\ dev'[d].state = state /\ dev'[d].last = dev[d].last
             /\ Stays(d) /\ (Goes(d) => Evolves(d))
  <2>1. PullOf(state) \in SUBSET {"CLK", "DATA"}
    BY DEF PullOf
  <2>2. dev[d].atn \in BOOLEAN /\ dev[d].last \in BOOLEAN
    BY <1>1 DEF DeviceRecord
  <2>3. dev' = [dev EXCEPT ![d] = Changed(dev[d], dev[d].atn, state, PullOf(state), dev[d].last)]
    BY <1>6, <2>1, <2>2, Changes
  <2> QED BY <1>4, <1>5, <1>6, <2>1, <2>2, <2>3
<1>7. ASSUME NoticeAtn(d) PROVE Evolves(d)
  <2> DEFINE on == TRUE
             state == "hold"
             pull == {"DATA"}
             last == dev[d].last
  <2>1. AtnBecomes(d, on, state, pull) /\ dev[d].plugged /\ Low("ATN") /\ ~dev[d].atn /\ BusOnly
    BY <1>7, Zenon DEF NoticeAtn, AtnBecomes
  <2>2. /\ state \in States /\ pull \in SUBSET {"CLK", "DATA"} /\ last \in BOOLEAN /\ on \in BOOLEAN
        /\ pull = PullOf(state) /\ state \in {"hold", "ready", "got"} /\ state # "done"
    BY <1>1 DEF States, DeviceRecord, PullOf
  <2>3. last = dev[d].last
    OBVIOUS
  <2>7. on = TRUE /\ state = "hold"
    OBVIOUS
  <2> HIDE DEF on, state, pull, last
  <2>4. dev' = [dev EXCEPT ![d] = Changed(dev[d], on, state, pull, last)]
    BY <2>1, <2>2, <2>3, Changes
  <2>5. state \in IF on THEN {"hold", "ready", "got"} ELSE StatesOf(dev[d].role)
    BY <2>2, <2>7
  <2>6. dev'[d].atn = on /\ dev'[d].state = state /\ dev'[d].last = last /\ (Notices(d) => Evolves(d))
    BY <1>4, <2>1, <2>2, <2>4, <2>5
  <2> QED BY <2>1, <2>3, <2>6, <2>7, LowAtn DEF Notices
<1>8. ASSUME LeaveAtn(d) PROVE Evolves(d)
  <2> DEFINE on == FALSE
             state == IF dev[d].role = "listener" THEN "hold"
                      ELSE IF dev[d].role = "talker" THEN "turn" ELSE "idle"
             pull == IF dev[d].role = "listener" THEN {"DATA"} ELSE {}
             last == dev[d].last
  <2>1. dev[d].atn /\ ~Low("ATN") /\ BusOnly
    BY <1>8 DEF LeaveAtn
  <2>2. /\ state \in States /\ pull \in SUBSET {"CLK", "DATA"} /\ last \in BOOLEAN /\ on \in BOOLEAN
        /\ pull = PullOf(state) /\ state # "done" /\ state \in StatesOf(dev[d].role)
    BY <1>1 DEF States, DeviceRecord, PullOf, StatesOf, Roles
  <2>3. on = FALSE /\ last = dev[d].last
    OBVIOUS
  <2> DEFINE chosen == CASE dev[d].role = "listener" -> "hold"
                         [] dev[d].role = "talker" -> "turn"
                         [] OTHER -> "idle"
  <2>4. chosen = state
    OBVIOUS
  <2>5. AtnBecomes(d, on, chosen, pull)
    BY <1>8, Zenon DEF LeaveAtn, AtnBecomes
  <2> HIDE DEF on, state, pull, last, chosen
  <2>6. dev' = [dev EXCEPT ![d] = Changed(dev[d], on, state, pull, last)]
    BY <2>2, <2>3, <2>4, <2>5, Changes
  <2>7. state \in IF on THEN {"hold", "ready", "got"} ELSE StatesOf(dev[d].role)
    BY <2>2, <2>3
  <2>8. dev'[d].atn = on /\ dev'[d].state = state /\ dev'[d].last = last /\ (Leaves(d) => Evolves(d))
    BY <1>4, <1>5, <2>1, <2>2, <2>6, <2>7
  <2> QED BY <2>1, <2>3, <2>8, LowAtn DEF Leaves, state
<1>9. ASSUME ListenerStep(d) PROVE Evolves(d)
  <2>0. /\ {"hold", "ready", "eoi"} \subseteq States
        /\ PullOf("ready") = {} /\ PullOf("hold") = {"DATA"} /\ PullOf("eoi") = {"DATA"}
        /\ dev[d].state \in {"hold", "ready", "got", "eoi"} =>
             \A state \in {"hold", "ready"} : state \in IF dev[d].atn THEN {"hold", "ready", "got"} ELSE StatesOf(dev[d].role)
    BY <1>1 DEF States, PullOf, Fit, StatesOf
  <2>1. BusOnly
    BY <1>9 DEF ListenerStep
  <2>2. ASSUME dev[d].state = "hold", ~Low("CLK"), Becomes(d, "ready", {}) PROVE Evolves(d)
    BY <1>6, <2>0, <2>1, <2>2 DEF Goes, Turns
  <2>3. ASSUME dev[d].state = "got", Becomes(d, "hold", {"DATA"}) PROVE Evolves(d)
    BY <1>6, <2>0, <2>1, <2>3 DEF Goes, Turns
  <2>4. ASSUME dev[d].state = "eoi", ~HostWaitsForEoi, Becomes(d, "ready", {}) PROVE Evolves(d)
    BY <1>6, <2>0, <2>1, <2>4 DEF Goes, Turns
  <2>5. ASSUME dev[d].state = "ready", HostWaitsForEoi,
               dev' = [dev EXCEPT ![d].state = "eoi", ![d].pull = {"DATA"}, ![d].last = TRUE]
        PROVE  Evolves(d)
    <3> DEFINE state == "eoi"
               pull == {"DATA"}
               last == TRUE
    <3>1. /\ ~dev[d].atn /\ state \in StatesOf(dev[d].role) /\ state \in States /\ pull \in SUBSET {"CLK", "DATA"}
          /\ last \in BOOLEAN /\ dev[d].atn \in BOOLEAN /\ pull = PullOf(state) /\ state # "done"
      BY <1>1, <2>0, <2>5 DEF Off, Fit, StatesOf, DeviceRecord
    <3>2. LastBecomes(d, state, pull, last)
      BY <2>5, Zenon DEF LastBecomes
    <3>3. dev[d].plugged
      BY <1>5, <2>5
    <3>7. state = "eoi" /\ last = TRUE
      OBVIOUS
    <3> HIDE DEF state, pull, last
    <3>4. dev' = [dev EXCEPT ![d] = Changed(dev[d], dev[d].atn, state, pull, last)]
      BY <3>1, <3>2, <3>3, Changes
    <3>5. state \in IF dev[d].atn THEN {"hold", "ready", "got"} ELSE StatesOf(dev[d].role)
      BY <3>1
    <3>6. dev'[d].atn = dev[d].atn /\ dev'[d].state = state /\ dev'[d].last = last /\ (Learns(d) => Evolves(d))
      BY <1>4, <2>1, <3>1, <3>3, <3>4, <3>5
    <3> QED BY <2>5, <3>3, <3>6, <3>7 DEF Learns, Turns
  <2> QED BY <1>9, <2>2, <2>3, <2>4, <2>5 DEF ListenerStep
<1>10. ASSUME TalkerStep(d) PROVE Evolves(d)
  <2>0. /\ {"clk", "offer", "due", "acked", "done"} \subseteq States
        /\ PullOf("clk") = {"CLK"} /\ PullOf("offer") = {} /\ PullOf("due") = {}
        /\ PullOf("acked") = {} /\ PullOf("done") = {}
        /\ dev[d].state \in {"turn", "clk", "offer", "due", "acked", "sent", "done"} =>
             \A state \in {"clk", "offer", "due", "acked", "done"} :
                state \in IF dev[d].atn THEN {"hold", "ready", "got"} ELSE StatesOf(dev[d].role)
        /\ dev[d].sent \in 0 .. Len(Text)
    BY <1>1 DEF States, PullOf, Fit, StatesOf, DeviceRecord
  <2>1. BusOnly
    BY <1>10 DEF TalkerStep
  <2>2. ASSUME dev[d].state = "turn", ~Low("CLK"), Becomes(d, "clk", {"CLK"}) PROVE Evolves(d)
    BY <1>6, <2>0, <2>1, <2>2 DEF Goes, Turns
  <2>3. ASSUME dev[d].state = "clk", ~HostWaitsForClock, \A e \in Devices : ~Owes(e), Becomes(d, "offer", {})
        PROVE  Evolves(d)
    BY <1>6, <2>0, <2>1, <2>3 DEF Goes, Turns
  <2>4. ASSUME dev[d].state = "offer", ~Low("DATA"), Becomes(d, "due", {}) PROVE Evolves(d)
    BY <1>6, <2>0, <2>1, <2>4 DEF Goes, Turns
  <2>5. ASSUME dev[d].state = "due", Last(d), Low("DATA"), Becomes(d, "acked", {}) PROVE Evolves(d)
    BY <1>6, <2>0, <2>1, <2>5 DEF Goes, Turns
  <2>6. ASSUME dev[d].state = "sent", Low("DATA"), dev[d].sent < Len(Text), Becomes(d, "clk", {"CLK"}) PROVE Evolves(d)
    BY <1>6, <2>0, <2>1, <2>6 DEF Goes, Turns
  <2>7. ASSUME dev[d].state = "sent", Low("DATA"), ~(dev[d].sent < Len(Text)), Becomes(d, "done", {}) PROVE Evolves(d)
    <3>1. dev[d].sent = Len(Text)
      BY <1>1, <2>0, <2>7
    <3> QED BY <1>6, <2>0, <2>1, <2>7, <3>1 DEF Goes, Turns
  <2> QED BY <1>10, <2>2, <2>3, <2>4, <2>5, <2>6, <2>7 DEF TalkerStep
<1> QED BY <1>3, <1>7, <1>8, <1>9, <1>10 DEF Device

(* What the step of a device leaves of every device. *)
LEMMA EachDevice ==
  ASSUME Base, NEW d \in Devices, Evolves(d), NEW e \in Devices
  PROVE  /\ dev'[e].plugged => /\ dev[e].plugged /\ dev'[e].role = dev[e].role
                               /\ dev'[e].heard = dev[e].heard /\ dev'[e].sent = dev[e].sent
         /\ ~dev'[e].plugged => /\ dev'[e] = NoDevice /\ ~dev'[e].atn /\ ~dev'[e].last
                                /\ dev'[e].role = "none" /\ dev'[e].state = "idle"
         /\ "ATN" \notin host /\ ~dev[e].atn => ~dev'[e].atn
         /\ "ATN" \in host /\ dev[e].atn /\ dev'[e].plugged => dev'[e].atn
         /\ ~HostWaitsForEoi /\ dev'[e].plugged => dev'[e].last = dev[e].last
<1>1. /\ \A x \in Devices : dev'[x].plugged \in BOOLEAN /\ Fit(dev'[x])
      /\ NoDevice.plugged = FALSE /\ NoDevice.atn = FALSE /\ NoDevice.last = FALSE
      /\ NoDevice.role = "none" /\ NoDevice.state = "idle"
  BY DEF Evolves, DeviceRecord, NoDevice, NewDevice
<1>2. CASE e # d
  BY <1>1, <1>2, LowAtn DEF Evolves, Fit, Base
<1>3. CASE e = d /\ Vanishes(d)
  BY <1>1, <1>3 DEF Vanishes
<1>4. CASE e = d /\ Stays(d) /\ (Notices(d) \/ Leaves(d) \/ Goes(d) \/ Learns(d))
  BY <1>1, <1>4 DEF Evolves, Stays, Notices, Leaves, Goes, Learns
<1>5. Vanishes(d) \/ (Stays(d) /\ (Notices(d) \/ Leaves(d) \/ Goes(d) \/ Learns(d)))
  BY DEF Evolves
<1> QED BY <1>2, <1>3, <1>4, <1>5

(* Where a device may go that has not seen ATN change. *)
LEMMA Moves ==
  ASSUME Base, NEW d \in Devices, Evolves(d), NEW e \in Devices,
         dev'[e].plugged, dev'[e].atn = dev[e].atn
  PROVE  LET old == dev[e].state
             new == dev'[e].state
         IN /\ \/ new = old
               \/ old = "hold" /\ new = "ready" /\ ~Low("CLK")
               \/ old = "got" /\ new = "hold"
               \/ old = "eoi" /\ new = "ready" /\ ~HostWaitsForEoi
               \/ old = "turn" /\ new = "clk" /\ ~Low("CLK")
               \/ /\ old = "clk" /\ new = "offer" /\ ~HostWaitsForClock
                  /\ \A x \in Devices : ~Owes(x)
               \/ old = "offer" /\ new = "due" /\ ~Low("DATA")
               \/ old = "due" /\ new = "acked" /\ Last(e) /\ Low("DATA")
               \/ old = "sent" /\ new = "clk" /\ Low("DATA") /\ dev[e].sent < Len(Text)
               \/ old = "sent" /\ new = "done" /\ Low("DATA") /\ dev[e].sent = Len(Text)
               \/ old = "ready" /\ new = "eoi" /\ HostWaitsForEoi /\ dev'[e].last
            /\ new # old /\ ~(old = "ready" /\ new = "eoi") => dev'[e].last = dev[e].last
            /\ new = old => dev'[e].last = dev[e].last
<1>1. CASE e # d
  BY <1>1 DEF Evolves
<1>2. CASE e = d
  <2>1. ~Vanishes(d)
    BY <1>2, LowAtn DEF Vanishes, NoDevice, NewDevice
  <2>2. ~Notices(d) /\ ~Leaves(d)
    BY <1>2 DEF Notices, Leaves
  <2>3. Goes(d) \/ Learns(d)
    BY <2>1, <2>2 DEF Evolves
  <2> QED BY <1>2, <2>3 DEF Goes, Learns, Turns
<1> QED BY <1>1, <1>2

(* The types after a step that keeps the call and what has been read. *)
LEMMA TypedAfter ==
  ASSUME Base, CallKept,
         dev' \in [Devices -> DeviceRecord], \A e \in Devices : Fit(dev'[e]),
         host' \subseteq {"ATN", "CLK", "DATA"},
         queue' # None => \E i \in DOMAIN call.msg : queue' = Data(call.msg[i]),
         eoi_pending' \in BOOLEAN, rx_eoi' \in BOOLEAN,
         buffer' = buffer, result' = result, terminator' \in {-1} \cup 1 .. call.count + 1
  PROVE  Base'
<1>1. ASSUME NEW e \in Devices
      PROVE  dev'[e].pull \subseteq {"CLK", "DATA"} /\ (~dev'[e].plugged => dev'[e] = NoDevice)
             /\ dev'[e].sent \in 0 .. Len(Text)
  BY DEF DeviceRecord, Fit
<1>2. /\ call \in CallRecord /\ buffer \in Seq(Letters) /\ result \in Nat
      /\ Len(buffer) <= call.count /\ \A i \in DOMAIN buffer : buffer[i] \in Stored
  BY DEF Base, TypeOK
<1>3. call' = call
  BY DEF CallKept
<1>4. TypeOK'
  BY <1>1, <1>2, <1>3 DEF TypeOK
<1>5. terminator' \in Int
  <2>1. call.count \in Counts \cup {0}
    BY <1>2 DEF CallRecord
  <2>2. \A x \in Counts \cup {0} : x \in Nat
    BY IecAssumption
  <2>3. call.count \in Nat
    BY <2>1, <2>2
  <2> QED BY <2>3
<1> QED BY <1>2, <1>3, <1>4, <1>5 DEF Base

LEMMA BaseAfter ==
  ASSUME Base, CallKept,
         dev' \in [Devices -> DeviceRecord], \A e \in Devices : Fit(dev'[e]),
         host' \subseteq {"ATN", "CLK", "DATA"},
         queue' # None => \E i \in DOMAIN call.msg : queue' = Data(call.msg[i]),
         eoi_pending' \in BOOLEAN, rx_eoi' \in BOOLEAN, AnswerKept
  PROVE  Base'
<1>1. terminator \in {-1} \cup 1 .. call.count + 1
  BY DEF Base, TypeOK
<1>2. buffer' = buffer /\ result' = result /\ terminator' = terminator
  BY DEF AnswerKept
<1> QED BY <1>1, <1>2, TypedAfter

(* The types after a device has evolved. *)
LEMMA EvolvesBase ==
  ASSUME Base, NEW d \in Devices, Evolves(d)
  PROVE  Base'
<1>1. /\ CallKept /\ AnswerKept /\ queue' = queue /\ eoi_pending' = eoi_pending /\ rx_eoi' = rx_eoi
      /\ host' = host
      /\ dev' \in [Devices -> DeviceRecord] /\ \A e \in Devices : Fit(dev'[e])
  BY DEF Evolves, BytesKept, FlagsKept
<1>2. /\ host \subseteq {"ATN", "CLK", "DATA"}
      /\ queue # None => \E i \in DOMAIN call.msg : queue = Data(call.msg[i])
      /\ eoi_pending \in BOOLEAN /\ rx_eoi \in BOOLEAN
  BY DEF Base, TypeOK
<1> QED BY <1>1, <1>2, BaseAfter

(* What holds of the devices goes on to hold while the controller waits. *)
LEMMA Steady ==
  ASSUME Base, NEW d \in Devices, Evolves(d)
  PROVE  /\ \A n : (Heard(n) => Heard(n)') /\ (HasSent(n) => HasSent(n)')
         /\ HeardAll => HeardAll'
         /\ Served => Served'
         /\ Blank => Blank'
         /\ RolesAre(0, "none") => RolesAre(0, "none")'
         /\ Listening => Listening'
         /\ Begun => Begun'
         /\ IsLast => IsLast'
         /\ ~HostWaitsForEoi =>
              /\ Quiet => Quiet'
              /\ \A j \in Jobs : (Before(j) => Before(j)') /\ (After(j) => After(j)')
              /\ Talking => Talking'
<1>1. /\ call' = call /\ queue' = queue /\ eoi_pending' = eoi_pending /\ rx_eoi' = rx_eoi
      /\ buffer' = buffer /\ result' = result /\ terminator' = terminator /\ host' = host
  BY DEF Evolves, BytesKept, CallKept, FlagsKept, AnswerKept
<1>2. ASSUME NEW e \in Devices
      PROVE  /\ dev'[e].plugged => /\ dev[e].plugged /\ dev'[e].role = dev[e].role
                                   /\ dev'[e].heard = dev[e].heard /\ dev'[e].sent = dev[e].sent
                                   /\ ~HostWaitsForEoi => dev'[e].last = dev[e].last
             /\ ~dev'[e].plugged => dev'[e].role = "none" /\ ~dev'[e].last
  BY EachDevice
<1>3. ASSUME NEW t, NEW role PROVE RolesAre(t, role) => \A e \in Devices : dev'[e].role = IF dev'[e].plugged /\ e = t THEN role ELSE "none"
  BY <1>2 DEF RolesAre
<1>4. ~HostWaitsForEoi => (Quiet => Quiet')
  BY <1>1, <1>2 DEF Quiet
<1>5. Here(call.dev)' => Here(call.dev) /\ dev'[call.dev].heard = dev[call.dev].heard /\ dev'[call.dev].sent = dev[call.dev].sent
  BY <1>1, <1>2 DEF Here
<1>6. \A n : (Heard(n) => Heard(n)') /\ (HasSent(n) => HasSent(n)')
  BY <1>1, <1>5 DEF Heard, HasSent, Plain
<1>7. HeardAll => HeardAll'
  BY <1>1, <1>5 DEF HeardAll, Marked
<1>8. Answered => Answered'
  BY <1>1, <1>5 DEF Answered, StatusOf, BytesRead, Returned
<1>9. Served => Served'
  BY <1>1, <1>7, <1>8 DEF Served
<1>10. Blank => Blank'
  BY <1>1 DEF Blank
<1>11. RolesAre(0, "none") => RolesAre(0, "none")'
  BY <1>3 DEF RolesAre
<1>12. ASSUME NEW role PROVE RolesAre(call.dev, role) => RolesAre(call.dev, role)'
  <2>1. RolesAre(call.dev, role) => \A e \in Devices : dev'[e].role = IF dev'[e].plugged /\ e = call.dev THEN role ELSE "none"
    BY <1>3
  <2> QED BY <1>1, <2>1 DEF RolesAre
<1>13. (Listening => Listening') /\ (~HostWaitsForEoi => (Talking => Talking'))
  BY <1>1, <1>4, <1>12 DEF Listening, Talking
<1>14. Begun => Begun'
  BY <1>1, <1>5 DEF Begun, StatusOf
<1>15. IsLast => IsLast'
  BY <1>1, <1>5 DEF IsLast, Last
<1>16. ASSUME NEW j \in Jobs, ~HostWaitsForEoi PROVE (Before(j) => Before(j)') /\ (After(j) => After(j)')
  <2>1. ASSUME NEW role PROVE RolesAre(Target(j), role) => RolesAre(Target(j), role)'
    <3>1. RolesAre(Target(j), role) => \A e \in Devices : dev'[e].role = IF dev'[e].plugged /\ e = Target(j) THEN role ELSE "none"
      BY <1>3
    <3>2. Target(j)' = Target(j)
      BY <1>1 DEF Target
    <3> QED BY <3>1, <3>2 DEF RolesAre
  <2> QED BY <1>1, <1>4, <1>6, <1>9, <1>10, <1>16, <2>1 DEF Before, After
<1> QED BY <1>4, <1>6, <1>7, <1>9, <1>10, <1>11, <1>13, <1>14, <1>15, <1>16

(* What the devices are all in stays so while they evolve. *)
LEMMA Climates ==
  ASSUME Base, NEW d \in Devices, Evolves(d)
  PROVE  /\ Off => Off'
         /\ \A j \in Jobs : /\ Attentive(Target(j)) => Attentive(Target(j))'
                            /\ Holds(Target(j)) => Holds(Target(j))'
         /\ Attentive(call.dev) => Attentive(call.dev)'
         /\ \A S \in {{"ready"}, {"hold", "ready"}, {"hold", "ready", "got"}} : AllAtn(S) => AllAtn(S)'
         /\ \A S \in {{"ready", "eoi"}, {"hold", "ready", "eoi"}} : OffIn(S) => OffIn(S)'
         /\ ~HostWaitsForEoi => (OffIn({"ready"}) => OffIn({"ready"})')
         /\ "CLK" \in host => (OffIn({"got", "hold"}) => OffIn({"got", "hold"})')
<1>1. /\ call' = call /\ host' = host
      /\ \A e \in Devices : dev'[e].atn \in BOOLEAN /\ dev[e].atn \in BOOLEAN /\ Fit(dev'[e]) /\ Fit(dev[e])
      /\ "CLK" \in host => Low("CLK")
  BY DEF Evolves, BytesKept, CallKept, Base, DeviceRecord, Low
<1>2. ASSUME NEW e \in Devices
      PROVE  /\ dev'[e].plugged => dev[e].plugged /\ dev'[e].role = dev[e].role
             /\ ~dev'[e].plugged => ~dev'[e].atn /\ dev'[e].role = "none" /\ dev'[e].state = "idle"
             /\ "ATN" \notin host /\ ~dev[e].atn => ~dev'[e].atn
             /\ "ATN" \in host /\ dev[e].atn /\ dev'[e].plugged => dev'[e].atn
  BY EachDevice
<1>3. Off => Off'
  BY <1>1, <1>2 DEF Off
<1>4. ASSUME NEW t
      PROVE  /\ Holds(t) => "CLK" \in host' /\ (t \in Devices /\ dev'[t].plugged /\ dev'[t].atn => dev'[t].state \in {"hold", "got"})
             /\ t \in Devices /\ "ATN" \notin host /\ ~dev[t].atn => "ATN" \notin host' /\ ~dev'[t].atn
  <2>1. ASSUME Holds(t), t \in Devices, dev'[t].plugged, dev'[t].atn
        PROVE  dev'[t].state \in {"hold", "got"}
    <3>1. "CLK" \in host /\ Low("CLK") /\ dev[t].plugged
      BY <1>1, <1>2, <2>1 DEF Holds
    <3>2. CASE dev[t].atn
      <4>1. dev[t].state \in {"hold", "got"}
        BY <2>1, <3>1, <3>2 DEF Holds, Here
      <4>2. dev'[t].atn = dev[t].atn
        BY <1>1, <2>1, <3>2
      <4> QED BY <2>1, <3>1, <4>1, <4>2, Moves
    <3>3. CASE ~dev[t].atn
      <4>1. t = d
        BY <2>1, <3>3 DEF Evolves
      <4>2. Notices(d)
        BY <2>1, <3>3, <4>1 DEF Evolves, Notices, Leaves, Goes, Learns, Vanishes, NoDevice, NewDevice
      <4> QED BY <4>1, <4>2 DEF Notices
    <3> QED BY <3>2, <3>3
  <2> QED BY <1>1, <1>2, <2>1 DEF Holds
<1>5. ASSUME NEW t
      PROVE  Attentive(t) => (t \in Devices /\ dev'[t].plugged =>
               \/ "CLK" \in host' /\ (dev'[t].atn => dev'[t].state \in {"hold", "got"})
               \/ "ATN" \notin host' /\ ~dev'[t].atn)
  BY <1>2, <1>4 DEF Attentive, Here
<1>6. Attentive(call.dev) => Attentive(call.dev)'
  <2>1. Attentive(call.dev) => (call.dev \in Devices /\ dev'[call.dev].plugged =>
               \/ "CLK" \in host' /\ (dev'[call.dev].atn => dev'[call.dev].state \in {"hold", "got"})
               \/ "ATN" \notin host' /\ ~dev'[call.dev].atn)
    BY <1>5
  <2> QED BY <1>1, <2>1 DEF Attentive, Holds, Here
<1>7. ASSUME NEW j \in Jobs
      PROVE  /\ Attentive(Target(j)) => Attentive(Target(j))'
             /\ Holds(Target(j)) => Holds(Target(j))'
  <2> DEFINE t == Target(j)
  <2>1. t' = t
    BY <1>1 DEF Target
  <2>2. Attentive(t) => (t \in Devices /\ dev'[t].plugged =>
               \/ "CLK" \in host' /\ (dev'[t].atn => dev'[t].state \in {"hold", "got"})
               \/ "ATN" \notin host' /\ ~dev'[t].atn)
    BY <1>5
  <2>3. Holds(t) => "CLK" \in host' /\ (t \in Devices /\ dev'[t].plugged /\ dev'[t].atn => dev'[t].state \in {"hold", "got"})
    BY <1>4
  <2> HIDE DEF t
  <2>4. Attentive(t) => Attentive(t)'
    BY <2>1, <2>2 DEF Attentive, Holds, Here
  <2>5. Holds(t) => Holds(t)'
    BY <2>1, <2>3 DEF Holds, Here
  <2> QED BY <2>4, <2>5 DEF t
<1>8. ASSUME NEW S \in {{"ready"}, {"hold", "ready"}, {"hold", "ready", "got"}}, AllAtn(S)
      PROVE  AllAtn(S)'
  <2>1. ASSUME NEW e \in Devices, dev'[e].plugged PROVE dev'[e].atn /\ dev'[e].state \in S
    <3>1. dev[e].atn /\ dev[e].state \in S /\ dev'[e].atn
      BY <1>2, <1>8, <2>1 DEF AllAtn
    <3>2. dev'[e].state \in {"hold", "ready", "got"}
      BY <1>1, <3>1 DEF Fit
    <3>3. dev'[e].atn = dev[e].atn
      BY <1>1, <3>1
    <3> QED BY <1>8, <2>1, <3>1, <3>2, <3>3, Moves
  <2> QED BY <1>1, <1>8, <2>1 DEF AllAtn
<1>9. ASSUME NEW S \in {{"ready"}, {"got", "hold"}, {"ready", "eoi"}, {"hold", "ready", "eoi"}}, OffIn(S),
             S = {"ready"} => ~HostWaitsForEoi, S = {"got", "hold"} => "CLK" \in host
      PROVE  OffIn(S)'
  <2>1. Off'
    BY <1>3, <1>9 DEF OffIn
  <2>2. ASSUME NEW e \in Devices, dev'[e].role = "listener" PROVE dev'[e].state \in S
    <3>1. dev'[e].plugged /\ dev[e].role = "listener" /\ dev[e].state \in S
      BY <1>2, <1>9, <2>2 DEF OffIn
    <3>2. dev'[e].atn = dev[e].atn
      BY <1>1, <2>1, <1>9 DEF Off, OffIn
    <3>3. dev'[e].state \in {"hold", "ready", "got", "eoi"}
      BY <1>1, <2>1, <2>2, <3>1 DEF Fit, Off, StatesOf
    <3> QED BY <1>1, <1>9, <3>1, <3>2, <3>3, Moves
  <2> QED BY <2>1, <2>2 DEF OffIn
<1> QED BY <1>3, <1>6, <1>7, <1>8, <1>9

(* The step that is next in a rest of a call. *)
Next1Is(name) == todo # <<>> /\ \A n : At(n) <=> n = name

(* The next step of each rest ... *)
LEMMA NextIs ==
  ASSUME NEW k \in Seq(Steps), NEW b \in Letters
  PROVE  /\ todo \in {Atn1(b, k), Send0(b, k), Clock0(b, k), Eoi1(b, k), End1(k), Take0(b), Take2(b), Last1, Io0, Io4}
              => Next1Is("sleep")
         /\ todo = Atn0(b, k) => Next1Is("attention")
         /\ todo = Atn2(b, k) => Next1Is("probe")
         /\ todo = Send3(b, k) => Next1Is("ready")
         /\ todo = Clock1(b, k) => Next1Is("clock")
         /\ todo = Eoi0(b, k) => Next1Is("eoi")
         /\ todo \in {Send2(b, k), Clock2(k), Receive2} => Next1Is("until")
         /\ todo \in {Call0(b, k), Unlisten0(k), Closed1} => Next1Is("flush")
         /\ todo \in {Send1(b, k), Call1(b, k), Call2(b, k), End0(k), End2(k), End3(k), Closed0, Then(Free("ATN"), k),
                      Receive1, Io1, Io2}
              => Next1Is("free")
         /\ todo \in {Untalk0, Last0, Take1(b), Io3} => Next1Is("pull")
         /\ todo = Receive0 => Next1Is("receive")
         /\ todo = Receive3 => Next1Is("bits")
         /\ todo = Take3(b) => Next1Is("store")
         /\ todo = Then(<<"out", b>>, k) => Next1Is("out")
<1>0. /\ Sleep \in Steps /\ Sleep[1] = "sleep"
      /\ \A line \in {"ATN", "CLK", "DATA"} : Pull(line) \in Steps /\ Pull(line)[1] = "pull"
                                              /\ Free(line) \in Steps /\ Free(line)[1] = "free"
      /\ \A line \in {"CLK", "DATA"}, level \in {"low", "high"} :
           Until(line, level) \in Steps /\ Until(line, level)[1] = "until"
  BY StepNames
<1>1. ASSUME NEW s \in Steps, NEW r \in Seq(Steps), todo = Then(s, r)
      PROVE  Next1Is(s[1])
  BY <1>1, Doing, Zenon DEF Next1Is
<1>2. \A r \in Seq(Steps) : /\ todo = Then(Sleep, r) => Next1Is("sleep")
                            /\ \A line \in {"ATN", "CLK", "DATA"} :
                                 /\ todo = Then(Pull(line), r) => Next1Is("pull")
                                 /\ todo = Then(Free(line), r) => Next1Is("free")
                            /\ \A line \in {"CLK", "DATA"}, level \in {"low", "high"} :
                                 todo = Then(Until(line, level), r) => Next1Is("until")
  BY <1>0, <1>1
<1>3. ASSUME NEW n \in {"attention", "eoi", "receive", "bits", "flush"}, NEW r \in Seq(Steps), todo = Then(<<n>>, r)
      PROVE  Next1Is(n)
  <2> DEFINE s == <<n>>
  <2>1. s \in Steps /\ s[1] = n /\ todo = Then(s, r)
    BY <1>3, StepNames
  <2> HIDE DEF s
  <2> QED BY <1>1, <2>1
<1>4. ASSUME NEW n \in {"probe", "ready", "clock", "out", "store"}, NEW r \in Seq(Steps), todo = Then(<<n, b>>, r)
      PROVE  Next1Is(n)
  <2> DEFINE s == <<n, b>>
  <2>1. s \in Steps /\ s[1] = n /\ todo = Then(s, r)
    BY <1>4, StepNames
  <2> HIDE DEF s
  <2> QED BY <1>1, <2>1
<1> DEFINE none == <<>>
<1>5. none \in Seq(Steps)
  OBVIOUS
<1> HIDE DEF none
<1>6. /\ Atn2(b, k) \in Seq(Steps) /\ Atn1(b, k) \in Seq(Steps) /\ Send1(b, k) \in Seq(Steps)
      /\ Send2(b, k) \in Seq(Steps) /\ Send3(b, k) \in Seq(Steps) /\ Clock1(b, k) \in Seq(Steps)
      /\ Clock2(k) \in Seq(Steps) /\ Eoi1(b, k) \in Seq(Steps) /\ End1(k) \in Seq(Steps)
      /\ End2(k) \in Seq(Steps) /\ End3(k) \in Seq(Steps)
      /\ Call1(b, k) \in Seq(Steps) /\ Call2(b, k) \in Seq(Steps) /\ Atn0(b, k) \in Seq(Steps)
      /\ Take1(b) \in Seq(Steps) /\ Take2(b) \in Seq(Steps) /\ Take3(b) \in Seq(Steps)
  BY Rests
<1>7. /\ Closed1 \in Seq(Steps) /\ Receive1 \in Seq(Steps) /\ Receive2 \in Seq(Steps) /\ Receive3 \in Seq(Steps)
      /\ Last1 \in Seq(Steps) /\ Io1 \in Seq(Steps) /\ Io2 \in Seq(Steps) /\ Io3 \in Seq(Steps) /\ Io4 \in Seq(Steps)
  BY CallRests
<1>8. \A r \in Seq(Steps) : Atn0(UNLISTEN, End0(r)) \in Seq(Steps) /\ Atn0(UNTALK, End0(r)) \in Seq(Steps)
  BY LetterNames, Rests
<1>9. /\ todo \in {Atn1(b, k), Send0(b, k), Clock0(b, k), Eoi1(b, k), End1(k)} => Next1Is("sleep")
      /\ todo \in {Take0(b), Take2(b)} => Next1Is("sleep")
      /\ todo \in {Last1, Io0, Io4} => Next1Is("sleep")
  <2>1. todo \in {Atn1(b, k), Send0(b, k), Clock0(b, k), Eoi1(b, k), End1(k)} => Next1Is("sleep")
    BY <1>2, <1>6 DEF Atn1, Send0, Clock0, Eoi1, End1
  <2>2. todo \in {Take0(b), Take2(b)} => Next1Is("sleep")
    BY <1>2, <1>6 DEF Take0, Take2
  <2>3. todo \in {Last1, Io0} => Next1Is("sleep")
    BY <1>2, <1>7 DEF Last1, Io0
  <2>4. todo = Io4 => Next1Is("sleep")
    BY <1>2, <1>5, Zenon DEF Io4, none
  <2> QED BY <2>1, <2>2, <2>3, <2>4
<1>10. /\ todo = Atn0(b, k) => Next1Is("attention")
       /\ todo = Atn2(b, k) => Next1Is("probe")
       /\ todo = Send3(b, k) => Next1Is("ready")
       /\ todo = Clock1(b, k) => Next1Is("clock")
       /\ todo = Eoi0(b, k) => Next1Is("eoi")
       /\ todo = Then(<<"out", b>>, k) => Next1Is("out")
  <2>1. todo = Atn0(b, k) => Next1Is("attention")
    BY <1>3, <1>6 DEF Atn0
  <2>2. todo = Eoi0(b, k) => Next1Is("eoi")
    BY <1>3, <1>6 DEF Eoi0
  <2>3. (todo = Atn2(b, k) => Next1Is("probe")) /\ (todo = Send3(b, k) => Next1Is("ready"))
    BY <1>4 DEF Atn2, Send3
  <2>4. todo = Clock1(b, k) => Next1Is("clock")
    BY <1>4, <1>6 DEF Clock1
  <2>5. todo = Then(<<"out", b>>, k) => Next1Is("out")
    BY <1>4
  <2> QED BY <2>1, <2>2, <2>3, <2>4, <2>5
<1>11. todo \in {Send2(b, k), Clock2(k), Receive2} => Next1Is("until")
  BY <1>2, <1>6, <1>7 DEF Send2, Clock2, Receive2
<1>12. todo \in {Call0(b, k), Unlisten0(k), Closed1} => Next1Is("flush")
  <2>1. todo = Call0(b, k) => Next1Is("flush")
    BY <1>3, <1>6 DEF Call0
  <2>2. \A r \in Seq(Steps) : todo = Unlisten0(r) => Next1Is("flush")
    BY <1>3, <1>8 DEF Unlisten0
  <2>3. todo = Closed1 => Next1Is("flush")
    BY <1>5, <2>2, Zenon DEF Closed1, none
  <2> QED BY <2>1, <2>2, <2>3
<1>13. todo \in {Send1(b, k), Call1(b, k), Call2(b, k), End0(k), End2(k), End3(k), Closed0, Then(Free("ATN"), k),
                 Receive1, Io1, Io2} => Next1Is("free")
  <2>1. todo \in {Send1(b, k), Call1(b, k), Call2(b, k)} => Next1Is("free")
    BY <1>2, <1>6 DEF Send1, Call1, Call2
  <2>2. todo \in {End0(k), End2(k), End3(k), Then(Free("ATN"), k)} => Next1Is("free")
    BY <1>2, <1>6 DEF End0, End2, End3
  <2>3. todo \in {Closed0, Receive1, Io1, Io2} => Next1Is("free")
    BY <1>2, <1>7 DEF Closed0, Receive1, Io1, Io2
  <2> QED BY <2>1, <2>2, <2>3
<1>14. todo \in {Untalk0, Last0, Take1(b), Io3} => Next1Is("pull")
  <2>1. todo = Untalk0 => Next1Is("pull")
    <3>1. Atn0(UNTALK, End0(none)) \in Seq(Steps)
      BY <1>5, <1>8
    <3>2. Untalk0 = Then(Pull("CLK"), Atn0(UNTALK, End0(none)))
      BY Zenon DEF Untalk0, none
    <3> QED BY <1>2, <3>1, <3>2
  <2>2. todo \in {Last0, Take1(b), Io3} => Next1Is("pull")
    BY <1>2, <1>6, <1>7 DEF Last0, Take1, Io3
  <2> QED BY <2>1, <2>2
<1>15. todo = Receive0 => Next1Is("receive")
  BY <1>3, <1>7 DEF Receive0
<1>16. todo = Receive3 => Next1Is("bits")
  <2>1. Receive3 = Then(<<"bits">>, none)
    BY Zenon DEF Receive3, none
  <2> QED BY <1>3, <1>5, <2>1
<1>17. todo = Take3(b) => Next1Is("store")
  <2>1. Take3(b) = Then(<<"store", b>>, none)
    BY Zenon DEF Take3, none
  <2> QED BY <1>4, <1>5, <2>1
<1> QED BY <1>9, <1>10, <1>11, <1>12, <1>13, <1>14, <1>15, <1>16, <1>17

(* ... and of those that hand the bus over. *)
LEMMA TurnIs ==
  ASSUME NEW n
  PROVE  /\ todo = Turn0(n) => Next1Is("pull")
         /\ todo \in {Turn1(n), Turn2(n)} => Next1Is("free")
         /\ todo = Turn3(n) => Next1Is("until") /\ HostWaitsForClock
<1>1. /\ Turn4(n) \in Seq(Steps) /\ Turn3(n) \in Seq(Steps) /\ Turn2(n) \in Seq(Steps) /\ Turn1(n) \in Seq(Steps)
  BY CallRests
<1>2. ASSUME NEW s \in Steps, NEW r \in Seq(Steps), todo = Then(s, r)
      PROVE  Next1Is(s[1]) /\ Next1 = s
  BY <1>2, Doing, Zenon DEF Next1Is
<1>3. /\ Pull("DATA") \in Steps /\ Pull("DATA")[1] = "pull"
      /\ Free("ATN") \in Steps /\ Free("ATN")[1] = "free"
      /\ Free("CLK") \in Steps /\ Free("CLK")[1] = "free"
      /\ Until("CLK", "low") \in Steps /\ Until("CLK", "low")[1] = "until"
  BY StepNames
<1>4. todo = Turn0(n) => Next1Is("pull")
  BY <1>1, <1>2, <1>3 DEF Turn0
<1>5. todo \in {Turn1(n), Turn2(n)} => Next1Is("free")
  BY <1>1, <1>2, <1>3 DEF Turn1, Turn2
<1>6. todo = Turn3(n) => Next1Is("until") /\ Next1 = Until("CLK", "low")
  BY <1>1, <1>2, <1>3 DEF Turn3
<1>7. Next1Is("until") => At("until")
  BY DEF Next1Is
<1> QED BY <1>4, <1>5, <1>6, <1>7 DEF HostWaitsForClock

(* What the call says is of the right type. *)
LEMMA Typed ==
  ASSUME Base
  PROVE  /\ call.msg \in Seq(Bytes) /\ Len(call.msg) \in Nat
         /\ queue = None \/ queue \in Letters
         /\ \A i \in 1 .. Len(call.msg) :
              /\ Data(call.msg[i]) \in Letters /\ Data(call.msg[i]) # None
              /\ AfterByte(i) \in Seq(Steps)
         /\ Out0(call.msg, 1) \in Seq(Steps) /\ Opened0(call.msg) \in Seq(Steps)
         /\ \A j \in Jobs : Byte(j) \in Letters /\ Follow(j) \in Seq(Steps)
         /\ \A i \in DOMAIN Text : Data(Text[i]) \in Letters
         /\ Data(Garbage) \in Letters
         /\ Len(Text) \in Nat /\ Len(Text) > 0
<1>1. call.msg \in Seq(Bytes) /\ call.dev \in Called \cup {0}
  <2>1. <<>> \in Seq(Bytes) /\ Messages \subseteq Seq(Bytes)
    BY IecAssumption DEF IecAssumption
  <2> QED BY <2>1 DEF Base, CallRecord
<1>2. Len(call.msg) \in Nat /\ DOMAIN call.msg = 1 .. Len(call.msg)
      /\ \A i \in 1 .. Len(call.msg) : call.msg[i] \in Bytes
  BY <1>1, LenProperties
<1>3. ASSUME NEW i \in 1 .. Len(call.msg)
      PROVE  Data(call.msg[i]) \in Letters /\ Data(call.msg[i]) # None
  <2>1. call.msg[i] \in Bytes
    BY <1>2
  <2>2. Data(call.msg[i]) # None
    BY <2>1, IecAssumption DEF IecAssumption, Data
  <2> QED BY <2>1, <2>2, LetterNames
<1>4. queue = None \/ queue \in Letters
  BY <1>2, <1>3 DEF Base, TypeOK
<1>5. /\ Unlisten0(Close0(4)) \in Seq(Steps) /\ Close0(4) \in Seq(Steps) /\ End0(Close0(4)) \in Seq(Steps)
      /\ UNLISTEN \in Letters /\ UNTALK \in Letters /\ Atn0(UNLISTEN, End0(Close0(4))) \in Seq(Steps)
  <2>1. Close0(4) \in Seq(Steps) /\ UNLISTEN \in Letters /\ UNTALK \in Letters
    BY CallRests, LetterNames
  <2>2. End0(Close0(4)) \in Seq(Steps)
    BY <2>1, Rests
  <2> QED BY <2>1, <2>2, Rests
<1>6. \A i \in 1 .. Len(call.msg) + 1 : Out0(call.msg, i) \in Seq(Steps)
  BY <1>1, OutRests
<1>7. \A i \in 1 .. Len(call.msg) : AfterByte(i) \in Seq(Steps)
  BY <1>2, <1>5, <1>6 DEF AfterByte
<1>8. Out0(call.msg, 1) \in Seq(Steps) /\ Opened0(call.msg) \in Seq(Steps)
  <2>1. 1 \in 1 .. Len(call.msg) + 1 /\ Free("ATN") \in Steps
    BY <1>2, StepNames
  <2> QED BY <1>6, <2>1, ThenType DEF Opened0
<1>9. ASSUME NEW j \in Jobs PROVE Byte(j) \in Letters /\ Follow(j) \in Seq(Steps)
  <2>1. \A x \in Called \cup {0, 4} : LISTEN(x) \in Letters /\ TALK(x) \in Letters
    <3>1. 0 \in Bytes /\ 4 \in Bytes
      BY DEF Bytes
    <3> QED BY <3>1 DEF LISTEN, TALK, Letters
  <2>2. Target(j) \in Called \cup {0, 4}
    BY <1>1 DEF Target
  <2>3. OPENCH(1) \in Letters /\ OPENCH(15) \in Letters /\ CLOSE(1) \in Letters
    BY LetterNames
  <2>4. LISTEN(Target(j)) \in Letters /\ TALK(Target(j)) \in Letters
    BY <2>1, <2>2
  <2>5. Byte(j) \in Letters
    BY <1>5, <2>3, <2>4 DEF Byte, Jobs
  <2>6. /\ Atn0(OPENCH(1), Opened0(call.msg)) \in Seq(Steps)
        /\ Atn0(CLOSE(1), Closed0) \in Seq(Steps) /\ Closed0 \in Seq(Steps)
        /\ Atn0(OPENCH(15), Turn0(call.count)) \in Seq(Steps) /\ Turn0(call.count) \in Seq(Steps)
    BY <1>8, <2>3, Rests, CallRests
  <2> DEFINE none == <<>>
  <2>7. End0(none) \in Seq(Steps)
    <3>1. none \in Seq(Steps)
      OBVIOUS
    <3> HIDE DEF none
    <3> QED BY <1>5, <3>1, Rests
  <2>8. Follow(j) \in Seq(Steps)
    BY <1>5, <1>8, <2>6, <2>7 DEF Follow, Jobs
  <2> QED BY <2>5, <2>8
<1>10. /\ \A i \in DOMAIN Text : Data(Text[i]) \in Letters
       /\ Data(Garbage) \in Letters /\ Len(Text) \in Nat /\ Len(Text) > 0
  <2>1. Text \in Seq(Bytes) /\ Text # <<>>
    BY IecAssumption DEF IecAssumption
  <2>2. \A i \in DOMAIN Text : Text[i] \in Bytes
    BY <2>1
  <2>3. Len(Text) \in Nat /\ Len(Text) > 0
    BY <2>1, LenProperties, EmptySeq
  <2> QED BY <2>2, <2>3, LetterNames
<1> QED BY <1>1, <1>2, <1>3, <1>4, <1>7, <1>8, <1>9, <1>10

(* A step that is neither the one that devices mark the last byte in nor   *)
(* the one that a talker sends a byte in.                                  *)
Calm == todo # <<>> /\ ~At("eoi") /\ ~At("bits")

(* The controller is calm when no device hears or sends at its step. *)
LEMMA CalmIs ==
  /\ \A name : Next1Is(name) /\ name # "eoi" /\ name # "bits" => Calm
  /\ Calm => ~HostWaitsForEoi
BY DEF Next1Is, Calm, HostWaitsForEoi

(* It is calm while it sends a byte with ATN pulled ... *)
LEMMA CalmJobs ==
  ASSUME Base, NEW j \in Jobs, Attending(j) \/ Attended(j) \/ Calling(j)
  PROVE  Calm
<1> DEFINE b == Byte(j)
           k == Follow(j)
<1>1. b \in Letters /\ k \in Seq(Steps)
  BY Typed
<1>2. todo \in {Atn0(b, k), Atn1(b, k), Atn2(b, k), Send0(b, k), Send1(b, k), Send2(b, k), Send3(b, k),
                Clock0(b, k), Clock1(b, k), Clock2(k), Then(Free("ATN"), k), Call0(b, k), Call1(b, k), Call2(b, k)}
  BY DEF Attending, Attended, Calling
<1> HIDE DEF b, k
<1>3. /\ todo \in {Atn1(b, k), Send0(b, k), Clock0(b, k)} => Next1Is("sleep")
      /\ todo = Atn0(b, k) => Next1Is("attention")
      /\ todo = Atn2(b, k) => Next1Is("probe")
      /\ todo = Send3(b, k) => Next1Is("ready")
      /\ todo = Clock1(b, k) => Next1Is("clock")
      /\ todo \in {Send2(b, k), Clock2(k)} => Next1Is("until")
      /\ todo = Call0(b, k) => Next1Is("flush")
      /\ todo \in {Send1(b, k), Call1(b, k), Call2(b, k), Then(Free("ATN"), k)} => Next1Is("free")
  BY <1>1, NextIs
<1> QED BY <1>2, <1>3, CalmIs

(* ... at the ends of a call ... *)
LEMMA CalmEnds ==
  ASSUME Base, \/ \E j \in {"unlisten1", "unlisten2", "untalk"} : Leaving(j)
               \/ Initialising \/ Closing \/ Opening \/ Untalking \/ Missing
  PROVE  Calm
<1> DEFINE b == Data(Garbage)
           none == <<>>
<1>1. /\ b \in Letters /\ none \in Seq(Steps) /\ Close0(4) \in Seq(Steps) /\ Out0(call.msg, 1) \in Seq(Steps)
  BY Typed, CallRests
<1>2. \/ \E k \in {Close0(4), none} : todo \in {End0(k), End1(k), End2(k), End3(k)}
      \/ todo \in {Io0, Io1, Io2, Io3, Io4, Closed0, Closed1, Untalk0, Take3(b)}
      \/ todo = Then(Free("ATN"), Out0(call.msg, 1))
  BY DEF Leaving, Initialising, Closing, Opening, Untalking, Missing, Opened0
<1> HIDE DEF b, none
<1>3. ASSUME NEW k \in Seq(Steps)
      PROVE  /\ todo = End1(k) => Next1Is("sleep")
             /\ todo \in {End0(k), End2(k), End3(k), Then(Free("ATN"), k)} => Next1Is("free")
  BY <1>1, NextIs
<1>4. /\ todo \in {Io0, Io4} => Next1Is("sleep")
      /\ todo \in {Io1, Io2, Closed0} => Next1Is("free")
      /\ todo \in {Untalk0, Io3} => Next1Is("pull")
      /\ todo = Closed1 => Next1Is("flush")
      /\ todo = Take3(b) => Next1Is("store")
  BY <1>1, NextIs
<1>5. \A k \in Seq(Steps) : todo \in {End0(k), End1(k), End2(k), End3(k), Then(Free("ATN"), k)} => Calm
  BY <1>3, CalmIs
<1> QED BY <1>1, <1>2, <1>4, <1>5, CalmIs

(* ... and around most bytes of data. *)
LEMMA CalmBytes ==
  ASSUME Base
  PROVE  /\ \A i \in 1 .. Len(call.msg) + 1 : Printing(i) => Calm
         /\ \A i \in 1 .. Len(call.msg) :
              /\ Told(i) => Calm
              /\ Telling(i) => todo # <<>> /\ ~At("bits") /\ (At("eoi") => todo = Eoi0(Data(call.msg[i]), AfterByte(i)))
         /\ Turning => Calm
         /\ Awaiting => todo # <<>> /\ ~At("eoi") /\ (At("bits") => todo = Receive3)
         /\ \A i \in DOMAIN Text : Taking(i) => Calm
<1>1. ASSUME NEW i \in 1 .. Len(call.msg) + 1, Printing(i) PROVE Calm
  <2>1. call.msg \in Seq(Bytes) /\ Len(call.msg) \in Nat /\ todo = Out0(call.msg, i)
    BY <1>1, Typed DEF Printing
  <2>2. CASE i = Len(call.msg) + 1
    <3>1. todo = Unlisten0(Close0(4)) /\ Close0(4) \in Seq(Steps) /\ Data(Garbage) \in Letters
      BY <2>1, <2>2, OutRests, CallRests, Typed
    <3>2. Next1Is("flush")
      BY <3>1, NextIs
    <3> QED BY <3>2, CalmIs
  <2>3. CASE i # Len(call.msg) + 1
    <3>1. i \in 1 .. Len(call.msg) /\ i + 1 \in 1 .. Len(call.msg) + 1
      BY <2>1, <2>3
    <3> DEFINE b == Data(call.msg[i])
               k == Out0(call.msg, i + 1)
    <3>4. k \in Seq(Steps)
      BY <2>1, <3>1, OutRests
    <3>5. i <= Len(call.msg)
      BY <2>1, <3>1
    <3>6. Out0(call.msg, i) = Then(<<"out", b>>, k)
      BY <2>1, <3>5, OutRests
    <3>2. b \in Letters /\ k \in Seq(Steps) /\ todo = Then(<<"out", b>>, k)
      BY <2>1, <3>1, <3>4, <3>6, Typed, Zenon
    <3> HIDE DEF b, k
    <3>3. Next1Is("out")
      BY <3>2, NextIs
    <3> QED BY <3>3, CalmIs
  <2> QED BY <2>2, <2>3
<1>2. ASSUME NEW i \in 1 .. Len(call.msg)
      PROVE  /\ Told(i) => Calm
             /\ Telling(i) => todo # <<>> /\ ~At("bits") /\ (At("eoi") => todo = Eoi0(Data(call.msg[i]), AfterByte(i)))
  <2> DEFINE b == Data(call.msg[i])
             k == AfterByte(i)
  <2>1. b \in Letters /\ k \in Seq(Steps)
    BY Typed
  <2>2. /\ Told(i) => todo = Clock2(k)
        /\ Telling(i) => todo \in {Send0(b, k), Send1(b, k), Send2(b, k), Send3(b, k), Clock0(b, k), Clock1(b, k),
                                   Eoi0(b, k), Eoi1(b, k)}
    BY DEF Told, Telling
  <2> HIDE DEF b, k
  <2>3. /\ todo \in {Send0(b, k), Clock0(b, k), Eoi1(b, k)} => Next1Is("sleep")
        /\ todo = Send3(b, k) => Next1Is("ready")
        /\ todo = Clock1(b, k) => Next1Is("clock")
        /\ todo = Eoi0(b, k) => Next1Is("eoi")
        /\ todo \in {Send2(b, k), Clock2(k)} => Next1Is("until")
        /\ todo = Send1(b, k) => Next1Is("free")
    BY <2>1, NextIs
  <2>4. todo = Eoi0(b, k) => todo # <<>> /\ ~At("bits")
    BY <2>3 DEF Next1Is
  <2>5. todo # Eoi0(b, k) => (Told(i) \/ Telling(i) => Calm)
    BY <2>2, <2>3, CalmIs
  <2>6. Told(i) => Calm
    BY <2>2, <2>3, CalmIs
  <2> QED BY <2>4, <2>5, <2>6 DEF Calm, b, k
<1>3. Turning => Calm
  <2>1. Turning => todo \in {Turn0(call.count), Turn1(call.count), Turn2(call.count), Turn3(call.count)}
    BY DEF Turning
  <2>2. ASSUME NEW n PROVE todo \in {Turn0(n), Turn1(n), Turn2(n), Turn3(n)} => Calm
    BY TurnIs, CalmIs
  <2> QED BY <2>1, <2>2
<1> DEFINE g == Data(Garbage)
           none == <<>>
<1>4. g \in Letters /\ none \in Seq(Steps) /\ \A i \in DOMAIN Text : Data(Text[i]) \in Letters
  BY Typed
<1> HIDE DEF g, none
<1>5. Awaiting => todo # <<>> /\ ~At("eoi") /\ (At("bits") => todo = Receive3)
  <2>1. Awaiting => todo \in {Receive0, Receive1, Receive2, Receive3, Last0, Last1}
    BY DEF Awaiting
  <2>2. /\ todo = Last1 => Next1Is("sleep")
        /\ todo = Receive2 => Next1Is("until")
        /\ todo = Receive1 => Next1Is("free")
        /\ todo = Last0 => Next1Is("pull")
        /\ todo = Receive0 => Next1Is("receive")
        /\ todo = Receive3 => Next1Is("bits")
    BY <1>4, NextIs
  <2> QED BY <2>1, <2>2 DEF Next1Is
<1>6. ASSUME NEW i \in DOMAIN Text, Taking(i) PROVE Calm
  <2> DEFINE b == Data(Text[i])
  <2>1. b \in Letters /\ todo \in {Take0(b), Take1(b), Take2(b), Take3(b)}
    BY <1>4, <1>6 DEF Taking
  <2> HIDE DEF b
  <2>2. /\ todo \in {Take0(b), Take2(b)} => Next1Is("sleep")
        /\ todo = Take1(b) => Next1Is("pull")
        /\ todo = Take3(b) => Next1Is("store")
    BY <1>4, <2>1, NextIs
  <2> QED BY <2>1, <2>2, CalmIs
<1> QED BY <1>1, <1>2, <1>3, <1>5, <1>6

-----------------------------------------------------------------------------
(* Every place that a call can be at is kept by the steps of the devices. *)

(* While the call is the same its words are. *)
LEMMA SameWords ==
  ASSUME CallKept
  PROVE  /\ \A j \in Jobs : Target(j)' = Target(j) /\ Byte(j)' = Byte(j) /\ Follow(j)' = Follow(j)
         /\ \A i : Data(call.msg[i])' = Data(call.msg[i]) /\ AfterByte(i)' = AfterByte(i)
         /\ Here(call.dev)' <=> (call.dev \in Devices /\ dev'[call.dev].plugged)
<1>1. call' = call
  BY DEF CallKept
<1> QED BY <1>1 DEF Target, Byte, Follow, AfterByte, Final, Here

(* When the talker has the bus nobody else pulls a line. *)
LEMMA NobodyElse ==
  ASSUME Base, Talking, Alone, Here(call.dev), "DATA" \notin host,
         dev[call.dev].state \in {"offer", "due", "acked", "sent", "done"}
  PROVE  ~Low("DATA")
<1>1. ASSUME NEW e \in Devices PROVE "DATA" \notin dev[e].pull
  <2>1. Fit(dev[e])
    BY DEF Base
  <2>2. CASE e = call.dev
    BY <2>1, <2>2 DEF Fit, PullOf
  <2>3. CASE e # call.dev
    <3>1. dev[e].role = "none" /\ ~dev[e].atn
      BY <2>3 DEF Talking, RolesAre, Alone
    <3> QED BY <2>1, <3>1 DEF Fit, PullOf, StatesOf
  <2> QED BY <2>2, <2>3
<1> QED BY <1>1 DEF Low

(* The talker keeps the bus, and goes on as far as the lines allow. *)
LEMMA Speaker ==
  ASSUME Base, NEW d \in Devices, Evolves(d), Talking, "ATN" \notin host, Alone
  PROVE  /\ Alone'
         /\ "DATA" \in host =>
              /\ \A S \in {{"offer"}, {"acked"}, {"due", "acked"}, {"sent", "clk", "offer", "done"}} :
                   Says(S) => Says(S)'
              /\ \A n \in Nat : n < Len(Text) /\ HasSent(n) =>
                   (Says({"clk", "offer", "sent"}) => Says({"clk", "offer", "sent"})')
         /\ "DATA" \notin host =>
              \A S \in {{"offer", "due"}, {"due"}, {"acked"}, {"sent"}} : Says(S) => Says(S)'
<1> DEFINE t == call.dev
<1>1. /\ call' = call /\ host' = host
      /\ \A e \in Devices : dev'[e].atn \in BOOLEAN /\ dev[e].atn \in BOOLEAN
                            /\ dev'[e].plugged \in BOOLEAN /\ dev[e].plugged \in BOOLEAN
      /\ "DATA" \in host => Low("DATA")
  BY DEF Evolves, BytesKept, CallKept, Base, DeviceRecord, Low
<1>2. ASSUME NEW e \in Devices
      PROVE  /\ dev'[e].plugged => dev[e].plugged /\ dev'[e].sent = dev[e].sent
             /\ ~dev'[e].plugged => ~dev'[e].atn
             /\ ~dev[e].atn => ~dev'[e].atn
  BY EachDevice
<1>3. Here(t)' => t \in Devices /\ dev'[t].plugged /\ Here(t)
  BY <1>1, <1>2 DEF Here
<1>4. Alone'
  <2> SUFFICES ASSUME t \in Devices, dev'[t].plugged, Here(t),
                      dev'[t].state \in {"offer", "due", "acked", "sent", "done"}
               PROVE  \A e \in Devices : ~dev'[e].atn
    BY <1>1, <1>3 DEF Alone
  <2>1. CASE dev[t].state \in {"offer", "due", "acked", "sent", "done"}
    BY <1>2, <2>1 DEF Alone
  <2>2. CASE dev[t].state \notin {"offer", "due", "acked", "sent", "done"}
    <3>1. dev'[t].atn = dev[t].atn
      <4>1. CASE t # d
        BY <4>1 DEF Evolves
      <4>2. CASE t = d
        <5>1. ~Notices(d) /\ ~Vanishes(d)
          BY <4>2 DEF Notices, Vanishes, NoDevice, NewDevice
        <5>2. ~Leaves(d)
          BY <4>2 DEF Leaves
        <5> QED BY <4>2, <5>1, <5>2 DEF Evolves, Goes, Learns
      <4> QED BY <4>1, <4>2
    <3>2. \A x \in Devices : ~Owes(x)
      BY <2>2, <3>1, Moves
    <3>3. ~Low("ATN")
      BY LowAtn
    <3>4. ASSUME NEW e \in Devices PROVE ~dev[e].atn
      <4>1. CASE dev[e].plugged
        BY <1>1, <3>2, <3>3, <4>1 DEF Owes
      <4>2. CASE ~dev[e].plugged
        BY <4>2, LowAtn
      <4> QED BY <4>1, <4>2
    <3> QED BY <1>2, <3>4
  <2> QED BY <2>1, <2>2
<1>5. ASSUME NEW S, Says(S), t \in Devices, dev'[t].plugged
      PROVE  /\ ~dev'[t].atn /\ dev'[t].atn = dev[t].atn /\ dev[t].state \in S /\ Here(t)
             /\ dev'[t].sent = dev[t].sent
  BY <1>1, <1>2, <1>5 DEF Says, Here
<1>6. ASSUME NEW S,
             t \in Devices /\ dev'[t].plugged => ~dev'[t].atn /\ dev'[t].state \in S
      PROVE  Says(S)'
  BY <1>1, <1>3, <1>6 DEF Says
<1>7. ASSUME "DATA" \in host,
             NEW S \in {{"offer"}, {"acked"}, {"due", "acked"}, {"sent", "clk", "offer", "done"}}, Says(S)
      PROVE  Says(S)'
  <2>1. ASSUME t \in Devices, dev'[t].plugged PROVE ~dev'[t].atn /\ dev'[t].state \in S
    <3>1. ~dev'[t].atn /\ dev'[t].atn = dev[t].atn /\ dev[t].state \in S
      BY <1>5, <1>7, <2>1
    <3> QED BY <1>1, <1>7, <2>1, <3>1, Moves
  <2> QED BY <1>6, <2>1
<1>8. ASSUME "DATA" \in host, NEW n \in Nat, n < Len(Text), HasSent(n), Says({"clk", "offer", "sent"})
      PROVE  Says({"clk", "offer", "sent"})'
  <2>1. ASSUME t \in Devices, dev'[t].plugged PROVE ~dev'[t].atn /\ dev'[t].state \in {"clk", "offer", "sent"}
    <3>1. ~dev'[t].atn /\ dev'[t].atn = dev[t].atn /\ dev[t].state \in {"clk", "offer", "sent"} /\ Here(t)
      BY <1>5, <1>8, <2>1
    <3>2. dev[t].sent # Len(Text)
      BY <1>8, <3>1, Typed DEF HasSent
    <3> QED BY <1>1, <1>8, <2>1, <3>1, <3>2, Moves
  <2> QED BY <1>6, <2>1
<1>9. ASSUME "DATA" \notin host, NEW S \in {{"offer", "due"}, {"due"}, {"acked"}, {"sent"}}, Says(S)
      PROVE  Says(S)'
  <2>1. ASSUME t \in Devices, dev'[t].plugged PROVE ~dev'[t].atn /\ dev'[t].state \in S
    <3>1. ~dev'[t].atn /\ dev'[t].atn = dev[t].atn /\ dev[t].state \in S /\ Here(t)
      BY <1>5, <1>9, <2>1
    <3>2. ~Low("DATA")
      BY <1>9, <3>1, NobodyElse
    <3> QED BY <1>9, <2>1, <3>1, <3>2, Moves
  <2> QED BY <1>6, <2>1
<1> QED BY <1>4, <1>7, <1>8, <1>9

(* Sending a byte with ATN pulled goes on whatever a device does ... *)
LEMMA JobStays ==
  ASSUME Base, NEW d \in Devices, Evolves(d), NEW j \in Jobs
  PROVE  /\ Attending(j) => Attending(j)'
         /\ Attended(j) => Attended(j)'
         /\ Calling(j) => Calling(j)'
         /\ j \in {"unlisten1", "unlisten2", "untalk"} => (Leaving(j) => Leaving(j)')
<1> DEFINE b == Byte(j)
           k == Follow(j)
<1>1. todo' = todo /\ host' = host /\ CallKept
  BY DEF Evolves, BytesKept
<1>2. Target(j)' = Target(j) /\ b' = b /\ k' = k
  BY <1>1, SameWords
<1>3. /\ Attending(j) \/ Attended(j) \/ Calling(j) => ~HostWaitsForEoi
      /\ j \in {"unlisten1", "unlisten2", "untalk"} => (Leaving(j) => ~HostWaitsForEoi)
  BY CalmJobs, CalmEnds, CalmIs
<1>4. ~HostWaitsForEoi => (Before(j) => Before(j)') /\ (After(j) => After(j)')
  BY Steady
<1>5. /\ Off => Off'
      /\ Attentive(Target(j)) => Attentive(Target(j))'
      /\ Holds(Target(j)) => Holds(Target(j))'
      /\ \A S \in {{"ready"}, {"hold", "ready"}, {"hold", "ready", "got"}} : AllAtn(S) => AllAtn(S)'
  BY Climates
<1>6. ~Here(Target(j)) => ~Here(Target(j))'
  <2>1. \A e \in Devices : dev'[e].plugged => dev[e].plugged
    BY EachDevice
  <2> QED BY <1>2, <2>1 DEF Here
<1>7. ASSUME Attending(j) PROVE Attending(j)'
  <2>1. Before(j)'
    BY <1>3, <1>4, <1>7 DEF Attending
  <2>2. CASE todo = Atn0(b, k) /\ Attentive(Target(j))
    BY <1>1, <1>2, <1>5, <2>1, <2>2 DEF Attending
  <2>3. CASE todo = Atn1(b, k) /\ "ATN" \in host /\ Holds(Target(j))
    BY <1>1, <1>2, <1>5, <2>1, <2>3 DEF Attending
  <2>4. CASE todo = Atn2(b, k) /\ AllAtn({"hold", "ready"}) /\ Holds(Target(j))
    <3>1. AllAtn({"hold", "ready"})' /\ Holds(Target(j))'
      BY <1>5, <2>4
    <3> QED BY <1>1, <1>2, <2>1, <2>4, <3>1 DEF Attending
  <2>5. CASE todo \in {Send0(b, k), Send1(b, k), Send2(b, k)} /\ AllAtn({"hold", "ready"})
    <3>1. AllAtn({"hold", "ready"})'
      BY <1>5, <2>5
    <3> QED BY <1>1, <1>2, <2>1, <2>5, <3>1 DEF Attending
  <2>6. CASE todo \in {Send3(b, k), Clock0(b, k), Clock1(b, k)} /\ AllAtn({"ready"})
    <3>1. AllAtn({"ready"})'
      BY <1>5, <2>6
    <3> QED BY <1>1, <1>2, <2>1, <2>6, <3>1 DEF Attending
  <2> QED BY <1>7, <2>2, <2>3, <2>4, <2>5, <2>6 DEF Attending
<1>8. ASSUME Attended(j) PROVE Attended(j)'
  <2>1. After(j)' /\ "DATA" \notin host'
    BY <1>1, <1>3, <1>4, <1>8 DEF Attended
  <2>2. CASE todo = Clock2(k) /\ AllAtn({"hold", "ready", "got"}) /\ Holds(Target(j))
    <3>1. AllAtn({"hold", "ready", "got"})' /\ Holds(Target(j))'
      BY <1>5, <2>2
    <3> QED BY <1>1, <1>2, <2>1, <2>2, <3>1 DEF Attended
  <2>3. CASE todo = Then(Free("ATN"), k) /\ ~Here(Target(j))
    BY <1>1, <1>2, <1>6, <2>1, <2>3 DEF Attended
  <2> QED BY <1>8, <2>2, <2>3 DEF Attended
<1>9. ASSUME Calling(j) PROVE Calling(j)'
  BY <1>1, <1>2, <1>3, <1>4, <1>5, <1>9 DEF Calling
<1>10. ASSUME j \in {"unlisten1", "unlisten2", "untalk"}, Leaving(j) PROVE Leaving(j)'
  BY <1>1, <1>3, <1>4, <1>5, <1>10 DEF Leaving
<1> QED BY <1>7, <1>8, <1>9, <1>10

(* ... so do the ends of a call ... *)
LEMMA EndStays ==
  ASSUME Base, NEW d \in Devices, Evolves(d)
  PROVE  /\ Finished => Finished'
         /\ Initialising => Initialising'
         /\ Closing => Closing'
         /\ Opening => Opening'
         /\ Untalking => Untalking'
         /\ Missing => Missing'
<1>1. todo' = todo /\ host' = host /\ CallKept /\ call' = call /\ rx_eoi' = rx_eoi /\ buffer' = buffer
  BY DEF Evolves, BytesKept, CallKept, FlagsKept, AnswerKept
<1>2. /\ Initialising \/ Closing \/ Opening \/ Untalking \/ Missing => ~HostWaitsForEoi
      /\ Finished => ~HostWaitsForEoi
  BY CalmEnds, CalmIs DEF Finished, HostWaitsForEoi, At
<1>3. ~HostWaitsForEoi => /\ Quiet => Quiet'
                          /\ Talking => Talking'
                          /\ \A j \in Jobs : (Before(j) => Before(j)') /\ (After(j) => After(j)')
  BY Steady
<1>4. /\ Served => Served'
      /\ RolesAre(0, "none") => RolesAre(0, "none")'
  BY Steady
<1>5. /\ Off => Off'
      /\ Attentive(call.dev) => Attentive(call.dev)'
      /\ \A j \in Jobs : Attentive(Target(j)) => Attentive(Target(j))'
  BY Climates
<1>6. Finished => Finished'
  BY <1>1, <1>2, <1>3, <1>4, <1>5 DEF Finished
<1>7. Initialising => Initialising'
  BY <1>1, <1>2, <1>3, <1>4, <1>5 DEF Initialising
<1>8. Closing => Closing'
  <2>1. "unlisten2" \in Jobs
    BY DEF Jobs
  <2>2. Closing => Before("unlisten2")' /\ Attentive(Target("unlisten2"))'
    BY <1>2, <1>3, <1>5, <2>1 DEF Closing
  <2> QED BY <1>1, <2>2 DEF Closing
<1>9. Opening => Opening'
  <2>1. "open1" \in Jobs
    BY DEF Jobs
  <2>2. Opening => After("open1")'
    BY <1>2, <1>3, <2>1 DEF Opening
  <2> QED BY <1>1, <1>5, <2>2 DEF Opening
<1>10. Untalking => Untalking'
  <2>1. "untalk" \in Jobs
    BY DEF Jobs
  <2>2. Untalking => Before("untalk")'
    BY <1>2, <1>3, <2>1 DEF Untalking
  <2> QED BY <1>1, <1>5, <2>2 DEF Untalking
<1>11. Missing => Missing'
  <2> SUFFICES ASSUME Missing PROVE Missing'
    OBVIOUS
  <2>1. Talking' /\ ~Here(call.dev)
    BY <1>2, <1>3 DEF Missing
  <2>2. \A e \in Devices : dev'[e].plugged => dev[e].plugged
    BY EachDevice
  <2>3. ~Here(call.dev)'
    BY <1>1, <2>1, <2>2 DEF Here
  <2>4. OnBus'
    BY <1>1, <2>3 DEF Missing, OnBus, Alone
  <2> QED BY <1>1, <2>1, <2>3, <2>4 DEF Missing
<1> QED BY <1>6, <1>7, <1>8, <1>9, <1>10, <1>11

(* ... the bytes of a message ... *)
LEMMA ByteStays ==
  ASSUME Base, NEW d \in Devices, Evolves(d)
  PROVE  /\ \A i \in 1 .. Len(call.msg) + 1 : Printing(i) => Printing(i)'
         /\ \A i \in 1 .. Len(call.msg) : (Telling(i) => Telling(i)') /\ (Told(i) => Told(i)')
<1>1. /\ todo' = todo /\ host' = host /\ CallKept /\ call' = call
      /\ queue' = queue /\ eoi_pending' = eoi_pending
  BY DEF Evolves, BytesKept, CallKept, FlagsKept
<1>2. /\ \A n : Heard(n) => Heard(n)'
      /\ HeardAll => HeardAll'
      /\ Listening => Listening'
      /\ ~HostWaitsForEoi => (Quiet => Quiet')
  BY Steady
<1>3. /\ Attentive(call.dev) => Attentive(call.dev)'
      /\ \A S \in {{"ready", "eoi"}, {"hold", "ready", "eoi"}} : OffIn(S) => OffIn(S)'
      /\ ~HostWaitsForEoi => (OffIn({"ready"}) => OffIn({"ready"})')
      /\ "CLK" \in host => (OffIn({"got", "hold"}) => OffIn({"got", "hold"})')
  BY Climates
<1>4. ASSUME NEW e \in Devices
      PROVE  /\ dev'[e].plugged => /\ dev'[e].role = dev[e].role
                                   /\ ~HostWaitsForEoi => dev'[e].last = dev[e].last
             /\ ~dev'[e].plugged => dev'[e].role = "none" /\ ~dev'[e].last /\ dev'[e].state = "idle"
             /\ dev'[e].last \in BOOLEAN /\ dev[e].last \in BOOLEAN
             /\ "ATN" \notin host /\ ~dev[e].atn => ~dev'[e].atn
  <2>1. dev'[e].last \in BOOLEAN /\ dev[e].last \in BOOLEAN
    BY DEF Evolves, Base, DeviceRecord
  <2> QED BY <2>1, EachDevice
<1>5. ASSUME NEW i \in 1 .. Len(call.msg) + 1, Printing(i) PROVE Printing(i)'
  <2>1. ~HostWaitsForEoi
    BY <1>5, CalmBytes, CalmIs
  <2>2. \A e \in Devices : ~dev'[e].last
    BY <1>4, <1>5, <2>1 DEF Printing
  <2>3. Listening' /\ Attentive(call.dev)' /\ \A n : Heard(n) => Heard(n)'
    BY <1>2, <1>3, <1>5 DEF Printing
  <2>4. queue = None /\ Heard(i - 1) => Heard(i - 1)'
    BY <1>2
  <2>5. Heard(i - 2) => Heard(i - 2)'
    BY <1>2
  <2> QED BY <1>1, <1>5, <2>2, <2>3, <2>4, <2>5 DEF Printing
<1>6. ASSUME NEW i \in 1 .. Len(call.msg), Told(i) PROVE Told(i)'
  <2>1. ~HostWaitsForEoi
    BY <1>6, CalmBytes, CalmIs
  <2>2. AfterByte(i)' = AfterByte(i)
    BY <1>1, SameWords
  <2>3. OffIn({"got", "hold"})' /\ Listening' /\ Quiet'
    BY <1>2, <1>3, <1>6, <2>1 DEF Told
  <2>4. (Heard(i) => Heard(i)') /\ (HeardAll => HeardAll')
    BY <1>2
  <2>5. Final(i)' <=> Final(i)
    BY <1>1 DEF Final
  <2> QED BY <1>1, <1>6, <2>2, <2>3, <2>4, <2>5 DEF Told
<1>7. ASSUME NEW i \in 1 .. Len(call.msg), Telling(i) PROVE Telling(i)'
  <2> DEFINE b == Data(call.msg[i])
             k == AfterByte(i)
  <2>1. b' = b /\ k' = k /\ (Final(i)' <=> Final(i))
    BY <1>1, SameWords DEF Final
  <2>2. Listening' /\ Heard(i - 1)' /\ host' = host
    <3>1. Heard(i - 1) => Heard(i - 1)'
      BY <1>2
    <3> QED BY <1>1, <1>2, <1>7, <3>1 DEF Telling
  <2>3. CASE todo = Eoi0(b, k)
    <3>0. b \in Letters /\ k \in Seq(Steps)
      BY Typed
    <3>1. Next1Is("eoi")
      <4> HIDE DEF b, k
      <4> QED BY <2>3, <3>0, NextIs
    <3>2. ~(todo \in {Send0(b, k), Send1(b, k), Send2(b, k), Send3(b, k), Clock0(b, k), Clock1(b, k), Eoi1(b, k)})
      <4> HIDE DEF b, k
      <4>1. /\ todo \in {Send0(b, k), Clock0(b, k), Eoi1(b, k)} => Next1Is("sleep")
            /\ todo = Send3(b, k) => Next1Is("ready")
            /\ todo = Clock1(b, k) => Next1Is("clock")
            /\ todo = Send2(b, k) => Next1Is("until")
            /\ todo = Send1(b, k) => Next1Is("free")
        BY <3>0, NextIs
      <4> QED BY <3>1, <4>1 DEF Next1Is
    <3>3. OffIn({"ready", "eoi"}) /\ eoi_pending /\ \A e \in Devices : dev[e].last = (dev[e].state = "eoi")
      BY <1>7, <3>2 DEF Telling
    <3>4. OffIn({"ready", "eoi"})'
      BY <1>3, <3>3
    <3>5. ASSUME NEW e \in Devices PROVE dev'[e].last = (dev'[e].state = "eoi")
      <4>1. CASE ~dev'[e].plugged
        BY <1>4, <4>1
      <4>2. CASE dev'[e].plugged
        <5>1. dev'[e].atn = dev[e].atn
          <6>1. ~dev[e].atn /\ ~dev'[e].atn /\ dev'[e].atn \in BOOLEAN /\ dev[e].atn \in BOOLEAN
            BY <1>4, <1>7, <3>3 DEF OffIn, Off, Evolves, Base, DeviceRecord, Telling
          <6> QED BY <6>1
        <5>2. HostWaitsForEoi
          BY <3>1 DEF Next1Is, HostWaitsForEoi
        <5>3. \/ dev'[e].state = dev[e].state /\ dev'[e].last = dev[e].last
              \/ dev'[e].state # dev[e].state /\ dev'[e].state # "eoi" /\ dev[e].state # "eoi" /\ dev'[e].last = dev[e].last
              \/ dev[e].state = "ready" /\ dev'[e].state = "eoi" /\ dev'[e].last
          BY <4>2, <5>1, <5>2, Moves
        <5> QED BY <1>4, <3>3, <5>3
      <4> QED BY <4>1, <4>2
    <3> QED BY <1>1, <1>7, <2>1, <2>2, <2>3, <3>3, <3>4, <3>5 DEF Telling
  <2>4. CASE todo # Eoi0(b, k)
    <3>1. ~HostWaitsForEoi
      BY <1>7, <2>4, CalmBytes DEF HostWaitsForEoi
    <3>2. ASSUME NEW mark \in BOOLEAN, Marks(mark) PROVE Marks(mark)'
      BY <1>4, <3>1, <3>2 DEF Marks
    <3>3. Marks(Final(i) /\ ~eoi_pending)'
      <4> DEFINE mark == Final(i) /\ ~eoi_pending
      <4>1. mark \in BOOLEAN /\ Marks(mark)
        BY <1>7, <2>4 DEF Telling
      <4>2. \A e \in Devices : dev'[e].last = (mark /\ dev'[e].role = "listener")
        BY <1>4, <3>1, <4>1 DEF Marks
      <4>3. mark' <=> mark
        BY <1>1, <2>1
      <4>4. Marks(mark)'
        BY <4>2, <4>3 DEF Marks
      <4> QED BY <4>4
    <3>4. /\ OffIn({"hold", "ready", "eoi"}) => OffIn({"hold", "ready", "eoi"})'
          /\ OffIn({"ready", "eoi"}) => OffIn({"ready", "eoi"})'
          /\ OffIn({"ready"}) => OffIn({"ready"})'
      BY <1>3, <3>1
    <3>5. Final(i)' = Final(i)
      BY <1>1 DEF Final
    <3>6. Marks(Final(i) /\ ~eoi_pending) /\ (eoi_pending => Final(i)) /\ "ATN" \notin host /\ queue = None
      BY <1>7, <2>4 DEF Telling
    <3>7. CASE todo = Send0(b, k) /\ eoi_pending = Final(i)
      BY <1>1, <2>1, <2>2, <3>3, <3>5, <3>6, <3>7 DEF Telling
    <3>8. CASE todo = Send1(b, k) /\ eoi_pending = Final(i) /\ OffIn({"hold", "ready", "eoi"})
      BY <1>1, <2>1, <2>2, <3>3, <3>4, <3>5, <3>6, <3>8 DEF Telling
    <3>9. CASE todo = Send2(b, k) /\ OffIn({"hold", "ready", "eoi"})
      BY <1>1, <2>1, <2>2, <3>3, <3>4, <3>5, <3>6, <3>9 DEF Telling
    <3>10. CASE todo = Send3(b, k) /\ OffIn({"ready"})
      BY <1>1, <2>1, <2>2, <3>3, <3>4, <3>5, <3>6, <3>10 DEF Telling
    <3>11. CASE todo \in {Clock0(b, k), Clock1(b, k)} /\ OffIn({"ready"}) /\ eoi_pending = FALSE
      BY <1>1, <2>1, <2>2, <3>3, <3>4, <3>5, <3>6, <3>11 DEF Telling
    <3>12. CASE todo = Eoi1(b, k) /\ OffIn({"ready", "eoi"}) /\ Final(i) /\ eoi_pending = FALSE
      BY <1>1, <2>1, <2>2, <3>3, <3>4, <3>5, <3>6, <3>12 DEF Telling
    <3> QED BY <1>7, <2>4, <3>7, <3>8, <3>9, <3>10, <3>11, <3>12 DEF Telling
  <2> QED BY <2>3, <2>4
<1> QED BY <1>5, <1>6, <1>7

(* ... and those of a status. *)
LEMMA TalkStays ==
  ASSUME Base, NEW d \in Devices, Evolves(d)
  PROVE  /\ Turning => Turning'
         /\ Awaiting => Awaiting'
         /\ \A i \in DOMAIN Text : Taking(i) => Taking(i)'
<1>1. /\ todo' = todo /\ host' = host /\ CallKept /\ call' = call
      /\ rx_eoi' = rx_eoi /\ buffer' = buffer
  BY DEF Evolves, BytesKept, CallKept, FlagsKept, AnswerKept
<1>2. /\ \A n : HasSent(n) => HasSent(n)'
      /\ Blank => Blank'
      /\ Begun => Begun'
      /\ IsLast => IsLast'
      /\ ~HostWaitsForEoi => (Talking => Talking')
  BY Steady
<1> DEFINE t == call.dev
<1>3. Here(t)' => Here(t) /\ t \in Devices /\ dev'[t].plugged /\ dev'[t].sent = dev[t].sent /\ dev'[t].role = dev[t].role
  <2>1. \A e \in Devices : dev'[e].plugged => dev[e].plugged /\ dev'[e].sent = dev[e].sent /\ dev'[e].role = dev[e].role
    BY EachDevice
  <2> QED BY <1>1, <2>1 DEF Here
<1>4. /\ \A e \in Devices : dev'[e].atn \in BOOLEAN /\ dev[e].atn \in BOOLEAN
      /\ "DATA" \in host => Low("DATA")
  BY DEF Evolves, Base, DeviceRecord, Low
<1>5. ASSUME Turning PROVE Turning'
  <2>1. Talking' /\ Blank' /\ HasSent(0)'
    BY <1>2, <1>5, CalmBytes, CalmIs DEF Turning
  <2>2. ASSUME "ATN" \in host, Here(t) => dev[t].atn PROVE Here(t)' => dev'[t].atn
    BY <1>3, <2>2, EachDevice
  <2>3. ASSUME "DATA" \in host, "ATN" \notin host,
               Here(t) => dev[t].atn \/ (dev[t].state \in {"turn", "clk", "offer"} /\ Alone)
        PROVE  Here(t)' => dev'[t].atn \/ (dev'[t].state \in {"turn", "clk", "offer"} /\ Alone')
    <3> SUFFICES ASSUME Here(t)', ~dev'[t].atn
                 PROVE  dev'[t].state \in {"turn", "clk", "offer"} /\ Alone'
      OBVIOUS
    <3>0. dev[t].plugged /\ dev'[t].plugged /\ t \in Devices
      BY <1>3 DEF Here
    <3>1. CASE dev[t].atn
      <4>1. t = d /\ Leaves(d)
        <5>1. t = d
          BY <3>0, <3>1 DEF Evolves
        <5> QED BY <3>0, <3>1, <5>1 DEF Evolves, Notices, Goes, Learns, Vanishes, NoDevice, NewDevice
      <4>2. dev[t].role = "talker"
        BY <1>3, <1>5 DEF Turning, Talking, RolesAre, Here
      <4>3. dev'[t].state = "turn"
        BY <4>1, <4>2 DEF Leaves
      <4> QED BY <1>1, <4>3 DEF Alone
    <3>2. CASE ~dev[t].atn
      <4>1. dev[t].state \in {"turn", "clk", "offer"} /\ Alone
        BY <1>3, <2>3, <3>2
      <4>2. Alone'
        BY <1>5, <2>3, <4>1, Speaker DEF Turning
      <4>3. dev'[t].atn = dev[t].atn
        BY <1>4, <3>0, <3>2
      <4>4. dev'[t].state \in {"turn", "clk", "offer"}
        BY <1>4, <2>3, <3>0, <4>1, <4>3, Moves
      <4> QED BY <4>2, <4>4
    <3> QED BY <1>4, <3>0, <3>1, <3>2
  <2>4. CASE todo = Turn0(call.count) /\ (Here(t) => "ATN" \in host /\ dev[t].atn)
    BY <1>1, <1>3, <2>1, <2>2, <2>4 DEF Turning
  <2>5. CASE todo = Turn1(call.count) /\ "DATA" \in host /\ (Here(t) => "ATN" \in host /\ dev[t].atn)
    BY <1>1, <1>3, <2>1, <2>2, <2>5 DEF Turning
  <2>6. CASE /\ "DATA" \in host /\ "ATN" \notin host
             /\ Here(t) => dev[t].atn \/ (dev[t].state \in {"turn", "clk", "offer"} /\ Alone)
             /\ todo = Turn2(call.count) \/ (todo = Turn3(call.count) /\ "CLK" \notin host)
    BY <1>1, <2>1, <2>3, <2>6 DEF Turning
  <2> QED BY <1>5, <2>4, <2>5, <2>6 DEF Turning
<1>6. ASSUME Talking, OnBus, ~HostWaitsForEoi PROVE Talking' /\ OnBus'
  BY <1>1, <1>2, <1>6, Speaker DEF OnBus
<1>7. ASSUME Awaiting PROVE Awaiting'
  <2>0. ~HostWaitsForEoi
    BY <1>7, CalmBytes DEF HostWaitsForEoi
  <2>1. Talking' /\ OnBus'
    BY <1>6, <1>7, <2>0 DEF Awaiting
  <2>2. HasSent(Len(buffer))'
    <3>1. HasSent(Len(buffer))
      BY <1>7 DEF Awaiting
    <3> QED BY <1>1, <1>3, <3>1 DEF HasSent
  <2>3. Begun' /\ (IsLast => IsLast')
    BY <1>2, <1>7 DEF Awaiting
  <2>4. /\ "DATA" \in host => \A S \in {{"offer"}, {"acked"}, {"due", "acked"}, {"sent", "clk", "offer", "done"}} :
                               Says(S) => Says(S)'
        /\ "DATA" \notin host => \A S \in {{"offer", "due"}, {"due"}, {"acked"}, {"sent"}} : Says(S) => Says(S)'
    BY <1>7, Speaker DEF Awaiting, OnBus
  <2>5. CASE todo = Receive0 /\ "DATA" \in host /\ Says({"clk", "offer", "sent"})
    <3>1. Says({"clk", "offer", "sent"})'
      <4>1. CASE Here(t)
        <5>1. Len(buffer) \in Nat /\ Len(buffer) < Len(Text) /\ HasSent(Len(buffer))
          <6>1. buffer \in Seq(Letters)
            BY DEF Base
          <6> QED BY <1>7, <4>1, <6>1, LenProperties DEF Awaiting, Begun
        <5> QED BY <1>7, <2>5, <5>1, Speaker DEF Awaiting, OnBus
      <4>2. CASE ~Here(t)
        BY <1>3, <4>2 DEF Says
      <4> QED BY <4>1, <4>2
    <3> QED BY <1>1, <2>1, <2>2, <2>3, <2>5, <3>1 DEF Awaiting
  <2>6. CASE rx_eoi = FALSE /\ todo = Receive1 /\ "DATA" \in host /\ Says({"offer"})
    <3>1. Says({"offer"})'
      BY <2>4, <2>6
    <3> QED BY <1>1, <2>1, <2>2, <2>3, <2>6, <3>1 DEF Awaiting
  <2>7. CASE rx_eoi = FALSE /\ todo \in {Receive2, Receive3} /\ "DATA" \notin host /\ Says({"offer", "due"})
    <3>1. Says({"offer", "due"})'
      BY <2>4, <2>7
    <3> QED BY <1>1, <2>1, <2>2, <2>3, <2>7, <3>1 DEF Awaiting
  <2>8. CASE rx_eoi = TRUE /\ IsLast /\ todo = Last0 /\ "DATA" \notin host /\ Says({"due"})
    <3>1. Says({"due"})'
      BY <2>4, <2>8
    <3> QED BY <1>1, <2>1, <2>2, <2>3, <2>8, <3>1 DEF Awaiting
  <2>9. CASE rx_eoi = TRUE /\ IsLast /\ todo = Last1 /\ "DATA" \in host /\ Says({"due", "acked"})
    <3>1. Says({"due", "acked"})'
      BY <2>4, <2>9
    <3> QED BY <1>1, <2>1, <2>2, <2>3, <2>9, <3>1 DEF Awaiting
  <2>10. CASE rx_eoi = TRUE /\ IsLast /\ todo = Receive1 /\ "DATA" \in host /\ Says({"acked"})
    <3>1. Says({"acked"})'
      BY <2>4, <2>10
    <3> QED BY <1>1, <2>1, <2>2, <2>3, <2>10, <3>1 DEF Awaiting
  <2>11. CASE rx_eoi = TRUE /\ IsLast /\ todo \in {Receive2, Receive3} /\ "DATA" \notin host /\ Says({"acked"})
    <3>1. Says({"acked"})'
      BY <2>4, <2>11
    <3> QED BY <1>1, <2>1, <2>2, <2>3, <2>11, <3>1 DEF Awaiting
  <2> QED BY <1>7, <2>5, <2>6, <2>7, <2>8, <2>9, <2>10, <2>11 DEF Awaiting
<1>8. ASSUME NEW i \in DOMAIN Text, Taking(i) PROVE Taking(i)'
  <2>0. ~HostWaitsForEoi
    BY <1>8, CalmBytes, CalmIs
  <2>1. Talking' /\ OnBus' /\ Begun'
    BY <1>2, <1>6, <1>8, <2>0 DEF Taking
  <2>2. Here(t)' => i = Len(buffer) + 1 /\ dev'[t].sent = i /\ rx_eoi = (i = Len(Text))
    BY <1>3, <1>8 DEF Taking
  <2>3. /\ "DATA" \in host => (Says({"sent", "clk", "offer", "done"}) => Says({"sent", "clk", "offer", "done"})')
        /\ "DATA" \notin host => (Says({"sent"}) => Says({"sent"})')
    BY <1>8, Speaker DEF Taking, OnBus
  <2> QED BY <1>1, <1>8, <2>1, <2>2, <2>3 DEF Taking
<1> QED BY <1>5, <1>7, <1>8

(* Where the controller is, from what it has left to do. *)
LEMMA Whereabouts ==
  ASSUME Inv
  PROVE  /\ todo = <<>> => Finished
         /\ HostWaitsForEoi => Off
         /\ At("bits") => Awaiting /\ todo = Receive3
<1>1. /\ Base
      /\ \/ Finished \/ Awaiting \/ Calm
         \/ \E i \in 1 .. Len(call.msg) : Telling(i)
  <2>1. ASSUME NEW j \in Jobs, Attending(j) \/ Attended(j) PROVE Calm
    BY <2>1, CalmJobs DEF Inv
  <2>2. ASSUME NEW j \in {"listen1", "listen2", "talk"}, Calling(j) PROVE Calm
    <3>1. j \in Jobs
      BY DEF Jobs
    <3> QED BY <2>2, <3>1, CalmJobs DEF Inv
  <2>3. ASSUME NEW j \in {"unlisten1", "unlisten2", "untalk"}, Leaving(j) PROVE Calm
    BY <2>3, CalmEnds DEF Inv
  <2>4. Initialising \/ Closing \/ Opening \/ Untalking \/ Missing \/ Turning => Calm
    BY CalmEnds, CalmBytes DEF Inv
  <2>5. /\ \A i \in DOMAIN Text : Taking(i) => Calm
        /\ \A i \in 1 .. Len(call.msg) + 1 : Printing(i) => Calm
        /\ \A i \in 1 .. Len(call.msg) : Told(i) => Calm
    BY CalmBytes DEF Inv
  <2> QED BY <2>1, <2>2, <2>3, <2>4, <2>5, Zenon DEF Inv, Somewhere
<1>2. Calm => todo # <<>> /\ ~HostWaitsForEoi /\ ~At("bits")
  BY DEF Calm, HostWaitsForEoi
<1>3. Awaiting => todo # <<>> /\ ~HostWaitsForEoi /\ (At("bits") => todo = Receive3)
  BY <1>1, CalmBytes DEF HostWaitsForEoi
<1>4. Finished => todo = <<>> /\ ~HostWaitsForEoi /\ ~At("bits")
  BY DEF Finished, HostWaitsForEoi, At
<1>5. ASSUME NEW i \in 1 .. Len(call.msg), Telling(i)
      PROVE  todo # <<>> /\ ~At("bits") /\ (HostWaitsForEoi => Off)
  <2> DEFINE b == Data(call.msg[i])
             k == AfterByte(i)
  <2>1. todo # <<>> /\ ~At("bits") /\ (HostWaitsForEoi => todo = Eoi0(b, k)) /\ b \in Letters /\ k \in Seq(Steps)
    BY <1>1, <1>5, CalmBytes, Typed DEF HostWaitsForEoi
  <2>2. todo \in {Send0(b, k), Send1(b, k)} => ~HostWaitsForEoi
    <3> HIDE DEF b, k
    <3>1. /\ todo = Send0(b, k) => Next1Is("sleep")
          /\ todo = Send1(b, k) => Next1Is("free")
      BY <2>1, NextIs
    <3> QED BY <3>1 DEF Next1Is, HostWaitsForEoi
  <2> QED BY <1>5, <2>1, <2>2 DEF Telling, OffIn
<1> QED BY <1>1, <1>2, <1>3, <1>4, <1>5

(* The talker sends a byte. *)
LEMMA Sending ==
  ASSUME Base, Awaiting, todo = Receive3, NEW d \in Devices, TalkerSends(d)
  PROVE  Base' /\ (\E i \in DOMAIN Text : Taking(i)') /\ \A e \in Devices : dev'[e].heard = dev[e].heard
<1> DEFINE t == call.dev
           pull == {"CLK"}
           r == [dev[d] EXCEPT !.state = "sent", !.pull = pull, !.sent = @ + 1]
<1>1. /\ dev \in [Devices -> DeviceRecord] /\ dev[d] \in DeviceRecord /\ Fit(dev[d])
      /\ buffer \in Seq(Letters) /\ Len(buffer) \in Nat /\ rx_eoi \in BOOLEAN
      /\ Len(Text) \in Nat /\ Len(Text) > 0
  <2>1. buffer \in Seq(Letters)
    BY DEF Base
  <2> QED BY <2>1, LenProperties, Typed DEF Base, TypeOK
<1>2. /\ "DATA" \notin host
      /\ \/ rx_eoi = FALSE /\ Says({"offer", "due"})
         \/ rx_eoi = TRUE /\ IsLast /\ Says({"acked"})
  <2> DEFINE g == Data(Garbage)
             none == <<>>
  <2>1. g \in Letters /\ none \in Seq(Steps)
    BY Typed
  <2> HIDE DEF g, none
  <2>2. /\ todo = Last1 => Next1Is("sleep")
        /\ todo = Receive2 => Next1Is("until")
        /\ todo = Receive1 => Next1Is("free")
        /\ todo = Last0 => Next1Is("pull")
        /\ todo = Receive0 => Next1Is("receive")
        /\ todo = Receive3 => Next1Is("bits")
    BY <2>1, NextIs
  <2>3. todo \notin {Last0, Last1, Receive0, Receive1}
    BY <2>2 DEF Next1Is
  <2> QED BY <2>3 DEF Awaiting
<1>3. dev[d].state = "acked" \/ (dev[d].state = "due" /\ ~Last(d))
  BY DEF TalkerSends, Sends
<1>4. d = t /\ Here(t) /\ ~dev[d].atn /\ dev[d].role = "talker"
  <2>1. dev[d].plugged
    BY <1>3, LowAtn
  <2>2. ~dev[d].atn
    BY <1>1, <1>3 DEF Fit
  <2>3. dev[d].role = "talker"
    BY <1>1, <1>3, <2>2 DEF Fit, StatesOf, DeviceRecord, Roles
  <2> QED BY <2>1, <2>2, <2>3 DEF Awaiting, Talking, RolesAre, Here
<1>5. dev[d].sent = Len(buffer) /\ Len(buffer) < Len(Text)
  BY <1>4 DEF Awaiting, HasSent, Begun
<1>0. PICK i \in 1 .. Len(Text) : i = dev[d].sent + 1
  BY <1>1, <1>5
<1>6. i = Len(buffer) + 1 /\ rx_eoi = (i = Len(Text))
  BY <1>0, <1>1, <1>2, <1>3, <1>4, <1>5 DEF Says, IsLast, Last
<1>7. i \in DOMAIN Text
  <2>1. Text \in Seq(Bytes)
    BY IecAssumption DEF IecAssumption
  <2> QED BY <2>1, LenProperties
<1>8. /\ r \in DeviceRecord /\ Fit(r) /\ r.state = "sent" /\ r.sent = i /\ r.plugged = dev[d].plugged
      /\ r.role = dev[d].role /\ r.last = dev[d].last /\ r.atn = dev[d].atn /\ r.heard = dev[d].heard
  <2>0. dev[d].sent + 1 \in 0 .. Len(Text) /\ pull \in SUBSET {"CLK", "DATA"}
    BY <1>0, <1>1
  <2>1. /\ r \in DeviceRecord /\ r.state = "sent" /\ r.pull = pull /\ r.sent = i /\ r.plugged = dev[d].plugged
        /\ r.role = dev[d].role /\ r.last = dev[d].last /\ r.atn = dev[d].atn /\ r.heard = dev[d].heard
    <3> HIDE DEF pull
    <3> QED BY <1>0, <1>1, <2>0 DEF DeviceRecord, States
  <2>2. dev[d].plugged
    BY <1>4 DEF Here
  <2> HIDE DEF r
  <2>3. Fit(r)
    BY <1>4, <2>1, <2>2 DEF Fit, PullOf, StatesOf
  <2> QED BY <2>1, <2>3
<1>9. dev' = [dev EXCEPT ![d] = r]
  BY <1>1 DEF TalkerSends
<1> HIDE DEF r
<1>10. /\ dev' \in [Devices -> DeviceRecord] /\ dev'[d] = r
       /\ \A e \in Devices : e # d => dev'[e] = dev[e]
       /\ \A e \in Devices : Fit(dev'[e])
  BY <1>8, <1>9, OthersKept
<1>11. /\ host' = host /\ CallKept /\ call' = call /\ FlagsKept /\ AnswerKept /\ buffer' = buffer
       /\ queue' = queue /\ eoi_pending' = eoi_pending /\ rx_eoi' = rx_eoi
  BY DEF TalkerSends, CallKept, FlagsKept, AnswerKept, flags, answer
<1>12. Base'
  BY <1>10, <1>11, BaseAfter DEF Base, TypeOK
<1>13. todo' = Take0(Data(Text[i]))
  <2> DEFINE b == Data(Text[i])
             s == <<"bits">>
             none == <<>>
  <2>1. b \in Letters /\ s \in Steps /\ none \in Seq(Steps)
    BY <1>7, Typed, StepNames
  <2>2. todo = Then(s, none)
    BY DEF Receive3
  <2>3. Cat(Received(b), none) = Take0(b)
    BY <2>1, CallsAre
  <2>4. Do(Received(b))
    BY <1>0 DEF TalkerSends
  <2> HIDE DEF s, none, b
  <2>5. todo' = Cat(Received(b), none)
    BY <2>1, <2>2, <2>4, Doing
  <2> QED BY <2>3, <2>5 DEF b
<1>14. /\ \A e \in Devices : /\ dev'[e].plugged = dev[e].plugged /\ dev'[e].role = dev[e].role
                             /\ dev'[e].last = dev[e].last /\ dev'[e].atn = dev[e].atn
                             /\ dev'[e].heard = dev[e].heard
  BY <1>8, <1>10
<1>15. Talking'
  BY <1>11, <1>14 DEF Awaiting, Talking, Quiet, RolesAre
<1>16. OnBus'
  <2>1. \A e \in Devices : ~dev[e].atn
    BY <1>3, <1>4 DEF Awaiting, OnBus, Alone
  <2> QED BY <1>11, <1>14, <2>1 DEF Awaiting, OnBus, Alone
<1>17. Begun'
  BY <1>11, <1>14 DEF Awaiting, Begun, Here, StatusOf
<1>18. Says({"sent"})'
  BY <1>4, <1>8, <1>10, <1>11 DEF Says
<1>19. dev'[t].sent = i
  BY <1>4, <1>8, <1>10
<1>20. Taking(i)'
  <2>1. /\ (Here(call.dev) => /\ i = Len(buffer) + 1 /\ dev[call.dev].sent = i
                             /\ rx_eoi = (i = Len(Text)))'
    BY <1>6, <1>11, <1>19
  <2>2. (todo \in {Take0(Data(Text[i])), Take1(Data(Text[i]))} /\ "DATA" \notin host)'
    BY <1>2, <1>11, <1>13
  <2> QED BY <1>15, <1>16, <1>17, <1>18, <2>1, <2>2 DEF Taking
<1>21. \E n \in DOMAIN Text : Taking(n)'
  BY <1>7, <1>20
<1> QED BY <1>12, <1>14, <1>21

(* No step of a device breaks the invariant, and none adds to what is heard. *)
LEMMA DeviceKeeps ==
  ASSUME Inv, NEW d \in Devices, Device(d) \/ SwitchOff(d)
  PROVE  Inv' /\ \A e \in Devices : Len(dev'[e].heard) <= Len(dev[e].heard)
<1>1. Base /\ (HostWaitsForEoi => Off) /\ (At("bits") => Awaiting /\ todo = Receive3)
  BY Whereabouts DEF Inv
<1>2. Evolves(d) \/ TalkerSends(d)
  BY <1>1, DeviceStep
<1>3. \A e \in Devices : dev[e] \in DeviceRecord /\ Len(dev[e].heard) \in Nat
  <2>1. ASSUME NEW e \in Devices PROVE dev[e] \in DeviceRecord /\ dev[e].heard \in Seq([byte : Letters, last : BOOLEAN])
    BY <1>1 DEF Base, DeviceRecord
  <2> QED BY <2>1, LenProperties
<1>4. CASE TalkerSends(d)
  <2>1. At("bits")
    BY <1>4 DEF TalkerSends
  <2>2. Base' /\ (\E i \in DOMAIN Text : Taking(i)') /\ \A e \in Devices : dev'[e].heard = dev[e].heard
    BY <1>1, <1>4, <2>1, Sending
  <2>3. Somewhere'
    BY <2>2 DEF Somewhere
  <2> QED BY <1>3, <2>2, <2>3 DEF Inv
<1>5. CASE Evolves(d)
  <2>1. Base'
    BY <1>1, <1>5, EvolvesBase
  <2>2. ASSUME NEW e \in Devices PROVE Len(dev'[e].heard) <= Len(dev[e].heard)
    <3>1. CASE dev'[e].plugged
      <4>1. dev'[e].heard = dev[e].heard
        BY <1>1, <1>5, <3>1, EachDevice
      <4> QED BY <1>3, <4>1
    <3>2. CASE ~dev'[e].plugged
      <4> DEFINE empty == <<>>
      <4>1. dev'[e] = NoDevice
        BY <1>1, <1>5, <3>2, EachDevice
      <4>2. NoDevice.heard = empty
        BY DEF NoDevice, NewDevice
      <4>3. Len(empty) = 0
        OBVIOUS
      <4> HIDE DEF empty
      <4> QED BY <1>3, <4>1, <4>2, <4>3
    <3> QED BY <3>1, <3>2
  <2>3. call' = call
    BY <1>5 DEF Evolves, BytesKept, CallKept
  <2>4. /\ \A j \in Jobs : (Attending(j) => Attending(j)') /\ (Attended(j) => Attended(j)')
        /\ \A j \in {"listen1", "listen2", "talk"} : Calling(j) => Calling(j)'
        /\ \A j \in {"unlisten1", "unlisten2", "untalk"} : Leaving(j) => Leaving(j)'
    <3>1. {"listen1", "listen2", "talk", "unlisten1", "unlisten2", "untalk"} \subseteq Jobs
      BY DEF Jobs
    <3> QED BY <1>1, <1>5, <3>1, JobStays
  <2>5. Finished \/ Initialising \/ Closing \/ Opening \/ Untalking \/ Missing => Somewhere'
    BY <1>1, <1>5, EndStays DEF Somewhere
  <2>6. Turning \/ Awaiting \/ (\E i \in DOMAIN Text : Taking(i)) => Somewhere'
    BY <1>1, <1>5, TalkStays DEF Somewhere
  <2>7. ASSUME \/ \E i \in 1 .. Len(call.msg) + 1 : Printing(i)
               \/ \E i \in 1 .. Len(call.msg) : Telling(i) \/ Told(i)
        PROVE  Somewhere'
    <3>1. \/ \E i \in 1 .. Len(call.msg) + 1 : Printing(i)'
          \/ \E i \in 1 .. Len(call.msg) : Telling(i)' \/ Told(i)'
      BY <1>1, <1>5, <2>7, ByteStays
    <3> QED BY <2>3, <3>1 DEF Somewhere
  <2>8. ASSUME \/ \E j \in Jobs : Attending(j) \/ Attended(j)
               \/ \E j \in {"listen1", "listen2", "talk"} : Calling(j)
               \/ \E j \in {"unlisten1", "unlisten2", "untalk"} : Leaving(j)
        PROVE  Somewhere'
    <3>1. \/ \E j \in Jobs : Attending(j)' \/ Attended(j)'
          \/ \E j \in {"listen1", "listen2", "talk"} : Calling(j)'
          \/ \E j \in {"unlisten1", "unlisten2", "untalk"} : Leaving(j)'
      BY <2>4, <2>8
    <3> QED BY <3>1 DEF Somewhere, Jobs
  <2>9. Somewhere'
    <3>1. Somewhere
      BY DEF Inv
    <3> QED BY <2>5, <2>6, <2>7, <2>8, <3>1, Zenon DEF Somewhere
  <2> QED BY <2>1, <2>2, <2>9 DEF Inv
<1> QED BY <1>2, <1>4, <1>5

-----------------------------------------------------------------------------
(* The controller moves on from every place of a call to the next one. *)

(* The types after a step that only changes lines. *)
LEMMA UnmovedBase ==
  ASSUME Base, DevicesKept, BytesKept, host' \subseteq {"ATN", "CLK", "DATA"}
  PROVE  Base'
<1>1. /\ dev' = dev /\ CallKept /\ AnswerKept /\ queue' = queue /\ eoi_pending' = eoi_pending /\ rx_eoi' = rx_eoi
  BY DEF DevicesKept, BytesKept, FlagsKept
<1> QED BY <1>1, BaseAfter DEF Base, TypeOK

(* What does not speak of the lines of the controller. *)
LEMMA Unmoved ==
  ASSUME DevicesKept, CallKept
  PROVE  /\ \A n : (Heard(n) => Heard(n)') /\ (HasSent(n) => HasSent(n)')
         /\ HeardAll => HeardAll'
         /\ \A role : (RolesAre(0, role) => RolesAre(0, role)') /\ (RolesAre(call.dev, role) => RolesAre(call.dev, role)')
         /\ \A S : Says(S) => Says(S)'
         /\ \A mark \in BOOLEAN : Marks(mark) => Marks(mark)'
         /\ Alone => Alone'
         /\ IsLast => IsLast'
         /\ Here(call.dev)' <=> Here(call.dev)
         /\ \A j \in Jobs : Here(Target(j))' <=> Here(Target(j))
         /\ "ATN" \notin host' =>
              /\ Off => Off'
              /\ \A S : OffIn(S) => OffIn(S)'
         /\ "ATN" \in host' => \A S : AllAtn(S) => AllAtn(S)'
         /\ \A j \in Jobs : /\ "CLK" \in host' => (Holds(Target(j)) => Holds(Target(j))')
                            /\ ("CLK" \in host => "CLK" \in host') /\ ("ATN" \in host' => "ATN" \in host)
                                 => (Attentive(Target(j)) => Attentive(Target(j))')
         /\ ("CLK" \in host => "CLK" \in host') /\ ("ATN" \in host' => "ATN" \in host)
              => (Attentive(call.dev) => Attentive(call.dev)')
<1>1. dev' = dev /\ call' = call
  BY DEF DevicesKept, CallKept
<1>2. \A j \in Jobs : Target(j)' = Target(j)
  BY SameWords
<1>3. \A n : (Heard(n) => Heard(n)') /\ (HasSent(n) => HasSent(n)')
  BY <1>1 DEF Heard, HasSent, Plain, Here
<1>4. HeardAll => HeardAll'
  BY <1>1 DEF HeardAll, Marked, Here
<1>5. \A role : (RolesAre(0, role) => RolesAre(0, role)') /\ (RolesAre(call.dev, role) => RolesAre(call.dev, role)')
  BY <1>1 DEF RolesAre
<1>6. \A S : Says(S) => Says(S)'
  BY <1>1 DEF Says, Here
<1>7. \A mark \in BOOLEAN : Marks(mark) => Marks(mark)'
  BY <1>1 DEF Marks
<1>8. (Alone => Alone') /\ (IsLast => IsLast')
  BY <1>1 DEF Alone, IsLast, Here, Last
<1>9. (Here(call.dev)' <=> Here(call.dev)) /\ \A j \in Jobs : Here(Target(j))' <=> Here(Target(j))
  BY <1>1, <1>2 DEF Here
<1>10. "ATN" \notin host' => (Off => Off') /\ \A S : OffIn(S) => OffIn(S)'
  BY <1>1 DEF Off, OffIn
<1>11. "ATN" \in host' => \A S : AllAtn(S) => AllAtn(S)'
  BY <1>1 DEF AllAtn
<1>12. ASSUME NEW j \in Jobs
       PROVE  /\ "CLK" \in host' => (Holds(Target(j)) => Holds(Target(j))')
              /\ ("CLK" \in host => "CLK" \in host') /\ ("ATN" \in host' => "ATN" \in host)
                   => (Attentive(Target(j)) => Attentive(Target(j))')
  BY <1>1, <1>2 DEF Holds, Attentive, Here
<1>13. ("CLK" \in host => "CLK" \in host') /\ ("ATN" \in host' => "ATN" \in host)
              => (Attentive(call.dev) => Attentive(call.dev)')
  BY <1>1 DEF Holds, Attentive, Here
<1> QED BY <1>3, <1>4, <1>5, <1>6, <1>7, <1>8, <1>9, <1>10, <1>11, <1>12, <1>13

(* What does not speak of the lines, nor of the marks of the controller. *)
LEMMA Untouched ==
  ASSUME DevicesKept, CallKept, AnswerKept
  PROVE  /\ Served => Served'
         /\ Blank => Blank'
         /\ Begun => Begun'
         /\ queue' = queue /\ eoi_pending' = eoi_pending =>
              /\ Quiet => Quiet'
              /\ \A j \in Jobs : (Before(j) => Before(j)') /\ (After(j) => After(j)')
              /\ Talking => Talking'
<1>1. dev' = dev /\ call' = call /\ buffer' = buffer /\ result' = result /\ terminator' = terminator
  BY DEF DevicesKept, CallKept, AnswerKept
<1>2. \A j \in Jobs : Target(j)' = Target(j)
  BY SameWords
<1>3. Served => Served'
  BY <1>1 DEF Served, HeardAll, Answered, Here, Marked, StatusOf, BytesRead, Returned
<1>4. (Blank => Blank') /\ (Begun => Begun')
  BY <1>1 DEF Blank, Begun, Here, StatusOf
<1>5. ASSUME queue' = queue, eoi_pending' = eoi_pending
      PROVE  /\ Quiet => Quiet'
             /\ \A j \in Jobs : (Before(j) => Before(j)') /\ (After(j) => After(j)')
             /\ Talking => Talking'
  <2>1. Quiet => Quiet'
    BY <1>1, <1>5 DEF Quiet
  <2>2. \A n : (Heard(n) => Heard(n)') /\ (HasSent(n) => HasSent(n)')
    BY Unmoved
  <2>3. \A j \in Jobs : \A role : RolesAre(Target(j), role) => RolesAre(Target(j), role)'
    BY <1>1, <1>2 DEF RolesAre
  <2>4. \A j \in Jobs : (Before(j) => Before(j)') /\ (After(j) => After(j)')
    BY <1>1, <1>3, <1>4, <2>1, <2>2, <2>3 DEF Before, After
  <2>5. Talking => Talking'
    BY <1>1, <2>1 DEF Talking, RolesAre
  <2> QED BY <2>1, <2>4, <2>5
<1> QED BY <1>3, <1>4, <1>5

(* What a device makes of a byte. *)
NewRole(e, b) ==
  IF b = LISTEN(e) THEN "listener"
  ELSE IF b = TALK(e) THEN "talker"
  ELSE IF (b = UNLISTEN /\ dev[e].role = "listener") \/ (b[1] = "talk" /\ dev[e].role = "talker") THEN "none"
  ELSE dev[e].role
Opens(e, b) == b[1] = "open" /\ dev[e].role # "none"

(* No device has the number that UNLISTEN and UNTALK use. *)
LEMMA Numbers ==
  \A e \in Devices : e # 31
<1>1. Devices \subseteq 0 .. 30
  BY IecAssumption
<1> QED BY <1>1

(* A byte with ATN pulled gives a device its role, and no data ... *)
LEMMA HearsAtn ==
  ASSUME Base, NEW e \in Devices, NEW b \in Letters, dev[e].state = "ready", dev[e].atn
  PROVE  LET r == Hears(e, b)
         IN /\ r \in DeviceRecord /\ Fit(r)
            /\ r.plugged /\ r.atn /\ r.state = "got" /\ r.last = FALSE /\ r.role = NewRole(e, b)
            /\ r.heard = IF Opens(e, b) THEN <<>> ELSE dev[e].heard
            /\ r.sent = IF Opens(e, b) THEN 0 ELSE dev[e].sent
<1> DEFINE me == dev[e]
           empty == <<>>
           no == FALSE
           heard == IF Opens(e, b) THEN empty ELSE me.heard
           sent == IF Opens(e, b) THEN 0 ELSE me.sent
           r == [me EXCEPT !.state = "got", !.role = NewRole(e, b), !.heard = heard, !.last = no, !.sent = sent]
<1>1. me \in DeviceRecord /\ Fit(me) /\ me.plugged /\ me.atn = TRUE /\ Len(Text) \in Nat
  BY LowAtn, Typed DEF Base, DeviceRecord
<1>2. Hears(e, b) = r
  <2>0. /\ LISTEN(e) # TALK(e) /\ LISTEN(e) # UNLISTEN /\ LISTEN(e)[1] = "listen"
        /\ TALK(e) # UNLISTEN /\ TALK(e)[1] = "talk" /\ UNLISTEN[1] = "listen"
    <3>1. e # 31
      BY Numbers
    <3> QED BY <3>1 DEF LISTEN, TALK, UNLISTEN
  <2> DEFINE role == CASE me.atn /\ b = LISTEN(e) -> "listener"
                       [] me.atn /\ b = TALK(e) -> "talker"
                       [] me.atn /\ b = UNLISTEN /\ me.role = "listener" -> "none"
                       [] me.atn /\ b[1] = "talk" /\ b # TALK(e) /\ me.role = "talker" -> "none"
                       [] OTHER -> me.role
             opened == me.atn /\ b[1] = "open" /\ me.role # "none"
             kept == CASE opened -> <<>>
                       [] ~me.atn -> Append(me.heard, [byte |-> b, last |-> me.last])
                       [] OTHER -> me.heard
  <2>1. Hears(e, b) = [me EXCEPT !.state = "got", !.role = role, !.heard = kept, !.last = FALSE,
                                 !.sent = IF opened THEN 0 ELSE @]
    BY Zenon DEF Hears
  <2>2. opened <=> Opens(e, b)
    BY <1>1 DEF Opens
  <2>3. role = NewRole(e, b)
    <3> HIDE DEF opened, kept
    <3>1. CASE b = LISTEN(e)
      BY <1>1, <2>0, <3>1 DEF NewRole
    <3>2. CASE b = TALK(e)
      BY <1>1, <2>0, <3>2 DEF NewRole
    <3>3. CASE b # LISTEN(e) /\ b # TALK(e)
      BY <1>1, <2>0, <3>3 DEF NewRole
    <3> QED BY <3>1, <3>2, <3>3
  <2> HIDE DEF opened
  <2>4. kept = heard
    BY <1>1, <2>2
  <2>5. (IF opened THEN 0 ELSE me.sent) = sent
    BY <2>2
  <2> HIDE DEF role, kept, heard, sent
  <2> QED BY <2>1, <2>3, <2>4, <2>5
<1>3. NewRole(e, b) \in Roles /\ heard \in Seq([byte : Letters, last : BOOLEAN]) /\ sent \in 0 .. Len(Text) /\ no \in BOOLEAN
  <2>1. empty \in Seq([byte : Letters, last : BOOLEAN])
    OBVIOUS
  <2> HIDE DEF empty
  <2> QED BY <1>1, <2>1 DEF NewRole, Roles, DeviceRecord
<1>4. heard = (IF Opens(e, b) THEN <<>> ELSE dev[e].heard) /\ sent = (IF Opens(e, b) THEN 0 ELSE dev[e].sent) /\ no = FALSE
  OBVIOUS
<1> HIDE DEF heard, sent, no
<1>5. /\ r \in DeviceRecord /\ r.plugged = me.plugged /\ r.atn = me.atn /\ r.state = "got" /\ r.last = no
      /\ r.role = NewRole(e, b) /\ r.heard = heard /\ r.sent = sent /\ r.pull = me.pull
  BY <1>1, <1>3 DEF DeviceRecord, States
<1>6. me.pull = {}
  BY <1>1 DEF Fit, PullOf
<1> HIDE DEF r, me
<1>7. Fit(r)
  BY <1>1, <1>5, <1>6 DEF Fit, PullOf
<1> QED BY <1>1, <1>2, <1>4, <1>5, <1>7

(* ... another byte is added to what the device has heard. *)
LEMMA HearsData ==
  ASSUME Base, NEW e \in Devices, NEW b \in Letters, dev[e].state = "ready", ~dev[e].atn
  PROVE  LET r == Hears(e, b)
         IN /\ r \in DeviceRecord /\ Fit(r)
            /\ r.plugged /\ ~r.atn /\ r.state = "got" /\ r.last = FALSE /\ r.role = dev[e].role
            /\ r.heard = Append(dev[e].heard, [byte |-> b, last |-> dev[e].last])
            /\ r.sent = dev[e].sent
<1> DEFINE me == dev[e]
           no == FALSE
           heard == Append(me.heard, [byte |-> b, last |-> me.last])
           r == [me EXCEPT !.state = "got", !.role = me.role, !.heard = heard, !.last = no, !.sent = me.sent]
<1>1. me \in DeviceRecord /\ Fit(me) /\ me.plugged /\ me.atn = FALSE
  BY LowAtn DEF Base, DeviceRecord
<1>2. Hears(e, b) = r
  BY <1>1 DEF Hears
<1>3. heard \in Seq([byte : Letters, last : BOOLEAN]) /\ no \in BOOLEAN
  <2>1. me.last \in BOOLEAN /\ me.heard \in Seq([byte : Letters, last : BOOLEAN])
    BY <1>1 DEF DeviceRecord
  <2>2. [byte |-> b, last |-> me.last] \in [byte : Letters, last : BOOLEAN]
    BY <2>1
  <2> QED BY <2>1, <2>2, AppendProperties
<1>4. no = FALSE
  OBVIOUS
<1> HIDE DEF heard, no
<1>5. /\ r \in DeviceRecord /\ r.plugged = me.plugged /\ r.atn = me.atn /\ r.state = "got" /\ r.last = no
      /\ r.role = me.role /\ r.heard = heard /\ r.sent = me.sent /\ r.pull = me.pull
  BY <1>1, <1>3 DEF DeviceRecord, States
<1>6. me.pull = {} /\ me.role = "listener"
  BY <1>1 DEF Fit, PullOf, StatesOf, DeviceRecord, Roles
<1> HIDE DEF r, me
<1>7. Fit(r)
  BY <1>1, <1>5, <1>6 DEF Fit, PullOf, StatesOf
<1> QED BY <1>1, <1>2, <1>4, <1>5, <1>7 DEF heard, me

ClockedAs(b) ==
  /\ host' = (host \cup {"CLK"}) \ {"DATA"} /\ BytesKept
  /\ dev' = [e \in Devices |-> IF dev[e].state = "ready" THEN Hears(e, b) ELSE dev[e]]

(* The types after a byte has been sent. *)
LEMMA ClockBase ==
  ASSUME Base, NEW b \in Letters, ClockedAs(b)
  PROVE  /\ Base'
         /\ \A e \in Devices : dev'[e] = IF dev[e].state = "ready" THEN Hears(e, b) ELSE dev[e]
<1>1. \A e \in Devices : dev'[e] = IF dev[e].state = "ready" THEN Hears(e, b) ELSE dev[e]
  BY Zenon DEF ClockedAs
<1>2. ASSUME NEW e \in Devices PROVE dev'[e] \in DeviceRecord /\ Fit(dev'[e])
  <2>1. dev[e] \in DeviceRecord /\ Fit(dev[e])
    BY DEF Base
  <2>2. dev[e].state = "ready" => Hears(e, b) \in DeviceRecord /\ Fit(Hears(e, b))
    BY HearsAtn, HearsData
  <2> QED BY <1>1, <2>1, <2>2
<1> DEFINE f == [e \in Devices |-> IF dev[e].state = "ready" THEN Hears(e, b) ELSE dev[e]]
<1>3. dev' = f
  BY Zenon DEF ClockedAs
<1>4. f \in [Devices -> DeviceRecord]
  BY <1>2, <1>3
<1>5. /\ CallKept /\ AnswerKept /\ queue' = queue /\ eoi_pending' = eoi_pending /\ rx_eoi' = rx_eoi
      /\ host' \subseteq {"ATN", "CLK", "DATA"}
  BY DEF ClockedAs, BytesKept, FlagsKept, Base, TypeOK
<1> HIDE DEF f
<1>6. Base'
  BY <1>2, <1>3, <1>4, <1>5, BaseAfter DEF Base, TypeOK
<1> QED BY <1>1, <1>6

(* The roles that the devices have after the byte of a job. *)
LEMMA NewRoles ==
  ASSUME Base, NEW j \in Jobs, RolesAre(Target(j), RoleBefore(j)), NEW e \in Devices, dev[e].plugged
  PROVE  /\ NewRole(e, Byte(j)) = IF e = Target(j) THEN RoleAfter(j) ELSE "none"
         /\ Opens(e, Byte(j)) <=> j \in {"open1", "open3"} /\ e = Target(j)
<1> DEFINE t == Target(j)
           role == dev[e].role
<1>1. role = IF e = t THEN RoleBefore(j) ELSE "none"
  BY DEF RolesAre
<1>2. /\ \A x, y : (LISTEN(x) = LISTEN(y) <=> x = y) /\ (TALK(x) = TALK(y) <=> x = y)
      /\ \A x, y : LISTEN(x) # TALK(y) /\ LISTEN(x)[1] = "listen" /\ TALK(x)[1] = "talk"
      /\ \A x, c : /\ OPENCH(c) # LISTEN(x) /\ OPENCH(c) # TALK(x) /\ OPENCH(c)[1] = "open"
                   /\ CLOSE(c) # LISTEN(x) /\ CLOSE(c) # TALK(x) /\ CLOSE(c)[1] = "close"
      /\ UNLISTEN = LISTEN(31) /\ UNTALK = TALK(31)
  BY DEF LISTEN, TALK, OPENCH, CLOSE, UNLISTEN, UNTALK
<1>3. e # 31
  BY IecAssumption DEF IecAssumption
<1> HIDE DEF t, role
<1>4. CASE j \in {"listen1", "listen2"}
  <2>1. Byte(j) = LISTEN(t) /\ RoleBefore(j) = "none" /\ RoleAfter(j) = "listener"
    BY <1>4 DEF Byte, RoleBefore, RoleAfter, t
  <2>2. role = "none"
    BY <1>1, <2>1
  <2>3. LISTEN(t)[1] = "listen" /\ (LISTEN(t) = LISTEN(e) <=> t = e) /\ LISTEN(t) # TALK(e)
    BY <1>2
  <2> QED BY <1>4, <2>1, <2>2, <2>3 DEF NewRole, Opens, role, t
<1>5. CASE j \in {"open1", "open3"}
  <2>1. \E c \in {1, 15} : Byte(j) = OPENCH(c)
    BY <1>5 DEF Byte
  <2>2. RoleBefore(j) = RoleAfter(j) /\ RoleBefore(j) # "none"
    BY <1>5 DEF RoleBefore, RoleAfter
  <2>3. PICK c \in {1, 15} : Byte(j) = OPENCH(c)
    BY <2>1
  <2>4. OPENCH(c)[1] = "open" /\ OPENCH(c) # LISTEN(e) /\ OPENCH(c) # TALK(e) /\ OPENCH(c) # UNLISTEN
    BY <1>2
  <2> QED BY <1>1, <1>5, <2>2, <2>3, <2>4 DEF NewRole, Opens, role, t
<1>6. CASE j = "close2"
  <2>1. Byte(j) = CLOSE(1) /\ RoleBefore(j) = RoleAfter(j)
    BY <1>6 DEF Byte, RoleBefore, RoleAfter
  <2>2. CLOSE(1)[1] = "close" /\ CLOSE(1) # LISTEN(e) /\ CLOSE(1) # TALK(e) /\ CLOSE(1) # UNLISTEN
    BY <1>2
  <2> QED BY <1>1, <1>6, <2>1, <2>2 DEF NewRole, Opens, role, t
<1>7. CASE j \in {"unlisten1", "unlisten2"}
  <2>1. Byte(j) = UNLISTEN /\ RoleBefore(j) = "listener" /\ RoleAfter(j) = "none"
    BY <1>7 DEF Byte, RoleBefore, RoleAfter
  <2>2. UNLISTEN[1] = "listen" /\ UNLISTEN # LISTEN(e) /\ UNLISTEN # TALK(e)
    BY <1>2, <1>3
  <2> QED BY <1>1, <1>7, <2>1, <2>2 DEF NewRole, Opens, role, t
<1>8. CASE j = "talk"
  <2>1. Byte(j) = TALK(t) /\ RoleBefore(j) = "none" /\ RoleAfter(j) = "talker"
    BY <1>8 DEF Byte, RoleBefore, RoleAfter, t
  <2>2. role = "none"
    BY <1>1, <2>1
  <2>3. TALK(t)[1] = "talk" /\ (TALK(t) = TALK(e) <=> t = e) /\ TALK(t) # LISTEN(e) /\ TALK(t) # UNLISTEN
    BY <1>2
  <2> QED BY <1>8, <2>1, <2>2, <2>3 DEF NewRole, Opens, role, t
<1>9. CASE j = "untalk"
  <2>1. Byte(j) = UNTALK /\ RoleBefore(j) = "talker" /\ RoleAfter(j) = "none"
    BY <1>9 DEF Byte, RoleBefore, RoleAfter
  <2>2. UNTALK[1] = "talk" /\ UNTALK # LISTEN(e) /\ UNTALK # TALK(e) /\ UNTALK # UNLISTEN
    BY <1>2, <1>3
  <2> QED BY <1>1, <1>9, <2>1, <2>2 DEF NewRole, Opens, role, t
<1> QED BY <1>4, <1>5, <1>6, <1>7, <1>8, <1>9 DEF Jobs

(* A byte with ATN pulled gives the roles that come after it. *)
LEMMA AtnClock ==
  ASSUME Base, NEW j \in Jobs, Before(j), AllAtn({"ready"}), ClockedAs(Byte(j))
  PROVE  /\ Base' /\ After(j)' /\ "DATA" \notin host'
         /\ AllAtn({"hold", "ready", "got"})' /\ Holds(Target(j))'
         /\ \A e \in Devices : Len(dev'[e].heard) <= Len(dev[e].heard)
<1> DEFINE b == Byte(j)
           t == Target(j)
<1>1. b \in Letters
  BY Typed
<1>2. Base' /\ \A e \in Devices : dev'[e] = IF dev[e].state = "ready" THEN Hears(e, b) ELSE dev[e]
  BY <1>1, ClockBase
<1>3. /\ call' = call /\ queue' = queue /\ eoi_pending' = eoi_pending
      /\ buffer' = buffer /\ result' = result /\ terminator' = terminator
      /\ CallKept /\ host' = (host \cup {"CLK"}) \ {"DATA"}
  BY DEF ClockedAs, BytesKept, CallKept, FlagsKept, AnswerKept
<1>4. t' = t
  BY <1>3, SameWords
<1>5. /\ call.op \in CallsOf(j) /\ Quiet /\ RolesAre(t, RoleBefore(j))
      /\ j \in {"talk", "open3"} => Blank
      /\ j \in Second \cup {"unlisten1", "untalk"} => Served
  BY DEF Before
<1>6. ASSUME NEW e \in Devices, dev[e].plugged
      PROVE  /\ dev'[e].plugged /\ dev'[e].atn /\ dev'[e].state = "got" /\ dev'[e].last = FALSE
             /\ dev'[e].role = IF e = t THEN RoleAfter(j) ELSE "none"
             /\ dev'[e].heard = IF j \in {"open1", "open3"} /\ e = t THEN <<>> ELSE dev[e].heard
             /\ dev'[e].sent = IF j \in {"open1", "open3"} /\ e = t THEN 0 ELSE dev[e].sent
  <2>1. dev[e].atn /\ dev[e].state = "ready"
    BY <1>6 DEF AllAtn
  <2>2. dev'[e] = Hears(e, b)
    BY <1>2, <2>1
  <2>3. /\ NewRole(e, b) = IF e = t THEN RoleAfter(j) ELSE "none"
        /\ Opens(e, b) <=> j \in {"open1", "open3"} /\ e = t
    BY <1>5, <1>6, NewRoles
  <2> HIDE DEF b, t
  <2>4. /\ Hears(e, b).plugged /\ Hears(e, b).atn /\ Hears(e, b).state = "got" /\ Hears(e, b).last = FALSE
        /\ Hears(e, b).role = NewRole(e, b)
        /\ Hears(e, b).heard = IF Opens(e, b) THEN <<>> ELSE dev[e].heard
        /\ Hears(e, b).sent = IF Opens(e, b) THEN 0 ELSE dev[e].sent
    BY <1>1, <2>1, HearsAtn
  <2> QED BY <2>2, <2>3, <2>4
<1>7. ASSUME NEW e \in Devices, ~dev[e].plugged
      PROVE  dev'[e] = dev[e] /\ ~dev'[e].plugged /\ dev'[e].role = "none" /\ ~dev'[e].last
  <2>1. dev[e].state = "idle" /\ dev[e].role = "none" /\ ~dev[e].last
    BY <1>7, LowAtn
  <2> QED BY <1>2, <1>7, <2>1
<1> HIDE DEF b, t
<1>8. Quiet'
  <2>1. ASSUME NEW e \in Devices PROVE ~dev'[e].last
    BY <1>6, <1>7
  <2> QED BY <1>3, <1>5, <2>1 DEF Quiet
<1>9. RolesAre(t, RoleAfter(j))'
  <2>1. ASSUME NEW e \in Devices PROVE dev'[e].role = IF dev'[e].plugged /\ e = t THEN RoleAfter(j) ELSE "none"
    BY <1>6, <1>7
  <2> QED BY <1>4, <2>1 DEF RolesAre
<1>10. \A e \in Devices : dev'[e].plugged <=> dev[e].plugged
  BY <1>6, <1>7
<1>11. ASSUME j \in {"open1", "open3"} PROVE Heard(0)' /\ HasSent(0)'
  <2>1. t = call.dev
    BY <1>11 DEF t, Target, Second
  <2>2. Here(call.dev)' => dev'[call.dev].heard = <<>> /\ dev'[call.dev].sent = 0
    BY <1>3, <1>6, <1>10, <1>11, <2>1 DEF Here
  <2>3. Plain(0)' = <<>>
    BY <1>3 DEF Plain
  <2>4. Here(call.dev)' => dev'[call'.dev].heard = Plain(0)' /\ dev'[call'.dev].sent = 0
    BY <1>3, <2>2, <2>3
  <2> QED BY <2>4 DEF Heard, HasSent
<1>12. ASSUME Served, j \in Second \cup {"unlisten1", "untalk"} PROVE Served'
  <2>1. \A e \in Devices : dev[e].plugged => dev'[e].heard = dev[e].heard
    BY <1>6, <1>12 DEF Second
  <2>2. Here(call.dev)' => Here(call.dev) /\ dev'[call.dev].heard = dev[call.dev].heard
    BY <1>3, <1>10, <2>1 DEF Here
  <2> QED BY <1>3, <1>12, <2>2 DEF Served, HeardAll, Answered, Marked, StatusOf, BytesRead, Returned
<1>13. After(j)'
  <2>1. RolesAre(Target(j), RoleAfter(j))'
    BY <1>9 DEF t
  <2>2. Blank => Blank'
    BY <1>3 DEF Blank
  <2> QED BY <1>3, <1>5, <1>8, <1>11, <1>12, <2>1, <2>2 DEF After
<1>14. AllAtn({"hold", "ready", "got"})'
  BY <1>3, <1>6, <1>10 DEF AllAtn
<1>15. Holds(Target(j))'
  <2>1. Holds(t)'
    BY <1>3, <1>4, <1>6, <1>10 DEF Holds, Here
  <2> QED BY <2>1 DEF t
<1>16. ASSUME NEW e \in Devices PROVE Len(dev'[e].heard) <= Len(dev[e].heard)
  <2> DEFINE empty == <<>>
  <2>1. Len(dev[e].heard) \in Nat
    <3>1. dev[e].heard \in Seq([byte : Letters, last : BOOLEAN])
      BY DEF Base, DeviceRecord
    <3> QED BY <3>1, LenProperties
  <2>2. dev'[e].heard = dev[e].heard \/ dev'[e].heard = empty
    BY <1>6, <1>7
  <2>3. Len(empty) = 0
    OBVIOUS
  <2> HIDE DEF empty
  <2> QED BY <2>1, <2>2, <2>3
<1> QED BY <1>2, <1>3, <1>13, <1>14, <1>15, <1>16

(* Where a call is when the byte of a job has arrived, or nobody is there. *)
LEMMA Arrived ==
  ASSUME CallKept, NEW j \in Jobs, After(j)', "DATA" \notin host', todo' = Follow(j), Attentive(Target(j))',
         Here(Target(j))' => "ATN" \in host' /\ dev'[Target(j)].atn
  PROVE  Somewhere'
<1>1. call' = call /\ todo' = Follow(j)' /\ Target(j)' = Target(j)
  <2>1. Follow(j)' = Follow(j) /\ Target(j)' = Target(j)
    BY SameWords
  <2> QED BY <2>1 DEF CallKept
<1>2. /\ (call.op \in CallsOf(j))' /\ Quiet' /\ RolesAre(Target(j), RoleAfter(j))'
      /\ j \in {"talk", "open3"} => Blank'
      /\ j = "open3" => HasSent(0)'
      /\ j \in Second \cup {"unlisten1", "untalk"} => Served'
  BY DEF After
<1>3. CASE j = "listen1"
  <2>1. Before("open1")' /\ Attentive(Target("open1"))'
    BY <1>1, <1>2, <1>3 DEF Before, CallsOf, RoleAfter, RoleBefore, Target, Second
  <2>2. (todo = Atn0(Byte("open1"), Follow("open1")))'
    BY <1>1, <1>3 DEF Follow, Byte
  <2>3. Attending("open1")'
    BY <2>1, <2>2 DEF Attending
  <2> QED BY <2>3 DEF Somewhere, Jobs
<1>4. CASE j = "open1"
  <2>1. Opening'
    BY <1>1, <1>4 DEF Opening, Follow, Target, Second
  <2> QED BY <2>1 DEF Somewhere
<1>5. CASE j = "unlisten1"
  <2>1. Leaving("unlisten1")'
    BY <1>1, <1>5 DEF Leaving, Follow
  <2> QED BY <2>1 DEF Somewhere
<1>6. CASE j = "listen2"
  <2>1. Before("close2")' /\ Attentive(Target("close2"))'
    BY <1>1, <1>2, <1>6 DEF Before, CallsOf, RoleAfter, RoleBefore, Target, Second
  <2>2. (todo = Atn0(Byte("close2"), Follow("close2")))'
    BY <1>1, <1>6 DEF Follow, Byte
  <2>3. Attending("close2")'
    BY <2>1, <2>2 DEF Attending
  <2> QED BY <2>3 DEF Somewhere, Jobs
<1>7. CASE j = "close2"
  <2>1. Before("unlisten2")' /\ Attentive(Target("unlisten2"))'
    BY <1>1, <1>2, <1>7 DEF Before, CallsOf, RoleAfter, RoleBefore, Target, Second
  <2>2. (todo = Closed0)'
    BY <1>1, <1>7 DEF Follow
  <2>3. Closing'
    BY <2>1, <2>2 DEF Closing
  <2> QED BY <2>3 DEF Somewhere
<1>8. CASE j \in {"unlisten2", "untalk"}
  <2>1. (todo = End0(<<>>))'
    BY <1>1, <1>8, Zenon DEF Follow
  <2>2. Leaving(j)'
    BY <1>8, <2>1 DEF Leaving
  <2> QED BY <1>8, <2>2 DEF Somewhere
<1>9. CASE j = "talk"
  <2>1. Before("open3")' /\ Attentive(Target("open3"))'
    BY <1>1, <1>2, <1>9 DEF Before, CallsOf, RoleAfter, RoleBefore, Target, Second
  <2>2. (todo = Atn0(Byte("open3"), Follow("open3")))'
    BY <1>1, <1>9 DEF Follow, Byte
  <2>3. Attending("open3")'
    BY <2>1, <2>2 DEF Attending
  <2> QED BY <2>3 DEF Somewhere, Jobs
<1>10. CASE j = "open3"
  <2>1. Target(j) = call.dev
    BY <1>10 DEF Target, Second
  <2>2. Talking' /\ Blank' /\ HasSent(0)'
    BY <1>1, <1>2, <1>10, <2>1 DEF Talking, CallsOf, RoleAfter, RolesAre, Second
  <2>3. (todo = Turn0(call.count))' /\ (Here(call.dev)' => "ATN" \in host' /\ dev'[call.dev].atn)
    BY <1>1, <1>10, <2>1 DEF Follow
  <2>4. (Here(call.dev) => "ATN" \in host /\ dev[call.dev].atn)'
    BY <1>1, <2>3
  <2>5. Turning'
    BY <2>2, <2>3, <2>4 DEF Turning
  <2> QED BY <2>5 DEF Somewhere
<1> QED BY <1>3, <1>4, <1>5, <1>6, <1>7, <1>8, <1>9, <1>10 DEF Jobs

(* A step in which only the device that a message is for hears something. *)
Heeds ==
  \A e \in Devices : Len(dev'[e].heard) > Len(dev[e].heard) =>
    call.op = "print" /\ call.dev = e /\ Len(dev'[e].heard) <= Len(call.msg)

(* A step that makes nobody hear anything makes nobody hear what is not for it. *)
LEMMA HeedsWhen ==
  ASSUME Base, Base',
         DevicesKept \/ \A e \in Devices : Len(dev'[e].heard) <= Len(dev[e].heard)
  PROVE  Heeds
<1>1. ASSUME NEW e \in Devices PROVE Len(dev[e].heard) \in Nat /\ Len(dev'[e].heard) \in Nat
  <2>1. /\ dev[e].heard \in Seq([byte : Letters, last : BOOLEAN])
        /\ dev'[e].heard \in Seq([byte : Letters, last : BOOLEAN])
    BY DEF Base, DeviceRecord
  <2> QED BY <2>1, LenProperties
<1>2. ASSUME NEW e \in Devices PROVE ~(Len(dev'[e].heard) > Len(dev[e].heard))
  <2>1. DevicesKept => Len(dev'[e].heard) = Len(dev[e].heard)
    BY DEF DevicesKept
  <2> QED BY <1>1, <2>1
<1> QED BY <1>2 DEF Heeds

(* The controller pulls no other lines. *)
LEMMA LinesAre ==
  ASSUME Base
  PROVE  /\ host \subseteq {"ATN", "CLK", "DATA"}
         /\ host \cup {"CLK"} \subseteq {"ATN", "CLK", "DATA"}
         /\ host \cup {"DATA"} \subseteq {"ATN", "CLK", "DATA"}
         /\ host \ {"ATN"} \subseteq {"ATN", "CLK", "DATA"}
         /\ host \ {"CLK"} \subseteq {"ATN", "CLK", "DATA"}
         /\ host \ {"DATA"} \subseteq {"ATN", "CLK", "DATA"}
         /\ (host \cup {"ATN", "CLK"}) \ {"DATA"} \subseteq {"ATN", "CLK", "DATA"}
BY DEF Base, TypeOK

(* The controller sends a byte with ATN pulled, or finds that nobody is there. *)
LEMMA AttendingNext ==
  ASSUME Base, NEW j \in Jobs, Attending(j), Controller
  PROVE  Base' /\ Somewhere' /\ Heeds
<1> DEFINE b == Byte(j)
           k == Follow(j)
           t == Target(j)
<1>1. b \in Letters /\ k \in Seq(Steps)
  BY Typed
<1>2. /\ Atn2(b, k) \in Seq(Steps) /\ Atn1(b, k) \in Seq(Steps) /\ Send1(b, k) \in Seq(Steps)
      /\ Send2(b, k) \in Seq(Steps) /\ Send3(b, k) \in Seq(Steps) /\ Clock1(b, k) \in Seq(Steps)
  <2> HIDE DEF b, k
  <2> QED BY <1>1, Rests
<1>3. Before(j)
  BY DEF Attending
<1>4. ASSUME CallKept PROVE b' = b /\ k' = k /\ t' = t
  BY <1>4, SameWords
<1>5. ASSUME DevicesKept, BytesKept, host' \subseteq {"ATN", "CLK", "DATA"}
      PROVE  /\ Base' /\ Heeds /\ Before(j)' /\ b' = b /\ k' = k
             /\ Attending(j)' => Somewhere'
             /\ "CLK" \in host' => (Holds(t) => Holds(t)')
             /\ "ATN" \in host' => \A S : AllAtn(S) => AllAtn(S)'
  <2>1. Base' /\ Heeds
    BY <1>5, UnmovedBase, HeedsWhen
  <2>2. CallKept /\ AnswerKept /\ queue' = queue /\ eoi_pending' = eoi_pending
    BY <1>5 DEF BytesKept, FlagsKept
  <2>3. Before(j)'
    BY <1>3, <1>5, <2>2, Untouched
  <2> QED BY <1>4, <1>5, <2>1, <2>2, <2>3, Unmoved DEF Somewhere
<1>6. /\ Low("ATN") <=> "ATN" \in host
      /\ host \subseteq {"ATN", "CLK", "DATA"} /\ host \ {"CLK"} \subseteq {"ATN", "CLK", "DATA"}
      /\ (host \cup {"ATN", "CLK"}) \ {"DATA"} \subseteq {"ATN", "CLK", "DATA"}
      /\ \A e \in Devices : Fit(dev[e]) /\ dev[e].atn \in BOOLEAN
  BY LowAtn, LinesAre DEF Base, DeviceRecord
<1>7. CASE todo = Atn0(b, k) /\ Attentive(t)
  <2>1. todo = Then(<<"attention">>, Atn1(b, k))
    BY <1>7, Zenon DEF Atn0
  <2>2. host' = (host \cup {"ATN", "CLK"}) \ {"DATA"} /\ todo' = Atn1(b, k) /\ DevicesKept /\ BytesKept
    BY <1>2, <2>1, OnLine
  <2>3. Base' /\ Heeds /\ Before(j)' /\ b' = b /\ k' = k /\ (Attending(j)' => Somewhere')
    BY <1>5, <1>6, <2>2
  <2>4. "ATN" \in host' /\ "CLK" \in host'
    BY <2>2
  <2>5. Holds(t)'
    <3>1. t' = t /\ dev' = dev
      BY <1>4, <2>2 DEF BytesKept, DevicesKept
    <3> HIDE DEF t
    <3> QED BY <1>7, <2>4, <3>1 DEF Attentive, Holds, Here
  <2>6. (todo = Atn1(b, k))'
    BY <2>2, <2>3
  <2> QED BY <2>3, <2>4, <2>5, <2>6 DEF Attending
<1>8. CASE todo = Atn1(b, k) /\ "ATN" \in host /\ Holds(t)
  <2>1. todo = Then(Sleep, Atn2(b, k))
    BY <1>8 DEF Atn1
  <2>2. Settled /\ host' = host /\ todo' = Atn2(b, k) /\ DevicesKept /\ BytesKept
    BY <1>2, <2>1, OnSleep
  <2>3. Base' /\ Heeds /\ Before(j)' /\ b' = b /\ k' = k /\ (Attending(j)' => Somewhere')
    BY <1>5, <1>6, <2>2
  <2>4. AllAtn({"hold", "ready"})
    <3>1. ASSUME NEW e \in Devices, dev[e].plugged PROVE dev[e].atn /\ dev[e].state \in {"hold", "ready"}
      <4>1. dev[e].atn /\ dev[e].state # "got"
        BY <1>6, <1>8, <2>2, <3>1 DEF Settled, Owes
      <4> QED BY <1>6, <4>1 DEF Fit
    <3> QED BY <1>8, <3>1 DEF AllAtn
  <2>5. AllAtn({"hold", "ready"})' /\ Holds(t)'
    BY <1>5, <1>6, <1>8, <2>2, <2>4 DEF Holds
  <2>6. (todo = Atn2(b, k))'
    BY <2>2, <2>3
  <2> QED BY <2>3, <2>5, <2>6 DEF Attending
<1>9. CASE todo = Atn2(b, k) /\ AllAtn({"hold", "ready"}) /\ Holds(t)
  <2>1. /\ host' = host /\ DevicesKept /\ CallKept /\ AnswerKept
        /\ queue' = queue /\ rx_eoi' = rx_eoi
        /\ \/ Low("DATA") /\ eoi_pending' = FALSE /\ todo' = Send0(b, k)
           \/ ~Low("DATA") /\ eoi_pending' = eoi_pending /\ todo' = Then(Free("ATN"), k)
    BY <1>1, <1>9, OnProbe
  <2>2. eoi_pending = FALSE
    BY <1>3 DEF Before, Quiet
  <2>3. eoi_pending' = eoi_pending
    BY <2>1, <2>2
  <2>4. DevicesKept /\ BytesKept
    BY <2>1, <2>3 DEF BytesKept, FlagsKept
  <2>5. Base' /\ Heeds /\ Before(j)' /\ b' = b /\ k' = k /\ (Attending(j)' => Somewhere')
    BY <1>5, <1>6, <2>1, <2>4
  <2>6. CASE Low("DATA") /\ todo' = Send0(b, k)
    <3>1. AllAtn({"hold", "ready"})'
      BY <1>5, <1>6, <1>9, <2>1, <2>4 DEF AllAtn
    <3>2. (todo = Send0(b, k))'
      BY <2>5, <2>6
    <3> QED BY <2>5, <3>1, <3>2 DEF Attending
  <2>7. CASE ~Low("DATA") /\ todo' = Then(Free("ATN"), k)
    <3>1. ~Here(t)
      <4> SUFFICES ASSUME t \in Devices, dev[t].plugged PROVE FALSE
        BY DEF Here
      <4>1. dev[t].state = "hold"
        BY <1>9 DEF AllAtn, Holds, Here
      <4>2. "DATA" \in dev[t].pull
        BY <1>6, <4>1 DEF Fit, PullOf
      <4> QED BY <2>7, <4>2 DEF Low
    <3>2. "DATA" \notin host'
      BY <2>1, <2>7 DEF Low
    <3>3. ~Here(t)' /\ (todo = Then(Free("ATN"), k))'
      BY <2>1, <2>4, <2>5, <2>7, <3>1, Unmoved
    <3>4. After(j)'
      <4>1. Blank' \/ j \notin {"talk", "open3"}
        BY <2>5 DEF Before
      <4>2. RolesAre(t, RoleAfter(j))'
        <5>1. RolesAre(t, RoleBefore(j))'
          BY <2>5 DEF Before
        <5> QED BY <3>3, <5>1 DEF RolesAre, Here
      <4>3. j \in {"open1", "open3"} => Heard(0)' /\ HasSent(0)'
        <5>1. j \in {"open1", "open3"} => t' = call'.dev
          BY DEF Target, Second
        <5> HIDE DEF t
        <5> QED BY <3>3, <5>1 DEF Heard, HasSent
      <4> QED BY <2>5, <4>1, <4>2, <4>3 DEF Before, After
    <3>5. Attended(j)'
      BY <3>2, <3>3, <3>4 DEF Attended
    <3> QED BY <2>5, <3>5 DEF Somewhere
  <2> QED BY <2>1, <2>6, <2>7
<1>10. CASE todo \in {Send0(b, k), Send1(b, k)} /\ AllAtn({"hold", "ready"})
  <2>1. /\ todo = Send0(b, k) => todo = Then(Sleep, Send1(b, k))
        /\ todo = Send1(b, k) => todo = Then(Free("CLK"), Send2(b, k))
    BY DEF Send0, Send1
  <2>2. /\ DevicesKept /\ BytesKept /\ todo' \in {Send1(b, k), Send2(b, k)}
        /\ host' \subseteq {"ATN", "CLK", "DATA"} /\ ("ATN" \in host' <=> "ATN" \in host)
    BY <1>2, <1>6, <1>10, <2>1, OnLine, OnSleep
  <2>3. Base' /\ Heeds /\ Before(j)' /\ b' = b /\ k' = k /\ (Attending(j)' => Somewhere')
    BY <1>5, <2>2
  <2>4. AllAtn({"hold", "ready"})'
    BY <1>5, <1>10, <2>2 DEF AllAtn
  <2>5. (todo \in {Send1(b, k), Send2(b, k)})'
    BY <2>2, <2>3
  <2> QED BY <2>3, <2>4, <2>5 DEF Attending
<1>11. CASE todo = Send2(b, k) /\ AllAtn({"hold", "ready"})
  <2>1. todo = Then(Until("DATA", "high"), Send3(b, k))
    BY <1>11 DEF Send2
  <2>2. Low("DATA") = ("high" = "low") /\ host' = host /\ todo' = Send3(b, k) /\ DevicesKept /\ BytesKept
    BY <1>2, <2>1, OnUntil
  <2>3. Base' /\ Heeds /\ Before(j)' /\ b' = b /\ k' = k /\ (Attending(j)' => Somewhere')
    BY <1>5, <1>6, <2>2
  <2>4. AllAtn({"ready"})
    <3>1. ASSUME NEW e \in Devices, dev[e].plugged PROVE dev[e].atn /\ dev[e].state = "ready"
      <4>1. dev[e].atn /\ dev[e].state \in {"hold", "ready"}
        BY <1>11, <3>1 DEF AllAtn
      <4>2. "DATA" \notin dev[e].pull
        BY <2>2 DEF Low
      <4> QED BY <1>6, <4>1, <4>2 DEF Fit, PullOf
    <3> QED BY <1>11, <3>1 DEF AllAtn
  <2>5. AllAtn({"ready"})'
    BY <1>5, <1>6, <1>11, <2>2, <2>4 DEF AllAtn
  <2>6. (todo = Send3(b, k))'
    BY <2>2, <2>3
  <2> QED BY <2>3, <2>5, <2>6 DEF Attending
<1>12. CASE todo \in {Send3(b, k), Clock0(b, k)} /\ AllAtn({"ready"})
  <2>1. /\ todo' \in {Clock0(b, k), Clock1(b, k)}
        /\ host' = host /\ DevicesKept /\ BytesKept
    <3>1. CASE todo = Send3(b, k)
      <4>1. eoi_pending = FALSE
        BY <1>3 DEF Before, Quiet
      <4> QED BY <1>1, <3>1, <4>1, OnReady
    <3>2. CASE todo = Clock0(b, k)
      <4>1. todo = Then(Sleep, Clock1(b, k))
        BY <3>2 DEF Clock0
      <4> QED BY <1>2, <4>1, OnSleep
    <3> QED BY <1>12, <3>1, <3>2
  <2>2. Base' /\ Heeds /\ Before(j)' /\ b' = b /\ k' = k /\ (Attending(j)' => Somewhere')
    BY <1>5, <1>6, <2>1
  <2>3. AllAtn({"ready"})'
    BY <1>5, <1>6, <1>12, <2>1 DEF AllAtn
  <2>4. (todo \in {Clock0(b, k), Clock1(b, k)})'
    BY <2>1, <2>2
  <2> QED BY <2>2, <2>3, <2>4 DEF Attending
<1>13. CASE todo = Clock1(b, k) /\ AllAtn({"ready"})
  <2>1. ClockedAs(b) /\ todo' = Clock2(k)
    BY <1>1, <1>13, OnClock DEF ClockedAs
  <2>2. /\ Base' /\ After(j)' /\ "DATA" \notin host'
        /\ AllAtn({"hold", "ready", "got"})' /\ Holds(t)'
        /\ \A e \in Devices : Len(dev'[e].heard) <= Len(dev[e].heard)
    BY <1>3, <1>13, <2>1, AtnClock
  <2>3. (todo = Clock2(k))'
    BY <1>4, <2>1 DEF ClockedAs, BytesKept
  <2>4. Attended(j)'
    BY <2>2, <2>3 DEF Attended
  <2> QED BY <2>2, <2>4, HeedsWhen DEF Somewhere
<1> QED BY <1>7, <1>8, <1>9, <1>10, <1>11, <1>12, <1>13 DEF Attending

(* The byte is accepted, or ATN is freed. *)
LEMMA AttendedNext ==
  ASSUME Base, NEW j \in Jobs, Attended(j), Controller
  PROVE  Base' /\ Somewhere' /\ Heeds
<1> DEFINE k == Follow(j)
           t == Target(j)
<1>1. k \in Seq(Steps)
  BY Typed
<1>2. ASSUME DevicesKept, BytesKept, host' \subseteq host, todo' = k
      PROVE  /\ Base' /\ Heeds /\ After(j)' /\ t' = t /\ dev' = dev /\ "DATA" \notin host'
             /\ Here(t)' => Here(t)
             /\ Attentive(t)' /\ (Here(t)' => "ATN" \in host' /\ dev'[t].atn) => Somewhere'
  <2>1. Base' /\ Heeds
    <3>1. host' \subseteq {"ATN", "CLK", "DATA"}
      BY <1>2, LinesAre
    <3> QED BY <1>2, <3>1, UnmovedBase, HeedsWhen
  <2>2. CallKept /\ AnswerKept /\ queue' = queue /\ eoi_pending' = eoi_pending /\ dev' = dev
    BY <1>2 DEF BytesKept, FlagsKept, DevicesKept
  <2>3. After(j)'
    BY <1>2, <2>2, Untouched DEF Attended
  <2>4. t' = t
    BY <2>2, SameWords
  <2>5. Here(t)' => Here(t)
    BY <1>2, <2>2, Unmoved
  <2>6. "DATA" \notin host'
    BY <1>2 DEF Attended
  <2>7. Attentive(t)' /\ (Here(t)' => "ATN" \in host' /\ dev'[t].atn) => Somewhere'
    BY <1>2, <2>2, <2>3, <2>6, Arrived
  <2> QED BY <2>1, <2>2, <2>3, <2>4, <2>5, <2>6, <2>7
<1>3. CASE todo = Clock2(k) /\ AllAtn({"hold", "ready", "got"}) /\ Holds(t)
  <2>1. todo = Then(Until("DATA", "low"), k)
    BY <1>3 DEF Clock2
  <2>2. host' = host /\ todo' = k /\ DevicesKept /\ BytesKept
    BY <1>1, <2>1, OnUntil
  <2>3. host' \subseteq host
    BY <2>2
  <2>4. Holds(t)'
    <3>1. "CLK" \in host'
      BY <1>3, <2>2 DEF Holds
    <3> QED BY <1>3, <2>2, <3>1, Unmoved DEF BytesKept
  <2>5. Attentive(t)'
    BY <2>4 DEF Attentive
  <2>6. Here(t)' => "ATN" \in host' /\ dev'[t].atn
    <3>1. Here(t) => "ATN" \in host /\ dev[t].atn
      BY <1>3 DEF AllAtn, Here
    <3> QED BY <1>2, <2>2, <2>3, <3>1
  <2> QED BY <1>2, <2>2, <2>3, <2>5, <2>6
<1>4. CASE todo = Then(Free("ATN"), k) /\ ~Here(t)
  <2>1. host' = host \ {"ATN"} /\ todo' = k /\ DevicesKept /\ BytesKept
    BY <1>1, <1>4, OnLine
  <2>2. host' \subseteq host
    BY <2>1
  <2>3. ~Here(t)'
    BY <1>2, <1>4, <2>1, <2>2
  <2>4. Attentive(t)'
    BY <2>3 DEF Attentive
  <2> QED BY <1>2, <2>1, <2>2, <2>3, <2>4
<1> QED BY <1>3, <1>4 DEF Attended

(* The lines are freed before a device is called. *)
LEMMA CallingNext ==
  ASSUME Base, NEW j \in {"listen1", "listen2", "talk"}, Calling(j), Controller
  PROVE  Base' /\ Somewhere' /\ Heeds
<1> DEFINE b == Byte(j)
           k == Follow(j)
           t == Target(j)
<1>0. j \in Jobs
  BY DEF Jobs
<1>1. b \in Letters /\ k \in Seq(Steps)
  BY <1>0, Typed
<1>2. Atn0(b, k) \in Seq(Steps) /\ Call1(b, k) \in Seq(Steps) /\ Call2(b, k) \in Seq(Steps)
  <2> HIDE DEF b, k
  <2> QED BY <1>1, Rests
<1>3. /\ todo = Call0(b, k) => todo = Then(<<"flush">>, Call1(b, k))
      /\ todo = Call1(b, k) => todo = Then(Free("DATA"), Call2(b, k))
      /\ todo = Call2(b, k) => todo = Then(Free("CLK"), Atn0(b, k))
  BY Zenon DEF Call0, Call1, Call2
<1>4. queue = None /\ Before(j) /\ Off
  BY DEF Calling, Before, Quiet
<1>5. todo' \in {Call1(b, k), Call2(b, k), Atn0(b, k)} /\ DevicesKept /\ BytesKept /\ host' \subseteq host
  <2>1. CASE todo = Call0(b, k)
    <3>1. /\ host' = host /\ DevicesKept /\ CallKept /\ AnswerKept /\ rx_eoi' = rx_eoi
          /\ queue' = None /\ eoi_pending' = eoi_pending /\ todo' = Call1(b, k)
      BY <1>2, <1>3, <1>4, <2>1, OnFlush
    <3> QED BY <1>4, <3>1 DEF BytesKept, FlagsKept
  <2>2. CASE todo = Call1(b, k)
    BY <1>2, <1>3, <2>2, OnLine
  <2>3. CASE todo = Call2(b, k)
    BY <1>2, <1>3, <2>3, OnLine
  <2> QED BY <2>1, <2>2, <2>3 DEF Calling
<1>6. Base' /\ Heeds
  <2>1. host' \subseteq {"ATN", "CLK", "DATA"}
    BY <1>5, LinesAre
  <2> QED BY <1>5, <2>1, UnmovedBase, HeedsWhen
<1>7. CallKept /\ AnswerKept /\ queue' = queue /\ eoi_pending' = eoi_pending
  BY <1>5 DEF BytesKept, FlagsKept
<1>8. Before(j)'
  BY <1>0, <1>4, <1>5, <1>7, Untouched
<1>9. Off'
  <2>1. "ATN" \notin host'
    BY <1>4, <1>5 DEF Off
  <2> QED BY <1>4, <1>5, <1>7, <2>1, Unmoved
<1>10. (todo \in {Call1(b, k), Call2(b, k), Atn0(b, k)})'
  <2>1. b' = b /\ k' = k
    BY <1>0, <1>7, SameWords
  <2> QED BY <1>5, <2>1
<1>11. CASE (todo = Atn0(b, k))'
  <2>1. Attentive(t)'
    BY <1>9 DEF Off, Attentive, Here
  <2>2. Attending(j)'
    BY <1>8, <1>11, <2>1 DEF Attending
  <2> QED BY <1>0, <1>6, <2>2 DEF Somewhere
<1>12. CASE (todo \in {Call1(b, k), Call2(b, k)})'
  <2>1. Calling(j)'
    BY <1>8, <1>9, <1>12 DEF Calling
  <2> QED BY <1>6, <2>1 DEF Somewhere
<1> QED BY <1>10, <1>11, <1>12

(* The lines are freed at the end of a call. *)
LEMMA LeavingNext ==
  ASSUME Base, NEW j \in {"unlisten1", "unlisten2", "untalk"}, Leaving(j), Controller
  PROVE  Base' /\ Somewhere' /\ Heeds
<1> DEFINE none == <<>>
           k == IF j = "unlisten1" THEN Close0(4) ELSE none
<1>0. j \in Jobs /\ none = <<>>
  BY DEF Jobs
<1>1. k \in Seq(Steps)
  <2>1. Close0(4) \in Seq(Steps) /\ none \in Seq(Steps)
    BY CallRests
  <2> QED BY <2>1
<1>2. /\ After(j)
      /\ \/ todo = End0(k)
         \/ todo = End1(k) /\ "ATN" \notin host
         \/ todo \in {End2(k), End3(k)} /\ Off
  BY DEF Leaving
<1>3. k' = k
  OBVIOUS
<1>4. (todo = End0(k) \/ (todo = End1(k) /\ "ATN" \notin host) \/ (todo \in {End2(k), End3(k)} /\ Off))'
        /\ After(j)' => Leaving(j)'
  BY DEF Leaving
<1>5. j = "unlisten1" => k = Close0(4)
  OBVIOUS
<1>6. j # "unlisten1" => k = none
  OBVIOUS
<1> HIDE DEF k, none
<1>7. /\ todo = End0(k) => todo = Then(Free("ATN"), End1(k))
      /\ todo = End1(k) => todo = Then(Sleep, End2(k))
      /\ todo = End2(k) => todo = Then(Free("CLK"), End3(k))
      /\ todo = End3(k) => todo = Then(Free("DATA"), k)
      /\ End1(k) \in Seq(Steps) /\ End2(k) \in Seq(Steps) /\ End3(k) \in Seq(Steps)
  <2>1. UNLISTEN \in Letters
    BY LetterNames
  <2> QED BY <1>1, <2>1, Rests DEF End0, End1, End2, End3
<1>8. ASSUME DevicesKept, BytesKept, host' \subseteq host
      PROVE  Base' /\ Heeds /\ After(j)' /\ (Off => Off')
  <2>1. Base' /\ Heeds
    <3>1. host' \subseteq {"ATN", "CLK", "DATA"}
      BY <1>8, LinesAre
    <3> QED BY <1>8, <3>1, UnmovedBase, HeedsWhen
  <2>2. CallKept /\ AnswerKept /\ queue' = queue /\ eoi_pending' = eoi_pending
    BY <1>8 DEF BytesKept, FlagsKept
  <2>3. After(j)'
    BY <1>0, <1>2, <1>8, <2>2, Untouched
  <2>4. Off => Off'
    <3>1. Off => "ATN" \notin host'
      BY <1>8 DEF Off
    <3> QED BY <1>8, <2>2, <3>1, Unmoved
  <2> QED BY <2>1, <2>3, <2>4
<1>9. CASE todo = End0(k)
  <2>1. host' = host \ {"ATN"} /\ todo' = End1(k) /\ DevicesKept /\ BytesKept
    BY <1>7, <1>9, OnLine
  <2>2. Base' /\ Heeds /\ After(j)' /\ "ATN" \notin host' /\ todo' = End1(k)'
    BY <1>3, <1>8, <2>1
  <2>3. Leaving(j)'
    BY <1>4, <2>2
  <2> QED BY <2>2, <2>3 DEF Somewhere
<1>10. CASE todo = End1(k) /\ "ATN" \notin host
  <2>1. Settled /\ host' = host /\ todo' = End2(k) /\ DevicesKept /\ BytesKept
    BY <1>7, <1>10, OnSleep
  <2>2. Off
    <3>1. ASSUME NEW e \in Devices PROVE ~dev[e].atn
      <4>1. ~Low("ATN") /\ (~dev[e].plugged => ~dev[e].atn) /\ dev[e].atn \in BOOLEAN
        BY <1>10, LowAtn DEF Base, DeviceRecord
      <4> QED BY <2>1, <4>1 DEF Settled, Owes
    <3> QED BY <1>10, <3>1 DEF Off
  <2>3. Base' /\ Heeds /\ After(j)' /\ Off' /\ todo' = End2(k)'
    BY <1>3, <1>8, <2>1, <2>2
  <2>4. Leaving(j)'
    BY <1>4, <2>3
  <2> QED BY <2>3, <2>4 DEF Somewhere
<1>11. CASE todo = End2(k) /\ Off
  <2>1. host' = host \ {"CLK"} /\ todo' = End3(k) /\ DevicesKept /\ BytesKept
    BY <1>7, <1>11, OnLine
  <2>2. Base' /\ Heeds /\ After(j)' /\ Off' /\ todo' = End3(k)'
    BY <1>3, <1>8, <1>11, <2>1
  <2>3. Leaving(j)'
    BY <1>4, <2>2
  <2> QED BY <2>2, <2>3 DEF Somewhere
<1>12. CASE todo = End3(k) /\ Off
  <2>1. host' = host \ {"DATA"} /\ todo' = k /\ DevicesKept /\ BytesKept
    BY <1>1, <1>7, <1>12, OnLine
  <2>2. Base' /\ Heeds /\ After(j)' /\ Off' /\ "DATA" \notin host' /\ call' = call
    BY <1>8, <1>12, <2>1 DEF BytesKept, CallKept
  <2>3. /\ (call.op \in CallsOf(j))' /\ Quiet' /\ Served'
        /\ \A e \in Devices : dev'[e].role = "none"
    BY <2>2 DEF After, RolesAre, RoleAfter, Second
  <2>4. CASE j = "unlisten1"
    <3>1. call'.op = "print" /\ Target("listen2")' = 4
      BY <2>3, <2>4 DEF CallsOf, Target, Second
    <3>2. Before("listen2")'
      BY <2>3, <3>1 DEF Before, CallsOf, RoleBefore, RolesAre, Second
    <3>3. Byte("listen2")' = LISTEN(4) /\ Follow("listen2")' = Atn0(CLOSE(1), Closed0)
      BY <3>1 DEF Byte, Follow
    <3>4. todo' = Call0(LISTEN(4), Atn0(CLOSE(1), Closed0))
      BY <1>5, <2>1, <2>4 DEF Close0
    <3>5. todo' = Call0(Byte("listen2"), Follow("listen2"))'
      BY <3>3, <3>4
    <3>6. Calling("listen2")'
      BY <2>2, <3>2, <3>5 DEF Calling
    <3> QED BY <2>2, <3>6 DEF Somewhere
  <2>5. CASE j # "unlisten1"
    <3>1. todo' = none
      BY <1>6, <2>1, <2>5
    <3>2. (todo = <<>>)'
      BY <1>0, <3>1, Zenon
    <3>3. RolesAre(0, "none")'
      BY <2>3 DEF RolesAre
    <3>4. Finished'
      BY <2>2, <2>3, <3>2, <3>3 DEF Finished
    <3> QED BY <2>2, <3>4 DEF Somewhere
  <2> QED BY <2>4, <2>5
<1> QED BY <1>2, <1>9, <1>10, <1>11, <1>12

(* A step that only changes lines. *)
LEMMA PlainStep ==
  ASSUME Base, DevicesKept, BytesKept, host' \subseteq {"ATN", "CLK", "DATA"}
  PROVE  /\ Base' /\ Heeds /\ CallKept /\ AnswerKept
         /\ queue' = queue /\ eoi_pending' = eoi_pending /\ rx_eoi' = rx_eoi
         /\ dev' = dev /\ call' = call
         /\ Quiet => Quiet'
         /\ Served => Served'
<1>1. Base' /\ Heeds
  BY UnmovedBase, HeedsWhen
<1>2. /\ CallKept /\ AnswerKept /\ dev' = dev /\ call' = call
      /\ queue' = queue /\ eoi_pending' = eoi_pending /\ rx_eoi' = rx_eoi
  BY DEF BytesKept, FlagsKept, CallKept, DevicesKept
<1> QED BY <1>1, <1>2, Untouched

(* iec_init leaves DATA and ATN free. *)
LEMMA InitialisingNext ==
  ASSUME Base, Initialising, Controller
  PROVE  Base' /\ Somewhere' /\ Heeds
<1> DEFINE none == <<>>
<1>1. /\ Io0 = Then(Sleep, Io1) /\ Io1 = Then(Free("ATN"), Io2) /\ Io2 = Then(Free("DATA"), Io3)
      /\ Io3 = Then(Pull("CLK"), Io4) /\ Io4 = Then(Sleep, none) /\ none = <<>>
  BY Zenon DEF Io0, Io1, Io2, Io3, Io4
<1>2. /\ Io1 \in Seq(Steps) /\ Io2 \in Seq(Steps) /\ Io3 \in Seq(Steps) /\ Io4 \in Seq(Steps)
      /\ none \in Seq(Steps)
  BY CallRests
<1> HIDE DEF none
<1>3. call.op = "init" /\ Off /\ Quiet /\ RolesAre(0, "none") /\ "ATN" \notin host
  BY DEF Initialising, Off
<1>4. /\ DevicesKept /\ BytesKept
      /\ \/ todo' \in {Io1, Io2} /\ host' \subseteq host
         \/ todo' = Io3 /\ host' = host \ {"DATA"}
         \/ todo' = Io4 /\ host' = host \cup {"CLK"} /\ "DATA" \notin host
         \/ todo' = none /\ host' = host /\ "DATA" \notin host
  <2>1. CASE todo = Io0
    BY <1>1, <1>2, <2>1, OnSleep
  <2>2. CASE todo = Io1
    BY <1>1, <1>2, <2>2, OnLine
  <2>3. CASE todo = Io2
    BY <1>1, <1>2, <2>3, OnLine
  <2>4. CASE todo = Io3 /\ "DATA" \notin host
    BY <1>1, <1>2, <2>4, OnLine
  <2>5. CASE todo = Io4 /\ "DATA" \notin host
    BY <1>1, <1>2, <2>5, OnSleep
  <2> QED BY <2>1, <2>2, <2>3, <2>4, <2>5 DEF Initialising
<1>5. "ATN" \notin host' /\ host' \subseteq {"ATN", "CLK", "DATA"}
  BY <1>3, <1>4, LinesAre
<1>6. Base' /\ Heeds /\ CallKept /\ call' = call /\ Quiet'
  BY <1>3, <1>4, <1>5, PlainStep
<1>7. Off' /\ RolesAre(0, "none")'
  BY <1>3, <1>4, <1>5, <1>6, Unmoved
<1>8. CASE todo' = none
  <2>1. Served' /\ (todo = <<>>)' /\ "DATA" \notin host'
    BY <1>1, <1>3, <1>4, <1>6, <1>8, CallRests DEF Served, Io1, Io2, Io3, Io4, Then
  <2> QED BY <1>6, <1>7, <2>1 DEF Finished, Somewhere
<1>9. CASE todo' # none
  <2>1. Initialising'
    BY <1>3, <1>4, <1>6, <1>7, <1>9 DEF Initialising
  <2> QED BY <1>6, <2>1 DEF Somewhere
<1> QED BY <1>8, <1>9

(* iec_close has the device stop listening. *)
LEMMA ClosingNext ==
  ASSUME Base, Closing, Controller
  PROVE  Base' /\ Somewhere' /\ Heeds
<1> DEFINE j == "unlisten2"
           none == <<>>
           t == Target(j)
           k == Atn0(UNLISTEN, End0(none))
<1>0. j \in Jobs /\ none = <<>> /\ Byte(j) = UNLISTEN /\ Follow(j) = End0(none)
  BY DEF Jobs, Byte, Follow
<1>1. Closed0 = Then(Free("ATN"), Closed1) /\ Closed1 = Then(<<"flush">>, k)
  BY Zenon DEF Closed0, Closed1, Unlisten0
<1>2. Closed1 \in Seq(Steps) /\ k \in Seq(Steps)
  <2>1. UNLISTEN \in Letters /\ none \in Seq(Steps)
    BY LetterNames, CallRests
  <2> HIDE DEF none
  <2>2. End0(none) \in Seq(Steps)
    BY <2>1, Rests
  <2> QED BY <2>1, <2>2, Rests, CallRests
<1>3. Before(j) /\ Attentive(t) /\ queue = None
  BY DEF Closing, Before, Quiet
<1> HIDE DEF k
<1>4. /\ DevicesKept /\ BytesKept
      /\ todo = Closed0 => todo' = Closed1 /\ host' = host \ {"ATN"}
      /\ todo # Closed0 => todo' = k /\ host' = host
  <2>1. CASE todo = Closed0
    BY <1>1, <1>2, <2>1, OnLine
  <2>2. CASE todo # Closed0
    <3>1. /\ host' = host /\ DevicesKept /\ CallKept /\ AnswerKept /\ rx_eoi' = rx_eoi
          /\ queue' = None /\ eoi_pending' = eoi_pending /\ todo' = k
      BY <1>1, <1>2, <1>3, <2>2, OnFlush DEF Closing
    <3> QED BY <1>3, <2>2, <3>1 DEF BytesKept, FlagsKept
  <2> QED BY <2>1, <2>2
<1>5. host' \subseteq host
  BY <1>4
<1>6. host' \subseteq {"ATN", "CLK", "DATA"} /\ ("CLK" \in host => "CLK" \in host') /\ ("ATN" \in host' => "ATN" \in host)
  BY <1>4, <1>5, LinesAre
<1>7. Base' /\ Heeds /\ CallKept /\ AnswerKept /\ queue' = queue /\ eoi_pending' = eoi_pending
  BY <1>4, <1>6, PlainStep
<1>8. Before(j)' /\ Attentive(t)'
  BY <1>0, <1>3, <1>4, <1>6, <1>7, Unmoved, Untouched
<1>9. CASE todo = Closed0
  <2>1. (todo = Closed1)'
    BY <1>4, <1>9
  <2>2. Closing'
    BY <1>8, <2>1 DEF Closing
  <2> QED BY <1>7, <2>2 DEF Somewhere
<1>10. CASE todo # Closed0
  <2>1. Byte(j)' = UNLISTEN /\ Follow(j)' = End0(none)
    BY DEF Byte, Follow
  <2>2. (todo = Atn0(Byte(j), Follow(j)))'
    BY <1>4, <1>10, <2>1 DEF k
  <2>3. Attending(j)'
    BY <1>8, <2>2 DEF Attending
  <2> QED BY <1>0, <1>7, <2>3 DEF Somewhere
<1> QED BY <1>9, <1>10

(* ATN is freed before the message. *)
LEMMA OpeningNext ==
  ASSUME Base, Opening, Controller
  PROVE  Base' /\ Somewhere' /\ Heeds
<1>1. todo = Then(Free("ATN"), Out0(call.msg, 1)) /\ Out0(call.msg, 1) \in Seq(Steps)
  BY Typed DEF Opening, Opened0
<1>2. /\ call.op = "print" /\ Quiet /\ RolesAre(call.dev, "listener") /\ Heard(0) /\ Attentive(call.dev)
      /\ "DATA" \notin host
  <2>1. Target("open1") = call.dev /\ RoleAfter("open1") = "listener" /\ CallsOf("open1") = {"print"}
    BY DEF Target, Second, RoleAfter, CallsOf
  <2> QED BY <2>1 DEF Opening, After
<1>3. host' = host \ {"ATN"} /\ todo' = Out0(call.msg, 1) /\ DevicesKept /\ BytesKept
  BY <1>1, OnLine
<1>4. host' \subseteq {"ATN", "CLK", "DATA"} /\ "ATN" \notin host' /\ "DATA" \notin host'
      /\ ("CLK" \in host => "CLK" \in host')
  BY <1>2, <1>3, LinesAre
<1>5. Base' /\ Heeds /\ CallKept /\ call' = call /\ Quiet'
  BY <1>2, <1>3, <1>4, PlainStep
<1>6. RolesAre(call.dev, "listener")' /\ Heard(0)' /\ Attentive(call.dev)'
  BY <1>2, <1>3, <1>4, <1>5, Unmoved
<1>7. Len(call.msg) \in Nat /\ 1 \in 1 .. Len(call.msg) + 1
  BY Typed
<1>8. (todo = Out0(call.msg, 1))' /\ call'.op = "print"
  BY <1>2, <1>3, <1>5
<1>9. (queue = None /\ Heard(1 - 1) /\ (1 <= Len(call.msg) \/ Len(call.msg) = 0))'
  <2>1. Heard(1 - 1)'
    <3>1. 1 - 1 = 0
      OBVIOUS
    <3> QED BY <1>6, <3>1
  <2> QED BY <1>5, <1>7, <2>1 DEF Quiet
<1>10. Printing(1)'
  BY <1>4, <1>5, <1>6, <1>8, <1>9 DEF Printing, Listening, Quiet
<1>11. (\E i \in 1 .. Len(call.msg) + 1 : Printing(i))'
  BY <1>5, <1>7, <1>10
<1> QED BY <1>5, <1>11 DEF Somewhere

(* The clock is taken back from the talker. *)
LEMMA UntalkingNext ==
  ASSUME Base, Untalking, Controller
  PROVE  Base' /\ Somewhere' /\ Heeds
<1> DEFINE j == "untalk"
           none == <<>>
           k == Atn0(UNTALK, End0(none))
<1>0. /\ j \in Jobs /\ none = <<>> /\ Target(j) = call.dev /\ Target(j)' = call'.dev
      /\ Byte(j)' = UNTALK /\ Follow(j)' = End0(none)
  BY DEF Jobs, Byte, Follow, Target, Second
<1>1. Untalk0 = Then(Pull("CLK"), k)
  BY Zenon DEF Untalk0
<1>2. k \in Seq(Steps)
  <2>1. UNTALK \in Letters /\ none \in Seq(Steps)
    BY LetterNames, CallRests
  <2> HIDE DEF none
  <2>2. End0(none) \in Seq(Steps)
    BY <2>1, Rests
  <2> QED BY <2>1, <2>2, Rests, CallRests
<1>3. Before(j) /\ Attentive(Target(j))
  BY <1>0 DEF Untalking
<1> HIDE DEF k
<1>4. host' = host \cup {"CLK"} /\ todo' = k /\ DevicesKept /\ BytesKept
  BY <1>1, <1>2, OnLine DEF Untalking
<1>5. /\ host' \subseteq {"ATN", "CLK", "DATA"}
      /\ ("CLK" \in host => "CLK" \in host') /\ ("ATN" \in host' => "ATN" \in host)
  BY <1>4, LinesAre
<1>6. Base' /\ Heeds /\ CallKept /\ AnswerKept /\ queue' = queue /\ eoi_pending' = eoi_pending
  BY <1>4, <1>5, PlainStep
<1>7. Before(j)' /\ Attentive(Target(j))'
  BY <1>0, <1>3, <1>4, <1>5, <1>6, Unmoved, Untouched
<1>8. (todo = Atn0(Byte(j), Follow(j)))'
  BY <1>0, <1>4 DEF k
<1>9. Attending(j)'
  BY <1>7, <1>8 DEF Attending
<1> QED BY <1>0, <1>6, <1>9 DEF Somewhere

(* One more byte that is heard. *)
LEMMA PlainIs ==
  ASSUME Base, NEW i \in 1 .. Len(call.msg)
  PROVE  /\ Append(Plain(i - 1), [byte |-> Data(call.msg[i]), last |-> FALSE]) = Plain(i)
         /\ Final(i) => Append(Plain(i - 1), [byte |-> Data(call.msg[i]), last |-> TRUE]) = Marked(call.msg)
         /\ Len(Plain(i - 1)) = i - 1
         /\ Plain(i - 1) \in Seq([byte : Letters, last : BOOLEAN])
<1> DEFINE R == [byte : Letters, last : BOOLEAN]
           m == call.msg
           b == Data(m[i])
           p == Plain(i - 1)
<1>1. m \in Seq(Bytes) /\ Len(m) \in Nat /\ DOMAIN m = 1 .. Len(m)
      /\ \A n \in 1 .. Len(m) : Data(m[n]) \in Letters
  <2>1. m \in Seq(Bytes) /\ \A n \in 1 .. Len(m) : Data(m[n]) \in Letters
    BY Typed
  <2> HIDE DEF m
  <2> QED BY <2>1, LenProperties
<1>2. i \in Nat /\ i - 1 \in Nat
  BY <1>1
<1>3. \A n \in 0 .. Len(m) : Plain(n) \in [1 .. n -> R]
  BY <1>1 DEF Plain
<1>4. Marked(m) \in [1 .. Len(m) -> R]
  BY <1>1 DEF Marked
<1>5. /\ p \in Seq(R) /\ Len(p) = i - 1
      /\ Plain(i) \in Seq(R) /\ Len(Plain(i)) = i
      /\ Marked(m) \in Seq(R) /\ Len(Marked(m)) = Len(m)
  <2>1. i - 1 \in 0 .. Len(m) /\ i \in 0 .. Len(m)
    BY <1>1
  <2>2. p \in [1 .. i - 1 -> R] /\ Plain(i) \in [1 .. i -> R]
    BY <1>3, <2>1
  <2> HIDE DEF R, p, m
  <2>3. p \in Seq(R) /\ Len(p) = i - 1
    BY <1>2, <2>2, IsList
  <2>4. Plain(i) \in Seq(R) /\ Len(Plain(i)) = i
    BY <1>2, <2>2, IsList
  <2>5. Marked(m) \in Seq(R) /\ Len(Marked(m)) = Len(m)
    BY <1>1, <1>4, IsList
  <2> QED BY <2>3, <2>4, <2>5
<1>6. /\ \A n \in 1 .. i - 1 : p[n] = [byte |-> Data(m[n]), last |-> FALSE]
      /\ \A n \in 1 .. i : Plain(i)[n] = [byte |-> Data(m[n]), last |-> FALSE]
      /\ \A n \in 1 .. Len(m) : Marked(m)[n] = [byte |-> Data(m[n]), last |-> n = Len(m)]
  BY <1>1 DEF Plain, Marked
<1>7. ASSUME NEW x \in R
      PROVE  /\ Append(p, x) \in Seq(R) /\ Len(Append(p, x)) = i
             /\ Append(p, x)[i] = x /\ \A n \in 1 .. i - 1 : Append(p, x)[n] = p[n]
  <2> HIDE DEF p, R
  <2> QED BY <1>2, <1>5, AppendProperties
<1>8. ASSUME NEW x \in R, NEW q \in Seq(R), Len(q) = i, q[i] = x,
             \A n \in 1 .. i - 1 : q[n] = p[n]
      PROVE  Append(p, x) = q
  <2>1. \A n \in 1 .. i : n = i \/ n \in 1 .. i - 1
    BY <1>2
  <2>2. /\ Append(p, x) \in Seq(R) /\ Len(Append(p, x)) = i
        /\ Append(p, x)[i] = x /\ \A n \in 1 .. i - 1 : Append(p, x)[n] = p[n]
    BY <1>7
  <2> HIDE DEF p, R
  <2>3. \A n \in 1 .. Len(q) : Append(p, x)[n] = q[n]
    BY <1>8, <2>1, <2>2
  <2> QED BY <1>8, <2>2, <2>3, SeqEqual
<1>9. [byte |-> b, last |-> FALSE] \in R /\ [byte |-> b, last |-> TRUE] \in R
  BY <1>1
<1>10. \A n \in 1 .. i - 1 : n \in 1 .. i /\ n \in 1 .. Len(m) /\ n # Len(m)
  BY <1>1, <1>2
<1>11. Append(p, [byte |-> b, last |-> FALSE]) = Plain(i)
  <2> DEFINE q == Plain(i)
  <2> HIDE DEF p, q
  <2>0. i \in 1 .. i
    BY <1>2
  <2>1. q[i] = [byte |-> b, last |-> FALSE] /\ \A n \in 1 .. i - 1 : q[n] = p[n]
    <3>1. q[i] = [byte |-> b, last |-> FALSE]
      BY <1>6, <2>0 DEF q
    <3>2. \A n \in 1 .. i - 1 : q[n] = p[n]
      BY <1>6, <1>10 DEF q
    <3> QED BY <3>1, <3>2
  <2>2. q \in Seq(R) /\ Len(q) = i
    BY <1>5 DEF q
  <2> HIDE DEF R, b
  <2>3. Append(p, [byte |-> b, last |-> FALSE]) = q
    BY <1>8, <1>9, <2>1, <2>2
  <2> QED BY <2>3 DEF q
<1>12. Final(i) => Append(p, [byte |-> b, last |-> TRUE]) = Marked(m)
  <2> SUFFICES ASSUME i = Len(m) PROVE Append(p, [byte |-> b, last |-> TRUE]) = Marked(m)
    BY DEF Final
  <2>1. Marked(m)[i] = [byte |-> b, last |-> TRUE]
    BY <1>6
  <2>2. \A n \in 1 .. i - 1 : Marked(m)[n] = p[n]
    BY <1>6, <1>10
  <2> HIDE DEF p, R, b, m
  <2> QED BY <1>5, <1>8, <1>9, <2>1, <2>2
<1> QED BY <1>5, <1>11, <1>12

(* An empty message is heard when nothing is. *)
LEMMA NothingIs ==
  ASSUME Base, Len(call.msg) = 0
  PROVE  Plain(0) = Marked(call.msg)
<1>1. DOMAIN call.msg = 1 .. 0
  <2>1. call.msg \in Seq(Bytes)
    BY Typed
  <2> QED BY <2>1, LenProperties
<1> QED BY <1>1 DEF Plain, Marked

(* Byte i of the message is held back, or the one before it is sent. *)
LEMMA PrintingNext ==
  ASSUME Base, NEW i \in 1 .. Len(call.msg) + 1, Printing(i), Controller
  PROVE  Base' /\ Somewhere' /\ Heeds
<1> DEFINE m == call.msg
           c == Data(m[i])
<1>1. /\ m \in Seq(Bytes) /\ Len(m) \in Nat /\ i \in Nat
      /\ queue = None \/ queue \in Letters
      /\ \A n \in 1 .. Len(m) : Data(m[n]) \in Letters /\ Data(m[n]) # None /\ AfterByte(n) \in Seq(Steps)
  BY Typed
<1>2. /\ Listening /\ "ATN" \notin host /\ todo = Out0(m, i) /\ Attentive(call.dev)
      /\ eoi_pending = FALSE /\ \A e \in Devices : ~dev[e].last
  BY DEF Printing
<1>3. queue = None => Heard(i - 1) /\ (i <= Len(m) \/ Len(m) = 0)
  <2>1. i >= 2 => i - 1 \in 1 .. Len(m)
    BY <1>1
  <2>2. i >= 2 => Data(m[i - 1]) # None
    BY <1>1, <2>1
  <2> QED BY <2>2 DEF Printing
<1>4. queue # None => i >= 2 /\ i - 1 \in 1 .. Len(m) /\ queue = Data(m[i - 1]) /\ Heard(i - 2)
  <2>1. i >= 2 => i - 1 \in 1 .. Len(m)
    BY <1>1
  <2> QED BY <2>1 DEF Printing
<1>5. ASSUME host' = host, DevicesKept, CallKept, AnswerKept, rx_eoi' = rx_eoi,
             queue' # None => \E n \in DOMAIN m : queue' = Data(m[n]), eoi_pending' \in BOOLEAN
      PROVE  /\ Base' /\ Heeds /\ call' = call /\ Listening' /\ "ATN" \notin host'
             /\ Attentive(call.dev)' /\ \A e \in Devices : ~dev'[e].last
             /\ Marks(FALSE)'
             /\ \A n : Heard(n) => Heard(n)'
  <2>1. Base'
    <3>1. /\ dev' \in [Devices -> DeviceRecord] /\ \A e \in Devices : Fit(dev'[e])
          /\ host' \subseteq {"ATN", "CLK", "DATA"} /\ rx_eoi' \in BOOLEAN
      BY <1>5 DEF Base, TypeOK, DevicesKept
    <3> QED BY <1>5, <3>1, BaseAfter
  <2>2. Heeds
    BY <1>5, <2>1, HeedsWhen
  <2>3. call' = call /\ dev' = dev
    BY <1>5 DEF CallKept, DevicesKept
  <2>4. RolesAre(call.dev, "listener")' /\ Attentive(call.dev)' /\ \A n : Heard(n) => Heard(n)'
    BY <1>2, <1>5, Unmoved DEF Listening
  <2>5. Marks(FALSE)'
    <3>1. \A e \in Devices : dev'[e].last = FALSE
      BY <1>2, <2>1, <2>3 DEF Base, DeviceRecord
    <3> QED BY <3>1 DEF Marks
  <2> QED BY <1>2, <1>5, <2>1, <2>2, <2>3, <2>4, <2>5 DEF Listening
<1>6. CASE i <= Len(m)
  <2> DEFINE k == Out0(m, i + 1)
  <2>1. todo = Then(<<"out", c>>, k) /\ k \in Seq(Steps)
    <3>1. i + 1 \in 1 .. Len(m) + 1
      BY <1>1, <1>6
    <3> QED BY <1>1, <1>2, <1>6, <3>1, OutRests
  <2>2. c \in Letters /\ c # None /\ i \in 1 .. Len(m) /\ i + 1 \in 1 .. Len(m) + 1 /\ i \in DOMAIN m
    <3>1. i \in 1 .. Len(m) /\ i + 1 \in 1 .. Len(m) + 1
      BY <1>1, <1>6
    <3>2. DOMAIN m = 1 .. Len(m)
      BY <1>1, LenProperties
    <3> QED BY <1>1, <3>1, <3>2
  <2> HIDE DEF k
  <2>3. /\ host' = host /\ DevicesKept /\ CallKept /\ AnswerKept
        /\ eoi_pending' = eoi_pending /\ rx_eoi' = rx_eoi
        /\ \/ queue = None /\ queue' = c /\ todo' = k
           \/ queue # None /\ queue' = None /\ todo' = Send0(queue, todo)
    <3> HIDE DEF c
    <3> QED BY <1>1, <2>1, <2>2, OnOut
  <2>4. CASE queue = None
    <3>1. queue' = c /\ todo' = k
      BY <2>3, <2>4
    <3>2. /\ Base' /\ Heeds /\ call' = call /\ Listening' /\ "ATN" \notin host'
          /\ Attentive(call.dev)' /\ (\A e \in Devices : ~dev'[e].last)
          /\ \A n : Heard(n) => Heard(n)'
      BY <1>2, <1>5, <2>2, <2>3, <3>1
    <3>3. (todo = Out0(call.msg, i + 1))'
      BY <3>1, <3>2 DEF k
    <3>4. (i + 1 >= 2 /\ queue = Data(call.msg[i + 1 - 1]) /\ Heard(i + 1 - 2))'
      <4>1. i + 1 - 1 = i /\ i + 1 - 2 = i - 1 /\ i + 1 >= 2
        BY <1>1
      <4>2. Heard(i - 1)'
        BY <1>3, <2>4, <3>2
      <4> QED BY <3>1, <3>2, <4>1, <4>2
    <3>5. Printing(i + 1)'
      BY <1>2, <2>3, <3>2, <3>3, <3>4 DEF Printing
    <3>6. (\E n \in 1 .. Len(call.msg) + 1 : Printing(n))'
      BY <2>2, <3>2, <3>5
    <3> QED BY <3>2, <3>6 DEF Somewhere
  <2>5. CASE queue # None
    <3>1. queue' = None /\ todo' = Send0(queue, todo)
      BY <2>3, <2>5
    <3>2. /\ Base' /\ Heeds /\ call' = call /\ Listening' /\ "ATN" \notin host'
          /\ Marks(FALSE)' /\ \A n : Heard(n) => Heard(n)'
      BY <1>2, <1>5, <2>3, <3>1
    <3>3. ~Final(i - 1) /\ ~Final(i - 1)' /\ i - 1 + 1 = i /\ i - 1 - 1 = i - 2
      BY <1>1, <1>6, <3>2 DEF Final
    <3>4. AfterByte(i - 1)' = Out0(m, i)
      BY <3>2, <3>3 DEF AfterByte
    <3>5. (todo = Send0(Data(call.msg[i - 1]), AfterByte(i - 1)))'
      BY <1>2, <1>4, <2>5, <3>1, <3>2, <3>4
    <3>6. Heard(i - 1 - 1)' /\ eoi_pending' = FALSE
      BY <1>2, <1>4, <2>3, <2>5, <3>2, <3>3
    <3>7. Telling(i - 1)'
      <4>1. (Marks(Final(i - 1) /\ ~eoi_pending))'
        BY <3>2, <3>3 DEF Marks
      <4>2. eoi_pending' = Final(i - 1)'
        BY <3>3, <3>6 DEF Final
      <4> QED BY <3>1, <3>2, <3>5, <3>6, <4>1, <4>2 DEF Telling
    <3>8. (\E n \in 1 .. Len(call.msg) : Telling(n) \/ Told(n))'
      BY <1>4, <2>5, <3>2, <3>7
    <3> QED BY <3>2, <3>8 DEF Somewhere
  <2> QED BY <2>4, <2>5
<1>7. CASE i = Len(m) + 1
  <2> DEFINE k == Atn0(UNLISTEN, End0(Close0(4)))
  <2>1. todo = Then(<<"flush">>, k) /\ k \in Seq(Steps)
    <3>1. todo = Unlisten0(Close0(4))
      BY <1>1, <1>2, <1>7, OutRests
    <3>2. UNLISTEN \in Letters /\ Close0(4) \in Seq(Steps)
      BY LetterNames, CallRests
    <3>3. End0(Close0(4)) \in Seq(Steps)
      BY <3>2, Rests
    <3> QED BY <3>1, <3>2, <3>3, Rests DEF Unlisten0
  <2> HIDE DEF k
  <2>2. /\ host' = host /\ DevicesKept /\ CallKept /\ AnswerKept /\ rx_eoi' = rx_eoi
        /\ \/ queue = None /\ queue' = None /\ eoi_pending' = eoi_pending /\ todo' = k
           \/ queue # None /\ queue' = None /\ eoi_pending' = TRUE /\ todo' = Send0(queue, k)
    BY <1>1, <2>1, OnFlush
  <2>3. /\ Base' /\ Heeds /\ call' = call /\ Listening' /\ "ATN" \notin host'
        /\ Attentive(call.dev)' /\ (\A e \in Devices : ~dev'[e].last)
        /\ Marks(FALSE)' /\ \A n : Heard(n) => Heard(n)'
    BY <1>2, <1>5, <2>2
  <2>4. CASE queue = None
    <3> DEFINE j == "unlisten1"
    <3>1. Len(m) = 0 /\ Heard(0)
      <4>1. Len(m) = 0 /\ i - 1 = 0
        BY <1>1, <1>3, <1>7, <2>4
      <4> QED BY <1>3, <2>4, <4>1
    <3>2. queue' = None /\ eoi_pending' = FALSE /\ todo' = k
      BY <1>2, <2>2, <2>4
    <3>3. Quiet'
      BY <2>3, <3>2 DEF Quiet
    <3>4. HeardAll'
      <4>1. Heard(0)'
        BY <2>3, <3>1
      <4>2. (Plain(0) = Marked(call.msg))'
        BY <2>3, <3>1, NothingIs DEF Plain
      <4> QED BY <4>1, <4>2 DEF Heard, HeardAll
    <3>5. Before(j)'
      BY <2>3, <3>3, <3>4 DEF Before, Listening, CallsOf, Target, RoleBefore, Second, Served
    <3>6. /\ Target(j)' = call'.dev /\ Byte(j)' = UNLISTEN /\ Follow(j)' = End0(Close0(4)) /\ j \in Jobs
      BY DEF Target, Byte, Follow, Second, Jobs
    <3>7. Attending(j)'
      BY <2>3, <3>2, <3>5, <3>6 DEF Attending, k
    <3> QED BY <2>3, <3>6, <3>7 DEF Somewhere
  <2>5. CASE queue # None
    <3>1. queue' = None /\ eoi_pending' = TRUE /\ todo' = Send0(queue, k)
      BY <2>2, <2>5
    <3>2. /\ i - 1 = Len(m) /\ i - 1 - 1 = i - 2 /\ Final(i - 1)' /\ i - 1 \in 1 .. Len(m)
          /\ queue = Data(m[i - 1]) /\ Heard(i - 2)
      BY <1>1, <1>4, <1>7, <2>3, <2>5 DEF Final
    <3>3. AfterByte(i - 1)' = k
      BY <3>2 DEF AfterByte, k
    <3>4. (todo = Send0(Data(call.msg[i - 1]), AfterByte(i - 1)))'
      BY <2>3, <3>1, <3>2, <3>3
    <3>5. Heard(i - 1 - 1)'
      BY <2>3, <3>2
    <3>6. Telling(i - 1)'
      <4>1. (Marks(Final(i - 1) /\ ~eoi_pending))'
        BY <2>3, <3>1 DEF Marks
      <4>2. eoi_pending' = Final(i - 1)'
        BY <3>1, <3>2 DEF Final
      <4> QED BY <2>3, <3>1, <3>2, <3>4, <3>5, <4>1, <4>2 DEF Telling
    <3>7. (\E n \in 1 .. Len(call.msg) : Telling(n) \/ Told(n))'
      BY <2>3, <3>2, <3>6
    <3> QED BY <2>3, <3>7 DEF Somewhere
  <2> QED BY <2>4, <2>5
<1> QED BY <1>1, <1>6, <1>7

(* Away from ATN only the device that is printed to listens. *)
LEMMA Listeners ==
  ASSUME Base, Listening, Off
  PROVE  /\ \A e \in Devices : dev[e].plugged \in BOOLEAN /\ dev[e].last \in BOOLEAN
         /\ \A e \in Devices : dev[e].role = "listener" =>
              /\ e = call.dev /\ dev[e].plugged
              /\ dev[e].state \in {"hold", "ready", "got", "eoi"}
         /\ \A e \in Devices : dev[e].state \in {"hold", "ready", "got", "eoi"} => dev[e].role = "listener"
         /\ \A e \in Devices : "DATA" \in dev[e].pull => dev[e].state \in {"hold", "eoi"}
         /\ \A e \in Devices : dev[e].state \in {"hold", "eoi"} => "DATA" \in dev[e].pull
<1>1. \A e \in Devices : /\ dev[e].plugged \in BOOLEAN /\ dev[e].last \in BOOLEAN
                         /\ Fit(dev[e]) /\ dev[e].role \in Roles /\ ~dev[e].atn
  BY DEF Base, DeviceRecord, Off
<1>2. \A e \in Devices : dev[e].state \in StatesOf(dev[e].role) /\ dev[e].pull = PullOf(dev[e].state)
  BY <1>1 DEF Fit
<1>3. \A e \in Devices : dev[e].role = IF dev[e].plugged /\ e = call.dev THEN "listener" ELSE "none"
  BY DEF Listening, RolesAre
<1>4. \A e \in Devices : dev[e].role = "listener" =>
              /\ e = call.dev /\ dev[e].plugged
              /\ dev[e].state \in {"hold", "ready", "got", "eoi"}
  BY <1>2, <1>3 DEF StatesOf
<1>5. \A e \in Devices : dev[e].state \in {"hold", "ready", "got", "eoi"} => dev[e].role = "listener"
  BY <1>2, <1>3 DEF StatesOf
<1>6. /\ \A e \in Devices : "DATA" \in dev[e].pull => dev[e].state \in {"hold", "eoi"}
      /\ \A e \in Devices : dev[e].state \in {"hold", "eoi"} => "DATA" \in dev[e].pull
  BY <1>2 DEF PullOf
<1> QED BY <1>1, <1>4, <1>5, <1>6

(* The listener hears byte i, marked if it is the last. *)
LEMMA DataClock ==
  ASSUME Base, NEW i \in 1 .. Len(call.msg), Listening, "ATN" \notin host, queue = None,
         eoi_pending = FALSE, Heard(i - 1), Marks(Final(i)), OffIn({"ready"}),
         ClockedAs(Data(call.msg[i])), todo' = Clock2(AfterByte(i))
  PROVE  Base' /\ Told(i)' /\ Heeds
<1> DEFINE b == Data(call.msg[i])
           k == AfterByte(i)
<1>1. b \in Letters /\ i \in Nat /\ Len(call.msg) \in Nat
  BY Typed
<1>2. Base' /\ \A e \in Devices : dev'[e] = IF dev[e].state = "ready" THEN Hears(e, b) ELSE dev[e]
  <2> HIDE DEF b
  <2> QED BY <1>1, ClockBase DEF b
<1>3. CallKept /\ queue' = None /\ eoi_pending' = FALSE /\ call' = call
  BY DEF ClockedAs, BytesKept, FlagsKept, CallKept
<1>4. Off /\ \A e \in Devices : ~dev[e].atn
  BY DEF OffIn, Off
<1>5. /\ \A e \in Devices : dev[e].plugged \in BOOLEAN /\ dev[e].last \in BOOLEAN
      /\ \A e \in Devices : dev[e].role = "listener" <=> dev[e].state = "ready"
      /\ \A e \in Devices : dev[e].state = "ready" => e = call.dev /\ dev[e].plugged
  BY <1>4, Listeners DEF OffIn
<1>6. ASSUME NEW e \in Devices, dev[e].state = "ready"
      PROVE  /\ dev'[e].plugged /\ ~dev'[e].atn /\ dev'[e].state = "got" /\ dev'[e].last = FALSE
             /\ dev'[e].role = "listener" /\ e = call.dev /\ dev[e].last = Final(i)
             /\ dev'[e].heard = Append(Plain(i - 1), [byte |-> b, last |-> Final(i)])
  <2>1. dev[e].last = Final(i) /\ dev[e].role = "listener" /\ e = call.dev /\ dev[e].plugged
    BY <1>5, <1>6 DEF Marks, Final
  <2>2. dev[e].heard = Plain(i - 1)
    BY <2>1 DEF Heard, Here
  <2>3. dev'[e] = Hears(e, b)
    BY <1>2, <1>6
  <2> HIDE DEF b
  <2>4. /\ Hears(e, b).plugged /\ ~Hears(e, b).atn /\ Hears(e, b).state = "got" /\ Hears(e, b).last = FALSE
        /\ Hears(e, b).role = dev[e].role
        /\ Hears(e, b).heard = Append(dev[e].heard, [byte |-> b, last |-> dev[e].last])
    BY <1>1, <1>4, <1>6, HearsData
  <2> QED BY <2>1, <2>2, <2>3, <2>4
<1>7. ASSUME NEW e \in Devices, dev[e].state # "ready"
      PROVE  dev'[e] = dev[e] /\ dev[e].last = FALSE /\ dev[e].role # "listener"
  <2>1. dev'[e] = dev[e] /\ dev[e].role # "listener"
    BY <1>2, <1>5, <1>7
  <2>2. dev[e].last = FALSE
    BY <2>1 DEF Marks
  <2> QED BY <2>1, <2>2
<1>8. "ATN" \notin host' /\ "DATA" \notin host' /\ "CLK" \in host'
  BY DEF ClockedAs
<1>9. Quiet'
  BY <1>3, <1>6, <1>7 DEF Quiet
<1>10. OffIn({"got", "hold"})'
  <2>1. \A e \in Devices : ~dev'[e].atn /\ (dev'[e].role = "listener" => dev'[e].state \in {"got", "hold"})
    BY <1>4, <1>6, <1>7
  <2> QED BY <1>8, <2>1 DEF OffIn, Off
<1>11. Listening'
  <2>1. ASSUME NEW e \in Devices
        PROVE  dev'[e].role = IF dev'[e].plugged /\ e = call.dev THEN "listener" ELSE "none"
    <3>1. dev[e].role = IF dev[e].plugged /\ e = call.dev THEN "listener" ELSE "none"
      BY DEF Listening, RolesAre
    <3> QED BY <1>6, <1>7, <3>1
  <2>2. RolesAre(call.dev, "listener")'
    BY <1>3, <2>1 DEF RolesAre
  <2> QED BY <1>3, <1>8, <2>2 DEF Listening
<1>12. Final(i)' = Final(i) /\ Plain(i)' = Plain(i) /\ Marked(call.msg)' = Marked(call.msg) /\ k' = k
  <2>1. k' = k
    BY <1>3, SameWords
  <2> QED BY <1>3, <2>1 DEF Final, Plain
<1>13. Here(call.dev)' => dev'[call.dev].heard = IF Final(i) THEN Marked(call.msg) ELSE Plain(i)
  <2> SUFFICES ASSUME call.dev \in Devices, dev'[call.dev].plugged
               PROVE  dev'[call.dev].heard = IF Final(i) THEN Marked(call.msg) ELSE Plain(i)
    BY <1>3 DEF Here
  <2>1. dev[call.dev].state = "ready"
    <3> SUFFICES ASSUME dev[call.dev].state # "ready" PROVE FALSE
      OBVIOUS
    <3>1. dev[call.dev].plugged /\ dev[call.dev].role # "listener"
      BY <1>7
    <3> QED BY <3>1 DEF Listening, RolesAre
  <2>2. dev'[call.dev].heard = Append(Plain(i - 1), [byte |-> b, last |-> Final(i)])
    BY <1>6, <2>1
  <2>3. CASE Final(i)
    <3>1. [byte |-> b, last |-> Final(i)] = [byte |-> b, last |-> TRUE]
      BY <2>3 DEF Final
    <3> QED BY <2>2, <2>3, <3>1, PlainIs
  <2>4. CASE ~Final(i)
    <3>1. [byte |-> b, last |-> Final(i)] = [byte |-> b, last |-> FALSE]
      BY <2>4 DEF Final
    <3> QED BY <2>2, <2>4, <3>1, PlainIs
  <2> QED BY <2>3, <2>4
<1>14. IF Final(i)' THEN HeardAll' ELSE Heard(i)'
  <2>1. CASE Final(i)
    <3>1. HeardAll'
      BY <1>3, <1>12, <1>13, <2>1 DEF HeardAll
    <3> QED BY <1>12, <2>1, <3>1
  <2>2. CASE ~Final(i)
    <3>1. Heard(i)'
      BY <1>3, <1>12, <1>13, <2>2 DEF Heard
    <3> QED BY <1>12, <2>2, <3>1
  <2> QED BY <2>1, <2>2
<1>15. (todo = Clock2(AfterByte(i)))'
  BY <1>12
<1>16. Told(i)'
  BY <1>8, <1>9, <1>10, <1>11, <1>14, <1>15 DEF Told
<1>17. Heeds
  <2>1. ASSUME NEW e \in Devices, Len(dev'[e].heard) > Len(dev[e].heard)
        PROVE  call.op = "print" /\ call.dev = e /\ Len(dev'[e].heard) <= Len(call.msg)
    <3>1. dev[e].state = "ready"
      <4> SUFFICES ASSUME dev[e].state # "ready" PROVE FALSE
        OBVIOUS
      <4>1. dev'[e] = dev[e]
        BY <1>7
      <4>2. dev[e].heard \in Seq([byte : Letters, last : BOOLEAN])
        BY DEF Base, DeviceRecord
      <4>3. Len(dev[e].heard) \in Nat
        BY <4>2, LenProperties
      <4> QED BY <2>1, <4>1, <4>3
    <3>2. e = call.dev /\ dev'[e].heard = Append(Plain(i - 1), [byte |-> b, last |-> Final(i)])
      BY <1>6, <3>1
    <3>3. Len(Append(Plain(i - 1), [byte |-> b, last |-> Final(i)])) = i
      <4> DEFINE p == Plain(i - 1)
                 x == [byte |-> b, last |-> Final(i)]
                 R == [byte : Letters, last : BOOLEAN]
      <4>1. p \in Seq(R) /\ Len(p) = i - 1 /\ x \in R
        BY <1>1, PlainIs DEF Final
      <4> HIDE DEF p, x, R
      <4>2. Len(Append(p, x)) = i
        BY <1>1, <4>1, AppendProperties
      <4> QED BY <4>2 DEF p, x
    <3> QED BY <1>1, <3>2, <3>3 DEF Listening
  <2> QED BY <2>1 DEF Heeds
<1> QED BY <1>2, <1>16, <1>17

(* A byte of the message is sent, as the last one or not. *)
LEMMA TellingNext ==
  ASSUME Base, NEW i \in 1 .. Len(call.msg), Telling(i), Controller
  PROVE  Base' /\ Somewhere' /\ Heeds
<1> DEFINE b == Data(call.msg[i])
           k == AfterByte(i)
<1>1. b \in Letters /\ k \in Seq(Steps)
  BY Typed
<1>2. /\ Send1(b, k) \in Seq(Steps) /\ Send2(b, k) \in Seq(Steps) /\ Send3(b, k) \in Seq(Steps)
      /\ Clock1(b, k) \in Seq(Steps) /\ Clock2(k) \in Seq(Steps) /\ Eoi1(b, k) \in Seq(Steps)
  <2> HIDE DEF b, k
  <2> QED BY <1>1, Rests
<1>3. /\ Listening /\ "ATN" \notin host /\ "DATA" \notin host /\ queue = None
      /\ eoi_pending => Final(i)
      /\ Heard(i - 1)
  BY DEF Telling, Listening
<1>4. eoi_pending \in BOOLEAN
  BY DEF Base, TypeOK
<1>5. ASSUME DevicesKept, CallKept, AnswerKept, queue' = queue, rx_eoi' = rx_eoi,
             eoi_pending' \in {eoi_pending, FALSE}, host' \subseteq host
      PROVE  /\ Base' /\ Heeds /\ Listening' /\ "ATN" \notin host' /\ queue' = None
             /\ eoi_pending' => Final(i)'
             /\ Heard(i - 1)' /\ b' = b /\ k' = k /\ Final(i)' = Final(i) /\ dev' = dev
             /\ \A S : OffIn(S) => OffIn(S)'
             /\ Telling(i)' => Somewhere'
  <2>1. dev' = dev /\ call' = call /\ "ATN" \notin host' /\ "DATA" \notin host'
        /\ queue' = None /\ host' \subseteq {"ATN", "CLK", "DATA"} /\ eoi_pending' \in BOOLEAN
    BY <1>3, <1>4, <1>5, LinesAre DEF DevicesKept, CallKept
  <2>2. Base'
    <3>1. dev' \in [Devices -> DeviceRecord] /\ (\A e \in Devices : Fit(dev'[e])) /\ rx_eoi' \in BOOLEAN
      BY <1>5, <2>1 DEF Base, TypeOK
    <3> QED BY <1>5, <2>1, <3>1, BaseAfter
  <2>3. Heeds
    BY <1>5, <2>2, HeedsWhen
  <2>4. Heard(i - 1)' /\ RolesAre(call.dev, "listener")' /\ \A S : OffIn(S) => OffIn(S)'
    BY <1>3, <1>5, <2>1, Unmoved DEF Listening
  <2>5. b' = b /\ k' = k
    BY <1>5, SameWords
  <2>6. Final(i)' = Final(i)
    BY <2>1 DEF Final
  <2>7. Listening'
    BY <1>3, <2>1, <2>4 DEF Listening
  <2>8. eoi_pending' => Final(i)'
    BY <1>3, <1>5, <2>6
  <2>9. Telling(i)' => Somewhere'
    <3>1. i \in 1 .. Len(call'.msg)
      BY <2>1
    <3> QED BY <3>1 DEF Somewhere
  <2> QED BY <2>1, <2>2, <2>3, <2>4, <2>5, <2>6, <2>7, <2>8, <2>9
<1>6. ASSUME DevicesKept, BytesKept, host' \subseteq host
      PROVE  /\ DevicesKept /\ CallKept /\ AnswerKept /\ queue' = queue /\ rx_eoi' = rx_eoi
             /\ eoi_pending' = eoi_pending /\ eoi_pending' \in {eoi_pending, FALSE}
             /\ Marks(Final(i) /\ ~eoi_pending) => Marks(Final(i) /\ ~eoi_pending)'
  <2>1. dev' = dev /\ call' = call
    BY <1>6 DEF BytesKept, CallKept, DevicesKept
  <2>2. /\ DevicesKept /\ CallKept /\ AnswerKept /\ queue' = queue /\ rx_eoi' = rx_eoi
        /\ eoi_pending' = eoi_pending
    BY <1>6 DEF BytesKept, FlagsKept
  <2> QED BY <2>1, <2>2 DEF Marks, Final
<1>7. \A S : OffIn(S) => Off
  BY DEF OffIn
<1>8. host \subseteq host
  OBVIOUS
<1>9. CASE todo = Send0(b, k) /\ eoi_pending = Final(i) /\ Marks(Final(i) /\ ~eoi_pending)
  <2>1. todo = Then(Sleep, Send1(b, k))
    BY <1>9 DEF Send0
  <2>2. Settled /\ host' = host /\ todo' = Send1(b, k) /\ DevicesKept /\ BytesKept
    BY <1>2, <2>1, OnSleep
  <2>3. Off
    <3>1. ASSUME NEW e \in Devices PROVE ~dev[e].atn
      <4>1. ~Low("ATN") /\ (~dev[e].plugged => ~dev[e].atn) /\ dev[e].atn \in BOOLEAN
        BY <1>3, LowAtn DEF Base, DeviceRecord
      <4> QED BY <2>2, <4>1 DEF Settled, Owes
    <3> QED BY <1>3, <3>1 DEF Off
  <2>4. OffIn({"hold", "ready", "eoi"})
    <3>1. ASSUME NEW e \in Devices, dev[e].role = "listener" PROVE dev[e].state \in {"hold", "ready", "eoi"}
      <4>1. dev[e].plugged /\ dev[e].state \in {"hold", "ready", "got", "eoi"}
        BY <1>3, <2>3, <3>1, Listeners
      <4>2. dev[e].state # "got"
        BY <2>2, <4>1 DEF Settled, Owes
      <4> QED BY <4>1, <4>2
    <3> QED BY <2>3, <3>1 DEF OffIn
  <2>5. /\ Base' /\ Heeds /\ Listening' /\ "ATN" \notin host' /\ queue' = None
        /\ (eoi_pending' => Final(i)') /\ Heard(i - 1)' /\ b' = b /\ k' = k
        /\ OffIn({"hold", "ready", "eoi"})' /\ (Telling(i)' => Somewhere')
        /\ eoi_pending' = Final(i)' /\ Marks(Final(i) /\ ~eoi_pending)'
    BY <1>5, <1>6, <1>8, <1>9, <2>2, <2>4
  <2>6. (todo = Send1(b, k))'
    BY <2>2, <2>5
  <2>7. Telling(i)'
    BY <2>5, <2>6 DEF Telling
  <2> QED BY <2>5, <2>7
<1>10. CASE todo = Send1(b, k) /\ OffIn({"hold", "ready", "eoi"}) /\ Marks(Final(i) /\ ~eoi_pending)
  <2>1. todo = Then(Free("CLK"), Send2(b, k))
    BY <1>10 DEF Send1
  <2>2. host' = host \ {"CLK"} /\ todo' = Send2(b, k) /\ DevicesKept /\ BytesKept
    BY <1>2, <2>1, OnLine
  <2>3. host' \subseteq host
    BY <2>2
  <2>4. /\ Base' /\ Heeds /\ Listening' /\ "ATN" \notin host' /\ queue' = None
        /\ (eoi_pending' => Final(i)') /\ Heard(i - 1)' /\ b' = b /\ k' = k
        /\ OffIn({"hold", "ready", "eoi"})' /\ (Telling(i)' => Somewhere')
        /\ Marks(Final(i) /\ ~eoi_pending)'
    BY <1>5, <1>6, <1>10, <2>2, <2>3
  <2>5. (todo = Send2(b, k))'
    BY <2>2, <2>4
  <2>6. Telling(i)'
    BY <2>4, <2>5 DEF Telling
  <2> QED BY <2>4, <2>6
<1>11. CASE todo = Send2(b, k) /\ OffIn({"hold", "ready", "eoi"}) /\ Marks(Final(i) /\ ~eoi_pending)
  <2>1. todo = Then(Until("DATA", "high"), Send3(b, k))
    BY <1>11 DEF Send2
  <2>2. Low("DATA") = ("high" = "low") /\ host' = host /\ todo' = Send3(b, k) /\ DevicesKept /\ BytesKept
    BY <1>2, <2>1, OnUntil
  <2>3. OffIn({"ready"})
    <3>1. ASSUME NEW e \in Devices, dev[e].role = "listener" PROVE dev[e].state = "ready"
      <4>1. dev[e].state \in {"hold", "ready", "eoi"}
        BY <1>11, <3>1 DEF OffIn
      <4>2. "DATA" \notin dev[e].pull
        BY <2>2 DEF Low
      <4>3. dev[e].state \notin {"hold", "eoi"}
        BY <1>3, <1>7, <1>11, <4>2, Listeners
      <4> QED BY <4>1, <4>3
    <3> QED BY <1>11, <3>1 DEF OffIn
  <2>4. /\ Base' /\ Heeds /\ Listening' /\ "ATN" \notin host' /\ queue' = None
        /\ (eoi_pending' => Final(i)') /\ Heard(i - 1)' /\ b' = b /\ k' = k
        /\ OffIn({"ready"})' /\ (Telling(i)' => Somewhere')
        /\ Marks(Final(i) /\ ~eoi_pending)'
    BY <1>5, <1>6, <1>8, <1>11, <2>2, <2>3
  <2>5. (todo = Send3(b, k))'
    BY <2>2, <2>4
  <2>6. Telling(i)'
    BY <2>4, <2>5 DEF Telling
  <2> QED BY <2>4, <2>6
<1>12. CASE todo = Send3(b, k) /\ OffIn({"ready"}) /\ Marks(Final(i) /\ ~eoi_pending)
  <2>1. /\ host' = host /\ DevicesKept /\ BytesKept
        /\ todo' = IF eoi_pending THEN Eoi0(b, k) ELSE Clock0(b, k)
    BY <1>1, <1>12, OnReady
  <2>2. /\ Base' /\ Heeds /\ Listening' /\ "ATN" \notin host' /\ queue' = None
        /\ (eoi_pending' => Final(i)') /\ Heard(i - 1)' /\ b' = b /\ k' = k
        /\ OffIn({"ready"})' /\ (Telling(i)' => Somewhere')
        /\ Marks(Final(i) /\ ~eoi_pending)' /\ eoi_pending' = eoi_pending /\ dev' = dev
    BY <1>5, <1>6, <1>8, <1>12, <2>1
  <2>3. CASE eoi_pending
    <3>1. (todo = Eoi0(b, k))'
      BY <2>1, <2>2, <2>3
    <3>2. OffIn({"ready", "eoi"})'
      BY <2>2 DEF OffIn
    <3>3. ASSUME NEW e \in Devices PROVE dev'[e].last = (dev'[e].state = "eoi")
      <4>1. dev[e].last = FALSE
        <5>1. dev[e].last = ((Final(i) /\ ~eoi_pending) /\ dev[e].role = "listener")
          BY <1>12 DEF Marks
        <5> QED BY <2>3, <5>1
      <4>2. dev[e].state # "eoi"
        <5>1. dev[e].state = "eoi" => dev[e].role = "listener"
          BY <1>3, <1>7, <1>12, Listeners
        <5> QED BY <1>12, <5>1 DEF OffIn
      <4> QED BY <2>2, <4>1, <4>2
    <3>4. (\A e \in Devices : dev[e].last = (dev[e].state = "eoi"))'
      BY <3>3
    <3>5. eoi_pending'
      BY <2>2, <2>3
    <3>6. Telling(i)'
      BY <2>2, <3>1, <3>2, <3>4, <3>5 DEF Telling
    <3> QED BY <2>2, <3>6
  <2>4. CASE ~eoi_pending
    <3>1. (todo = Clock0(b, k))' /\ eoi_pending' = FALSE
      BY <1>4, <2>1, <2>2, <2>4
    <3>2. Telling(i)'
      BY <2>2, <3>1 DEF Telling
    <3> QED BY <2>2, <3>2
  <2> QED BY <2>3, <2>4
<1>13. CASE todo = Clock0(b, k) /\ OffIn({"ready"}) /\ Marks(Final(i) /\ ~eoi_pending) /\ eoi_pending = FALSE
  <2>1. todo = Then(Sleep, Clock1(b, k))
    BY <1>13 DEF Clock0
  <2>2. host' = host /\ todo' = Clock1(b, k) /\ DevicesKept /\ BytesKept
    BY <1>2, <2>1, OnSleep
  <2>3. /\ Base' /\ Heeds /\ Listening' /\ "ATN" \notin host' /\ queue' = None
        /\ (eoi_pending' => Final(i)') /\ Heard(i - 1)' /\ b' = b /\ k' = k
        /\ OffIn({"ready"})' /\ (Telling(i)' => Somewhere')
        /\ Marks(Final(i) /\ ~eoi_pending)' /\ eoi_pending' = eoi_pending
    BY <1>5, <1>6, <1>8, <1>13, <2>2
  <2>4. (todo = Clock1(b, k))' /\ eoi_pending' = FALSE
    BY <1>13, <2>2, <2>3
  <2>5. Telling(i)'
    BY <2>3, <2>4 DEF Telling
  <2> QED BY <2>3, <2>5
<1>14. CASE todo = Clock1(b, k) /\ OffIn({"ready"}) /\ Marks(Final(i) /\ ~eoi_pending) /\ eoi_pending = FALSE
  <2>1. ClockedAs(b) /\ todo' = Clock2(k)
    BY <1>1, <1>14, OnClock DEF ClockedAs
  <2>2. Marks(Final(i))
    BY <1>14 DEF Marks, Final
  <2>3. Base' /\ Told(i)' /\ Heeds
    BY <1>3, <1>14, <2>1, <2>2, DataClock
  <2>4. i \in 1 .. Len(call'.msg)
    BY <2>1 DEF ClockedAs, BytesKept, CallKept
  <2>5. (\E n \in 1 .. Len(call.msg) : Telling(n) \/ Told(n))'
    BY <2>3, <2>4
  <2> QED BY <2>3, <2>5 DEF Somewhere
<1>15. CASE /\ todo = Eoi0(b, k) /\ OffIn({"ready", "eoi"}) /\ eoi_pending
            /\ \A e \in Devices : dev[e].last = (dev[e].state = "eoi")
  <2>1. /\ Low("DATA") /\ host' = host /\ DevicesKept /\ CallKept /\ AnswerKept
        /\ queue' = queue /\ rx_eoi' = rx_eoi /\ eoi_pending' = FALSE /\ todo' = Eoi1(b, k)
    BY <1>1, <1>15, OnEoi
  <2>2. PICK e \in Devices : "DATA" \in dev[e].pull
    BY <1>3, <2>1 DEF Low
  <2>3. dev[e].role = "listener" /\ dev[e].state = "eoi" /\ e = call.dev
    <3>1. dev[e].state \in {"hold", "eoi"} /\ dev[e].role = "listener" /\ e = call.dev
      BY <1>3, <1>7, <1>15, <2>2, Listeners
    <3> QED BY <1>15, <3>1 DEF OffIn
  <2>4. Marks(TRUE)
    <3>1. ASSUME NEW x \in Devices PROVE dev[x].state = "eoi" <=> dev[x].role = "listener"
      <4>1. dev[x].role = "listener" => x = e
        BY <1>3, <1>7, <1>15, <2>3, Listeners
      <4>2. dev[x].state = "eoi" => dev[x].role = "listener"
        BY <1>3, <1>7, <1>15, Listeners
      <4> QED BY <2>3, <4>1, <4>2
    <3> QED BY <1>15, <3>1 DEF Marks
  <2>5. /\ Base' /\ Heeds /\ Listening' /\ "ATN" \notin host' /\ queue' = None
        /\ (eoi_pending' => Final(i)') /\ Heard(i - 1)' /\ b' = b /\ k' = k
        /\ OffIn({"ready", "eoi"})' /\ (Telling(i)' => Somewhere')
        /\ dev' = dev /\ Final(i)' = Final(i)
    BY <1>5, <1>8, <1>15, <2>1
  <2>6. (todo = Eoi1(b, k))' /\ Final(i)'
    BY <1>3, <1>15, <2>1, <2>5
  <2>7. Marks(Final(i) /\ ~eoi_pending)'
    BY <2>1, <2>4, <2>5, <2>6 DEF Marks
  <2>8. Telling(i)'
    BY <2>1, <2>5, <2>6, <2>7 DEF Telling
  <2> QED BY <2>5, <2>8
<1>16. CASE /\ todo = Eoi1(b, k) /\ OffIn({"ready", "eoi"}) /\ Final(i) /\ eoi_pending = FALSE
            /\ Marks(Final(i) /\ ~eoi_pending)
  <2>1. todo = Then(Sleep, Send2(b, k))
    BY <1>16 DEF Eoi1
  <2>2. host' = host /\ todo' = Send2(b, k) /\ DevicesKept /\ BytesKept
    BY <1>2, <2>1, OnSleep
  <2>3. OffIn({"hold", "ready", "eoi"})
    BY <1>16 DEF OffIn
  <2>4. /\ Base' /\ Heeds /\ Listening' /\ "ATN" \notin host' /\ queue' = None
        /\ (eoi_pending' => Final(i)') /\ Heard(i - 1)' /\ b' = b /\ k' = k
        /\ OffIn({"hold", "ready", "eoi"})' /\ (Telling(i)' => Somewhere')
        /\ Marks(Final(i) /\ ~eoi_pending)'
    BY <1>5, <1>6, <1>8, <1>16, <2>2, <2>3
  <2>5. (todo = Send2(b, k))'
    BY <2>2, <2>4
  <2>6. Telling(i)'
    BY <2>4, <2>5 DEF Telling
  <2> QED BY <2>4, <2>6
<1> QED BY <1>9, <1>10, <1>11, <1>12, <1>13, <1>14, <1>15, <1>16 DEF Telling

(* It is accepted, and the next one or the end of the call follows. *)
LEMMA ToldNext ==
  ASSUME Base, NEW i \in 1 .. Len(call.msg), Told(i), Controller
  PROVE  Base' /\ Somewhere' /\ Heeds
<1> DEFINE k == AfterByte(i)
<1>1. k \in Seq(Steps) /\ i \in Nat /\ Len(call.msg) \in Nat
  BY Typed
<1>2. /\ Listening /\ "ATN" \notin host /\ Quiet /\ OffIn({"got", "hold"})
      /\ IF Final(i) THEN HeardAll ELSE Heard(i)
  BY DEF Told
<1>3. todo = Then(Until("DATA", "low"), k)
  BY DEF Told, Clock2
<1> HIDE DEF k
<1>4. host' = host /\ todo' = k /\ DevicesKept /\ BytesKept
  BY <1>1, <1>3, OnUntil
<1>5. host' \subseteq {"ATN", "CLK", "DATA"} /\ "ATN" \notin host' /\ "DATA" \notin host'
  BY <1>2, <1>4, LinesAre DEF Listening
<1>6. /\ Base' /\ Heeds /\ CallKept /\ AnswerKept /\ Quiet' /\ call' = call /\ dev' = dev
      /\ queue' = queue /\ eoi_pending' = eoi_pending
  BY <1>2, <1>4, <1>5, PlainStep
<1>7. RolesAre(call.dev, "listener")' /\ (IF Final(i) THEN HeardAll' ELSE Heard(i)') /\ OffIn({"got", "hold"})'
  BY <1>2, <1>4, <1>5, <1>6, Unmoved DEF Listening
<1>8. Listening' /\ Attentive(call.dev)'
  BY <1>2, <1>5, <1>6, <1>7 DEF Listening, Attentive, OffIn, Off, Here
<1>9. CASE Final(i)
  <2> DEFINE j == "unlisten1"
  <2>1. k = Atn0(UNLISTEN, End0(Close0(4)))
    BY <1>9 DEF k, AfterByte
  <2>2. Before(j)'
    BY <1>6, <1>7, <1>8, <1>9 DEF Before, Listening, CallsOf, Target, RoleBefore, Second, Served
  <2>3. /\ Target(j)' = call'.dev /\ Byte(j)' = UNLISTEN /\ Follow(j)' = End0(Close0(4)) /\ j \in Jobs
    BY DEF Target, Byte, Follow, Second, Jobs
  <2>4. Attending(j)'
    BY <1>4, <1>8, <2>1, <2>2, <2>3 DEF Attending
  <2> QED BY <1>6, <2>3, <2>4 DEF Somewhere
<1>10. CASE ~Final(i)
  <2>1. k = Out0(call.msg, i + 1)
    BY <1>10 DEF k, AfterByte
  <2>2. i + 1 \in 1 .. Len(call.msg) + 1 /\ i + 1 <= Len(call.msg) /\ i + 1 - 1 = i
    BY <1>1, <1>10 DEF Final
  <2>3. (queue = None /\ Heard(i + 1 - 1) /\ i + 1 <= Len(call.msg))'
    BY <1>6, <1>7, <1>10, <2>2 DEF Quiet
  <2>4. (todo = Out0(call.msg, i + 1))'
    BY <1>4, <1>6, <2>1
  <2>5. Printing(i + 1)'
    BY <1>5, <1>6, <1>8, <2>3, <2>4 DEF Printing, Quiet
  <2>6. (\E n \in 1 .. Len(call.msg) + 1 : Printing(n))'
    BY <1>6, <2>2, <2>5
  <2> QED BY <1>6, <2>6 DEF Somewhere
<1> QED BY <1>9, <1>10

(* One more byte of the status. *)
LEMMA StatusIs ==
  /\ StatusOf(0) = <<>>
  /\ \A n \in Nat : n < Len(Text) => Append(StatusOf(n), Data(Text[n + 1])) = StatusOf(n + 1)
<1>1. Text \in Seq(Bytes) /\ Len(Text) \in Nat /\ DOMAIN Text = 1 .. Len(Text)
  BY IecAssumption, LenProperties
<1>2. StatusOf(0) = <<>>
  <2>1. \A n \in 1 .. 0 : FALSE
    OBVIOUS
  <2>2. StatusOf(0) \in [1 .. 0 -> Bytes]
    BY <2>1 DEF StatusOf
  <2>3. StatusOf(0) \in Seq(Bytes) /\ Len(StatusOf(0)) = 0
    BY <2>2, IsList
  <2> QED BY <2>3, EmptySeq
<1>3. ASSUME NEW n \in Nat, n < Len(Text)
      PROVE  Append(StatusOf(n), Data(Text[n + 1])) = StatusOf(n + 1)
  <2> DEFINE p == StatusOf(n)
             q == StatusOf(n + 1)
             x == Data(Text[n + 1])
             R == {Data(c) : c \in Bytes}
  <2>1. \A m \in 1 .. Len(Text) : Data(Text[m]) \in R
    BY <1>1
  <2>2. n + 1 \in 1 .. Len(Text) /\ \A m \in 1 .. n + 1 : m \in 1 .. Len(Text) /\ (m = n + 1 \/ m \in 1 .. n)
    BY <1>1, <1>3
  <2>3. \A m \in 1 .. n : m \in 1 .. Len(Text) /\ m \in 1 .. n + 1 /\ m # n + 1
    BY <1>1, <1>3
  <2>4. p \in [1 .. n -> R] /\ q \in [1 .. n + 1 -> R] /\ x \in R
    BY <2>1, <2>2, <2>3 DEF StatusOf
  <2>5. (\A m \in 1 .. n : p[m] = Data(Text[m])) /\ \A m \in 1 .. n + 1 : q[m] = Data(Text[m])
    BY DEF StatusOf
  <2>6. q[n + 1] = x
    <3>1. n + 1 \in 1 .. n + 1
      OBVIOUS
    <3> HIDE DEF q
    <3> QED BY <2>5, <3>1
  <2>7. \A m \in 1 .. n : q[m] = p[m]
    <3> HIDE DEF p, q
    <3> QED BY <2>3, <2>5
  <2> HIDE DEF p, q, x, R
  <2>8. p \in Seq(R) /\ Len(p) = n /\ q \in Seq(R) /\ Len(q) = n + 1
    <3>1. n + 1 \in Nat
      OBVIOUS
    <3> QED BY <2>4, <3>1, IsList
  <2>9. /\ Append(p, x) \in Seq(R) /\ Len(Append(p, x)) = n + 1
        /\ Append(p, x)[n + 1] = x /\ \A m \in 1 .. n : Append(p, x)[m] = p[m]
    BY <2>4, <2>8, AppendProperties
  <2>10. \A m \in 1 .. Len(q) : Append(p, x)[m] = q[m]
    BY <2>2, <2>6, <2>7, <2>8, <2>9
  <2>11. Append(p, x) = q
    BY <2>8, <2>9, <2>10, SeqEqual
  <2> QED BY <2>11 DEF p, q, x
<1> QED BY <1>2, <1>3

(* The index of the 0 behind what is read is at most one more than the size. *)
LEMMA EndFits ==
  ASSUME NEW count \in Nat, NEW last \in Nat, last <= count
  PROVE  last + 1 \in Int /\ last + 1 \in {-1} \cup 1 .. count + 1
  OBVIOUS

(* The bus is handed to the talker, and nothing is read into no buffer. *)
LEMMA TurningNext ==
  ASSUME Base, Turning, Controller
  PROVE  Base' /\ Somewhere' /\ Heeds
<1> DEFINE n == call.count
<1>1. /\ Turn1(n) \in Seq(Steps) /\ Turn2(n) \in Seq(Steps) /\ Turn3(n) \in Seq(Steps) /\ Turn4(n) \in Seq(Steps)
      /\ Turn0(n) = Then(Pull("DATA"), Turn1(n)) /\ Turn1(n) = Then(Free("ATN"), Turn2(n))
      /\ Turn2(n) = Then(Free("CLK"), Turn3(n)) /\ Turn3(n) = Then(Until("CLK", "low"), Turn4(n))
  BY CallRests, Zenon DEF Turn0, Turn1, Turn2, Turn3
<1>2. /\ Talking /\ Blank /\ HasSent(0) /\ Quiet /\ call.op = "status" /\ RolesAre(call.dev, "talker")
  BY DEF Turning, Talking
<1>3. ASSUME DevicesKept, BytesKept, host' \subseteq {"ATN", "CLK", "DATA"}
      PROVE  /\ Base' /\ Heeds /\ call' = call /\ dev' = dev /\ CallKept
             /\ Talking' /\ Blank' /\ HasSent(0)' /\ Quiet'
             /\ Here(call.dev)' <=> Here(call.dev)
             /\ Alone => Alone'
             /\ \A S : Says(S) => Says(S)'
             /\ RolesAre(call.dev, "talker")'
             /\ Turn1(n)' = Turn1(n) /\ Turn2(n)' = Turn2(n) /\ Turn3(n)' = Turn3(n) /\ Turn4(n)' = Turn4(n)
  <2>1. /\ Base' /\ Heeds /\ CallKept /\ AnswerKept /\ Quiet' /\ call' = call /\ dev' = dev
        /\ queue' = queue /\ eoi_pending' = eoi_pending
    BY <1>2, <1>3, PlainStep
  <2>2. Talking' /\ Blank'
    BY <1>2, <1>3, <2>1, Untouched
  <2>3. /\ HasSent(0)' /\ RolesAre(call.dev, "talker")' /\ (Here(call.dev)' <=> Here(call.dev))
        /\ Alone => Alone'
        /\ \A S : Says(S) => Says(S)'
    BY <1>2, <1>3, <2>1, Unmoved
  <2>4. Turn1(n)' = Turn1(n) /\ Turn2(n)' = Turn2(n) /\ Turn3(n)' = Turn3(n) /\ Turn4(n)' = Turn4(n)
    BY <2>1
  <2> QED BY <2>1, <2>2, <2>3, <2>4
<1>4. CASE todo = Turn0(n) /\ (Here(call.dev) => "ATN" \in host /\ dev[call.dev].atn)
  <2>1. host' = host \cup {"DATA"} /\ todo' = Turn1(n) /\ DevicesKept /\ BytesKept
    BY <1>1, <1>4, OnLine
  <2>2. host' \subseteq {"ATN", "CLK", "DATA"} /\ "DATA" \in host' /\ ("ATN" \in host' <=> "ATN" \in host)
    BY <2>1, LinesAre
  <2>3. /\ Base' /\ Heeds /\ Talking' /\ Blank' /\ HasSent(0)' /\ call' = call /\ dev' = dev
        /\ (Here(call.dev)' <=> Here(call.dev)) /\ Turn1(n)' = Turn1(n)
    BY <1>3, <2>1, <2>2
  <2>4. (todo = Turn1(n))' /\ (Here(call.dev) => "ATN" \in host /\ dev[call.dev].atn)'
    BY <1>4, <2>1, <2>2, <2>3
  <2>5. Turning'
    BY <2>2, <2>3, <2>4 DEF Turning
  <2> QED BY <2>3, <2>5 DEF Somewhere
<1>5. CASE todo = Turn1(n) /\ "DATA" \in host /\ (Here(call.dev) => "ATN" \in host /\ dev[call.dev].atn)
  <2>1. host' = host \ {"ATN"} /\ todo' = Turn2(n) /\ DevicesKept /\ BytesKept
    BY <1>1, <1>5, OnLine
  <2>2. host' \subseteq {"ATN", "CLK", "DATA"} /\ "DATA" \in host' /\ "ATN" \notin host'
    BY <1>5, <2>1, LinesAre
  <2>3. /\ Base' /\ Heeds /\ Talking' /\ Blank' /\ HasSent(0)' /\ call' = call /\ dev' = dev
        /\ (Here(call.dev)' <=> Here(call.dev)) /\ Turn2(n)' = Turn2(n)
    BY <1>3, <2>1, <2>2
  <2>4. (todo = Turn2(n))' /\ (Here(call.dev) => dev[call.dev].atn)'
    BY <1>5, <2>1, <2>2, <2>3
  <2>5. Turning'
    BY <2>2, <2>3, <2>4 DEF Turning
  <2> QED BY <2>3, <2>5 DEF Somewhere
<1>6. CASE todo = Turn2(n) /\ "DATA" \in host /\ "ATN" \notin host
           /\ (Here(call.dev) => dev[call.dev].atn \/ (dev[call.dev].state \in {"turn", "clk", "offer"} /\ Alone))
  <2>1. host' = host \ {"CLK"} /\ todo' = Turn3(n) /\ DevicesKept /\ BytesKept
    BY <1>1, <1>6, OnLine
  <2>2. host' \subseteq {"ATN", "CLK", "DATA"} /\ "DATA" \in host' /\ "ATN" \notin host' /\ "CLK" \notin host'
    BY <1>6, <2>1, LinesAre
  <2>3. /\ Base' /\ Heeds /\ Talking' /\ Blank' /\ HasSent(0)' /\ call' = call /\ dev' = dev
        /\ (Here(call.dev)' <=> Here(call.dev)) /\ Turn3(n)' = Turn3(n) /\ (Alone => Alone')
    BY <1>3, <2>1, <2>2
  <2>4. (todo = Turn3(n))'
        /\ (Here(call.dev) => dev[call.dev].atn \/ (dev[call.dev].state \in {"turn", "clk", "offer"} /\ Alone))'
    BY <1>6, <2>1, <2>2, <2>3
  <2>5. Turning'
    BY <2>2, <2>3, <2>4 DEF Turning
  <2> QED BY <2>3, <2>5 DEF Somewhere
<1>7. CASE todo = Turn3(n) /\ "DATA" \in host /\ "ATN" \notin host /\ "CLK" \notin host
           /\ (Here(call.dev) => dev[call.dev].atn \/ (dev[call.dev].state \in {"turn", "clk", "offer"} /\ Alone))
  <2>1. /\ Low("CLK") = ("low" = "low") /\ host' = host /\ todo' = Turn4(n)
        /\ DevicesKept /\ CallKept /\ FlagsKept /\ buffer' = buffer /\ result' = result
        /\ n # 0 => BytesKept
        /\ n = 0 => terminator' = 1
    BY <1>1, <1>7, OnUntil
  <2>2. host' \subseteq {"ATN", "CLK", "DATA"} /\ "DATA" \in host' /\ "ATN" \notin host' /\ "CLK" \notin host'
    BY <1>7, <2>1, LinesAre
  <2>3. PICK e \in Devices : "CLK" \in dev[e].pull
    BY <1>7, <2>1 DEF Low
  <2>4. e = call.dev /\ Here(call.dev) /\ ~dev[e].atn /\ dev[e].state = "clk" /\ Alone
    <3>1. dev[e].state \in {"clk", "sent"} /\ ~dev[e].atn /\ dev[e].role \notin {"none", "listener"}
      <4>1. Fit(dev[e]) /\ dev[e].atn \in BOOLEAN
        BY DEF Base, DeviceRecord
      <4>2. dev[e].state \in {"clk", "sent"}
        BY <2>3, <4>1 DEF Fit, PullOf
      <4> QED BY <4>1, <4>2 DEF Fit, StatesOf
    <3>2. e = call.dev /\ dev[e].plugged
      BY <1>2, <3>1 DEF RolesAre
    <3> QED BY <1>7, <3>1, <3>2 DEF Here
  <2>5. n \in Nat /\ Len(Text) \in Nat /\ Len(Text) > 0
    <3>1. n \in Counts \cup {0}
      BY DEF Base, CallRecord
    <3>2. \A x \in Counts \cup {0} : x \in Nat
      BY IecAssumption
    <3> HIDE DEF n
    <3>3. n \in Nat
      BY <3>1, <3>2
    <3> QED BY <3>3, Typed
  <2>6. /\ call' = call /\ dev' = dev /\ Quiet' /\ RolesAre(call.dev, "talker")'
        /\ HasSent(0)' /\ (Here(call.dev)' <=> Here(call.dev)) /\ Alone'
    <3>1. call' = call /\ dev' = dev /\ queue' = queue /\ eoi_pending' = eoi_pending
      BY <2>1 DEF CallKept, DevicesKept, FlagsKept
    <3>2. Quiet'
      BY <1>2, <3>1 DEF Quiet
    <3> QED BY <1>2, <2>1, <2>4, <3>1, <3>2, Unmoved
  <2>7. buffer' = StatusOf(0) /\ Len(buffer') = 0 /\ result' = 0
    <3>1. Len(<<>>) = 0
      OBVIOUS
    <3> QED BY <1>2, <2>1, <3>1, StatusIs DEF Blank
  <2>8. CASE n = 0
    <3> DEFINE j == "untalk"
    <3>1. (todo = Untalk0)'
      BY <2>1, <2>6, <2>8 DEF Turn4
    <3>2. Answered'
      <4>1. BytesRead' = 0 /\ Returned' = 0 /\ terminator' = 1
        BY <2>1, <2>5, <2>6, <2>8 DEF BytesRead, Returned
      <4> QED BY <2>5, <2>7, <4>1 DEF Answered
    <3>3. call'.op = "status" /\ Served'
      BY <1>2, <2>6, <3>2 DEF Served
    <3>4. Before(j)'
      BY <2>6, <3>3 DEF Before, CallsOf, Target, RoleBefore, Second
    <3>5. Attentive(call.dev)'
      BY <2>2, <2>4, <2>6 DEF Attentive, Here
    <3>6. Untalking'
      BY <3>1, <3>4, <3>5 DEF Untalking
    <3>7. Base'
      <4>1. /\ host' \subseteq {"ATN", "CLK", "DATA"}
            /\ queue' # None => \E i \in DOMAIN call.msg : queue' = Data(call.msg[i])
            /\ eoi_pending' \in BOOLEAN /\ rx_eoi' \in BOOLEAN
        BY <2>1, <2>2 DEF Base, TypeOK, FlagsKept
      <4>2. terminator' \in {-1} \cup 1 .. call.count + 1
        <5>1. call.count = 0 /\ terminator' = 1
          BY <2>1, <2>8
        <5>2. 0 + 1 \in {-1} \cup 1 .. 0 + 1
          BY EndFits
        <5>3. 1 \in {-1} \cup 1 .. 0 + 1
          BY <5>2
        <5> QED BY <5>1, <5>3
      <4>3. dev' \in [Devices -> DeviceRecord] /\ \A d \in Devices : Fit(dev'[d])
        BY <2>6 DEF Base
      <4> QED BY <2>1, <4>1, <4>2, <4>3, TypedAfter
    <3>8. Heeds
      BY <2>1, <3>7, HeedsWhen
    <3> QED BY <3>6, <3>7, <3>8 DEF Somewhere
  <2>9. CASE n # 0
    <3>1. (todo = Receive0)'
      BY <2>1, <2>6, <2>9 DEF Turn4
    <3>2. Base' /\ Heeds /\ Talking'
      BY <1>3, <2>1, <2>2, <2>9
    <3>3. OnBus' /\ Begun' /\ HasSent(Len(buffer))'
      BY <2>2, <2>5, <2>6, <2>7, <2>9 DEF OnBus, Begun
    <3>4. Says({"clk", "offer", "sent"})'
      BY <2>4, <2>6 DEF Says
    <3>5. Awaiting'
      BY <2>2, <3>1, <3>2, <3>3, <3>4 DEF Awaiting
    <3> QED BY <3>2, <3>5 DEF Somewhere
  <2> QED BY <2>8, <2>9
<1> QED BY <1>4, <1>5, <1>6, <1>7 DEF Turning

(* A byte of the status is awaited, as the last one when nothing comes. *)
LEMMA AwaitingNext ==
  ASSUME Base, Awaiting, Controller
  PROVE  Base' /\ Somewhere' /\ Heeds
<1>1. /\ Receive0 = Then(<<"receive">>, Receive1) /\ Receive1 = Then(Free("DATA"), Receive2)
      /\ Receive2 = Then(Until("DATA", "high"), Receive3)
      /\ Last0 = Then(Pull("DATA"), Last1) /\ Last1 = Then(Sleep, Receive1)
      /\ Receive1 \in Seq(Steps) /\ Receive2 \in Seq(Steps) /\ Receive3 \in Seq(Steps) /\ Last1 \in Seq(Steps)
  BY CallRests, Zenon DEF Receive0, Receive1, Receive2, Last0, Last1
<1>2. /\ Talking /\ OnBus /\ Begun /\ HasSent(Len(buffer)) /\ Alone
      /\ "ATN" \notin host /\ "CLK" \notin host /\ Len(buffer) < call.count
  BY DEF Awaiting, OnBus
<1>3. ASSUME DevicesKept, CallKept, AnswerKept, queue' = queue, eoi_pending' = eoi_pending, rx_eoi' \in BOOLEAN,
             host' \subseteq {"CLK", "DATA", "ATN"}, "ATN" \notin host', "CLK" \notin host'
      PROVE  /\ Base' /\ Heeds /\ Talking' /\ OnBus' /\ Begun' /\ HasSent(Len(buffer))'
             /\ IsLast => IsLast'
             /\ \A S : Says(S) => Says(S)'
             /\ Here(call.dev)' <=> Here(call.dev)
             /\ Awaiting' => Somewhere'
  <2>1. Base'
    <3>1. /\ dev' \in [Devices -> DeviceRecord] /\ (\A e \in Devices : Fit(dev'[e])) /\ eoi_pending' \in BOOLEAN
          /\ queue' # None => \E n \in DOMAIN call.msg : queue' = Data(call.msg[n])
      BY <1>3 DEF Base, TypeOK, DevicesKept
    <3> QED BY <1>3, <3>1, BaseAfter
  <2>2. Heeds
    BY <1>3, <2>1, HeedsWhen
  <2>3. Talking' /\ Begun'
    BY <1>2, <1>3, Untouched
  <2>4. /\ HasSent(Len(buffer))' /\ (IsLast => IsLast') /\ (Here(call.dev)' <=> Here(call.dev)) /\ Alone'
        /\ \A S : Says(S) => Says(S)'
    <3> DEFINE n == Len(buffer)
    <3>1. n' = n
      BY <1>3 DEF AnswerKept
    <3>2. HasSent(n) => \A x : x = n => (HasSent(x))'
      BY <1>3, Unmoved
    <3>3. HasSent(n)'
      BY <1>2, <3>1, <3>2
    <3> QED BY <1>2, <1>3, <3>3, Unmoved
  <2>5. OnBus'
    BY <1>2, <1>3, <2>4 DEF OnBus, AnswerKept, CallKept
  <2> QED BY <2>1, <2>2, <2>3, <2>4, <2>5 DEF Somewhere
<1>4. ASSUME DevicesKept, BytesKept
      PROVE  /\ DevicesKept /\ CallKept /\ AnswerKept /\ queue' = queue /\ eoi_pending' = eoi_pending
             /\ rx_eoi' = rx_eoi /\ rx_eoi' \in BOOLEAN
  BY <1>4 DEF BytesKept, FlagsKept, Base, TypeOK
<1>5. host \subseteq {"ATN", "CLK", "DATA"} /\ \A e \in Devices : Fit(dev[e])
  BY LinesAre DEF Base
<1>6. CASE todo = Receive0 /\ "DATA" \in host /\ Says({"clk", "offer", "sent"})
  <2>1. /\ ~Low("CLK") /\ host' = host /\ DevicesKept /\ CallKept /\ AnswerKept
        /\ queue' = queue /\ eoi_pending' = eoi_pending /\ rx_eoi' = FALSE /\ todo' = Receive1
    BY <1>6, OnReceive
  <2>2. Says({"offer"})
    <3> SUFFICES ASSUME call.dev \in Devices, dev[call.dev].plugged
                 PROVE  ~dev[call.dev].atn /\ dev[call.dev].state = "offer"
      BY DEF Says, Here
    <3>1. ~dev[call.dev].atn /\ dev[call.dev].state \in {"clk", "offer", "sent"}
      BY <1>6 DEF Says, Here
    <3>2. "CLK" \notin dev[call.dev].pull
      BY <2>1 DEF Low
    <3> QED BY <1>5, <3>1, <3>2 DEF Fit, PullOf
  <2>3. /\ Base' /\ Heeds /\ Talking' /\ OnBus' /\ Begun' /\ HasSent(Len(buffer))'
        /\ Says({"offer"})' /\ (Awaiting' => Somewhere')
    BY <1>2, <1>3, <1>5, <2>1, <2>2
  <2>4. (todo = Receive1)' /\ "DATA" \in host'
    BY <1>6, <2>1
  <2>5. Awaiting'
    BY <2>1, <2>3, <2>4 DEF Awaiting
  <2> QED BY <2>3, <2>5
<1>7. CASE todo = Receive1 /\ "DATA" \in host
           /\ \/ rx_eoi = FALSE /\ Says({"offer"})
              \/ rx_eoi = TRUE /\ IsLast /\ Says({"acked"})
  <2>1. host' = host \ {"DATA"} /\ todo' = Receive2 /\ DevicesKept /\ BytesKept
    BY <1>1, <1>7, OnLine
  <2>2. host' \subseteq {"CLK", "DATA", "ATN"} /\ "ATN" \notin host' /\ "CLK" \notin host' /\ "DATA" \notin host'
    BY <1>2, <1>5, <2>1
  <2>3. /\ Base' /\ Heeds /\ Talking' /\ OnBus' /\ Begun' /\ HasSent(Len(buffer))'
        /\ (\A S : Says(S) => Says(S)') /\ (IsLast => IsLast') /\ (Awaiting' => Somewhere') /\ rx_eoi' = rx_eoi
    BY <1>3, <1>4, <2>1, <2>2
  <2>4. (todo = Receive2)'
    BY <2>1
  <2>5. CASE rx_eoi = FALSE /\ Says({"offer"})
    <3>1. Says({"offer", "due"})
      BY <2>5 DEF Says
    <3>2. Says({"offer", "due"})' /\ rx_eoi' = FALSE
      BY <2>3, <2>5, <3>1
    <3>3. Awaiting'
      BY <2>2, <2>3, <2>4, <3>2 DEF Awaiting
    <3> QED BY <2>3, <3>3
  <2>6. CASE rx_eoi = TRUE /\ IsLast /\ Says({"acked"})
    <3>1. Says({"acked"})' /\ IsLast' /\ rx_eoi' = TRUE
      BY <2>3, <2>6
    <3>2. Awaiting'
      BY <2>2, <2>3, <2>4, <3>1 DEF Awaiting
    <3> QED BY <2>3, <3>2
  <2> QED BY <1>7, <2>5, <2>6
<1>8. CASE todo = Receive2 /\ "DATA" \notin host
           /\ \/ rx_eoi = FALSE /\ Says({"offer", "due"})
              \/ rx_eoi = TRUE /\ IsLast /\ Says({"acked"})
  <2>1. host' = host /\ todo' = Receive3 /\ DevicesKept /\ BytesKept
    BY <1>1, <1>8, OnUntil
  <2>2. host' \subseteq {"CLK", "DATA", "ATN"} /\ "ATN" \notin host' /\ "CLK" \notin host' /\ "DATA" \notin host'
    BY <1>2, <1>5, <1>8, <2>1
  <2>3. /\ Base' /\ Heeds /\ Talking' /\ OnBus' /\ Begun' /\ HasSent(Len(buffer))'
        /\ (\A S : Says(S) => Says(S)') /\ (IsLast => IsLast') /\ (Awaiting' => Somewhere') /\ rx_eoi' = rx_eoi
    BY <1>3, <1>4, <2>1, <2>2
  <2>4. (todo = Receive3)'
    BY <2>1
  <2>5. \/ rx_eoi' = FALSE /\ Says({"offer", "due"})'
        \/ rx_eoi' = TRUE /\ IsLast' /\ Says({"acked"})'
    BY <1>8, <2>3
  <2>6. Awaiting'
    BY <2>2, <2>3, <2>4, <2>5 DEF Awaiting
  <2> QED BY <2>3, <2>6
<1>9. CASE todo = Receive3 /\ "DATA" \notin host
           /\ \/ rx_eoi = FALSE /\ Says({"offer", "due"})
              \/ rx_eoi = TRUE /\ IsLast /\ Says({"acked"})
  <2>1. /\ ~Low("CLK") /\ Settled /\ \A d \in Devices : ~Sends(d)
        /\ host' = host /\ DevicesKept /\ CallKept /\ AnswerKept
        /\ queue' = queue /\ eoi_pending' = eoi_pending
        /\ \/ rx_eoi /\ rx_eoi' = rx_eoi /\ todo' = Take3(Data(Garbage))
           \/ ~rx_eoi /\ rx_eoi' = TRUE /\ todo' = Last0
    BY <1>9, OnBits
  <2>2. host' \subseteq {"CLK", "DATA", "ATN"} /\ "ATN" \notin host' /\ "CLK" \notin host' /\ "DATA" \notin host'
        /\ rx_eoi' \in BOOLEAN
    BY <1>2, <1>5, <1>9, <2>1
  <2>3. /\ Base' /\ Heeds /\ Talking' /\ OnBus' /\ Begun' /\ HasSent(Len(buffer))'
        /\ (\A S : Says(S) => Says(S)') /\ (IsLast => IsLast') /\ (Awaiting' => Somewhere')
        /\ (Here(call.dev)' <=> Here(call.dev))
    BY <1>3, <2>1, <2>2
  <2>4. CASE rx_eoi = FALSE /\ Says({"offer", "due"})
    <3>1. ASSUME Here(call.dev)
          PROVE  ~dev[call.dev].atn /\ dev[call.dev].state = "due" /\ Last(call.dev)
      <4>1. call.dev \in Devices /\ dev[call.dev].plugged
        BY <3>1 DEF Here
      <4>2. ~dev[call.dev].atn /\ dev[call.dev].state \in {"offer", "due"}
        BY <2>4, <3>1 DEF Says
      <4>3. dev[call.dev].state # "offer"
        <5> SUFFICES ASSUME dev[call.dev].state = "offer" PROVE FALSE
          OBVIOUS
        <5>1. ~Low("DATA")
          BY <1>2, <1>9, <3>1, NobodyElse
        <5> QED BY <2>1, <4>1, <5>1 DEF Settled, Owes
      <4>4. Last(call.dev)
        BY <2>1, <4>1, <4>2, <4>3 DEF Sends
      <4> QED BY <4>2, <4>3, <4>4
    <3>2. Says({"due"}) /\ IsLast
      BY <3>1 DEF Says, IsLast
    <3>3. (todo = Last0)' /\ rx_eoi' = TRUE
      BY <2>1, <2>4
    <3>4. Awaiting'
      BY <2>2, <2>3, <3>2, <3>3 DEF Awaiting
    <3> QED BY <2>3, <3>4
  <2>5. CASE rx_eoi = TRUE /\ IsLast /\ Says({"acked"})
    <3>1. ~Here(call.dev)
      <4> SUFFICES ASSUME Here(call.dev) PROVE FALSE
        OBVIOUS
      <4> QED BY <2>1, <2>5 DEF Says, Here, Sends
    <3>2. (todo = Take3(Data(Garbage)))' /\ rx_eoi' = TRUE
      BY <2>1, <2>5
    <3>3. Missing'
      BY <2>3, <3>1, <3>2 DEF Missing
    <3> QED BY <2>3, <3>3 DEF Somewhere
  <2> QED BY <1>9, <2>4, <2>5
<1>10. CASE todo = Last0 /\ "DATA" \notin host /\ rx_eoi = TRUE /\ IsLast /\ Says({"due"})
  <2>1. host' = host \cup {"DATA"} /\ todo' = Last1 /\ DevicesKept /\ BytesKept
    BY <1>1, <1>10, OnLine
  <2>2. host' \subseteq {"CLK", "DATA", "ATN"} /\ "ATN" \notin host' /\ "CLK" \notin host' /\ "DATA" \in host'
    BY <1>2, <1>5, <2>1
  <2>3. /\ Base' /\ Heeds /\ Talking' /\ OnBus' /\ Begun' /\ HasSent(Len(buffer))'
        /\ (\A S : Says(S) => Says(S)') /\ (IsLast => IsLast') /\ (Awaiting' => Somewhere') /\ rx_eoi' = rx_eoi
    BY <1>3, <1>4, <2>1, <2>2
  <2>4. Says({"due", "acked"})
    BY <1>10 DEF Says
  <2>5. (todo = Last1)' /\ rx_eoi' = TRUE /\ IsLast' /\ Says({"due", "acked"})'
    BY <1>10, <2>1, <2>3, <2>4
  <2>6. Awaiting'
    BY <2>2, <2>3, <2>5 DEF Awaiting
  <2> QED BY <2>3, <2>6
<1>11. CASE todo = Last1 /\ "DATA" \in host /\ rx_eoi = TRUE /\ IsLast /\ Says({"due", "acked"})
  <2>1. Settled /\ host' = host /\ todo' = Receive1 /\ DevicesKept /\ BytesKept
    BY <1>1, <1>11, OnSleep
  <2>2. host' \subseteq {"CLK", "DATA", "ATN"} /\ "ATN" \notin host' /\ "CLK" \notin host' /\ "DATA" \in host'
    BY <1>2, <1>5, <1>11, <2>1
  <2>3. /\ Base' /\ Heeds /\ Talking' /\ OnBus' /\ Begun' /\ HasSent(Len(buffer))'
        /\ (\A S : Says(S) => Says(S)') /\ (IsLast => IsLast') /\ (Awaiting' => Somewhere') /\ rx_eoi' = rx_eoi
    BY <1>3, <1>4, <2>1, <2>2
  <2>4. Says({"acked"})
    <3> SUFFICES ASSUME call.dev \in Devices, dev[call.dev].plugged
                 PROVE  ~dev[call.dev].atn /\ dev[call.dev].state = "acked"
      BY DEF Says, Here
    <3>1. ~dev[call.dev].atn /\ dev[call.dev].state \in {"due", "acked"} /\ Last(call.dev)
      BY <1>11 DEF Says, Here, IsLast
    <3>2. Low("DATA") /\ ~Owes(call.dev)
      BY <1>11, <2>1 DEF Low, Settled
    <3> QED BY <3>1, <3>2 DEF Owes
  <2>5. (todo = Receive1)' /\ rx_eoi' = TRUE /\ IsLast' /\ Says({"acked"})'
    BY <1>11, <2>1, <2>3, <2>4
  <2>6. Awaiting'
    BY <2>2, <2>3, <2>5 DEF Awaiting
  <2> QED BY <2>3, <2>6
<1> QED BY <1>6, <1>7, <1>8, <1>9, <1>10, <1>11 DEF Awaiting

(* The types after a byte has been stored. *)
LEMMA StoreBase ==
  ASSUME Base, NEW b \in Letters, b \in Stored, Len(buffer) < call.count,
         host' = host, DevicesKept, CallKept, FlagsKept,
         buffer' = Append(buffer, b), result' \in {Len(buffer), Len(buffer')},
         terminator' \in {result' + 1, terminator}
  PROVE  /\ Base' /\ Heeds /\ (Quiet => Quiet')
         /\ dev' = dev /\ call' = call
         /\ Len(buffer) \in Nat /\ Len(buffer') = Len(buffer) + 1
<1>1. buffer \in Seq(Letters) /\ call \in CallRecord /\ TypeOK
  BY DEF Base
<1>2. Len(buffer) \in Nat /\ DOMAIN buffer = 1 .. Len(buffer)
  BY <1>1, LenProperties
<1>3. /\ buffer' \in Seq(Letters) /\ Len(buffer') = Len(buffer) + 1
      /\ \A n \in 1 .. Len(buffer) : buffer'[n] = buffer[n]
      /\ buffer'[Len(buffer) + 1] = b
  BY <1>1, AppendProperties
<1>4. DOMAIN buffer' = 1 .. Len(buffer')
  BY <1>3, LenProperties
<1>5. \A n \in DOMAIN buffer' : buffer'[n] \in Stored
  <2> TAKE n \in DOMAIN buffer'
  <2>1. n \in 1 .. Len(buffer) \/ n = Len(buffer) + 1
    BY <1>2, <1>3, <1>4
  <2>2. \A m \in 1 .. Len(buffer) : buffer[m] \in Stored
    BY <1>1, <1>2 DEF TypeOK
  <2> QED BY <1>3, <2>1, <2>2
<1>6. call.count \in Nat
  <2>1. call.count \in Counts \cup {0}
    BY <1>1 DEF CallRecord
  <2>2. \A x \in Counts \cup {0} : x \in Nat
    BY IecAssumption
  <2> QED BY <2>1, <2>2
<1>7. dev' = dev /\ call' = call /\ queue' = queue /\ eoi_pending' = eoi_pending /\ rx_eoi' = rx_eoi
  BY DEF DevicesKept, CallKept, FlagsKept
<1>8. /\ Len(buffer') <= call.count /\ result' \in Nat /\ terminator' \in Int
      /\ terminator' \in {-1} \cup 1 .. call.count + 1
  <2>1. terminator \in Int /\ terminator \in {-1} \cup 1 .. call.count + 1
    BY <1>1 DEF Base, TypeOK
  <2>2. Len(buffer') <= call.count /\ result' \in Nat /\ result' <= call.count
    BY <1>2, <1>3, <1>6
  <2>3. CASE terminator' = result' + 1
    BY <1>6, <2>2, <2>3, EndFits
  <2>4. CASE terminator' = terminator
    BY <2>1, <2>2, <2>4
  <2> QED BY <2>3, <2>4
<1>9. TypeOK'
  <2>1. Stored' = Stored
    BY DEF Stored
  <2>2. /\ host' \subseteq {"ATN", "CLK", "DATA"}
        /\ \A d \in Devices : /\ dev'[d].pull \subseteq {"CLK", "DATA"}
                              /\ ~dev'[d].plugged => dev'[d] = NoDevice
                              /\ dev'[d].sent \in 0 .. Len(Text)
        /\ queue' # None => \E i \in DOMAIN call'.msg : queue' = Data(call'.msg[i])
        /\ eoi_pending' \in BOOLEAN /\ rx_eoi' \in BOOLEAN
    BY <1>1, <1>7 DEF TypeOK
  <2>3. Len(buffer') <= call'.count /\ terminator' \in {-1} \cup 1 .. call'.count + 1
    BY <1>7, <1>8
  <2> QED BY <1>5, <2>2, <2>3 DEF TypeOK
<1>10. Base'
  <2>1. dev' \in [Devices -> DeviceRecord] /\ (\A d \in Devices : Fit(dev'[d])) /\ call' \in CallRecord
    BY <1>7 DEF Base
  <2> QED BY <1>3, <1>8, <1>9, <2>1 DEF Base
<1>11. Heeds
  BY <1>10, HeedsWhen
<1>12. Quiet => Quiet'
  BY <1>7 DEF Quiet
<1> QED BY <1>2, <1>3, <1>7, <1>10, <1>11, <1>12

(* The talker has gone: a byte of garbage is stored. *)
LEMMA MissingNext ==
  ASSUME Base, Missing, Controller
  PROVE  Base' /\ Somewhere' /\ Heeds
<1> DEFINE b == Data(Garbage)
<1>1. b \in Letters /\ b \in Stored
  BY Typed DEF Stored
<1>2. Talking /\ Len(buffer) < call.count /\ "ATN" \notin host /\ rx_eoi = TRUE /\ ~Here(call.dev)
      /\ todo = Take3(b) /\ call.op = "status" /\ Quiet /\ RolesAre(call.dev, "talker")
  BY DEF Missing, OnBus, Talking
<1> HIDE DEF b
<1>3. /\ host' = host /\ DevicesKept /\ CallKept /\ FlagsKept
      /\ buffer' = Append(buffer, b)
      /\ result' = IF rx_eoi THEN Len(buffer) ELSE Len(buffer')
      /\ terminator' = IF rx_eoi \/ Len(buffer') = call.count THEN result' + 1 ELSE terminator
      /\ todo' = IF rx_eoi \/ Len(buffer') = call.count THEN Untalk0 ELSE Receive0
  BY <1>1, <1>2, OnStore
<1>4. Base' /\ Heeds /\ Quiet' /\ dev' = dev /\ call' = call /\ todo' = Untalk0
  <2>1. result' \in {Len(buffer), Len(buffer')} /\ terminator' \in {result' + 1, terminator} /\ todo' = Untalk0
    BY <1>2, <1>3
  <2> QED BY <1>1, <1>2, <1>3, <2>1, StoreBase
<1>5. ~Here(call.dev)' /\ RolesAre(call.dev, "talker")'
  BY <1>2, <1>3, <1>4, Unmoved
<1>6. Served' /\ call'.op = "status"
  BY <1>2, <1>4, <1>5 DEF Served, Answered
<1>7. Before("untalk")'
  BY <1>4, <1>5, <1>6 DEF Before, CallsOf, Target, RoleBefore, Second
<1>8. Attentive(call.dev)'
  BY <1>5 DEF Attentive
<1>9. Untalking'
  BY <1>4, <1>7, <1>8 DEF Untalking
<1> QED BY <1>4, <1>9 DEF Somewhere

(* A byte of the status is stored, and the next one or the end follows. *)
LEMMA TakingNext ==
  ASSUME Base, NEW i \in DOMAIN Text, Taking(i), Controller
  PROVE  Base' /\ Somewhere' /\ Heeds
<1> DEFINE b == Data(Text[i])
<1>1. /\ b \in Letters /\ b \in Stored /\ Len(Text) \in Nat /\ i \in 1 .. Len(Text)
      /\ Len(buffer) \in Nat
  <2>1. Text \in Seq(Bytes) /\ buffer \in Seq(Letters)
    BY IecAssumption DEF Base
  <2>2. Len(Text) \in Nat /\ i \in 1 .. Len(Text) /\ Len(buffer) \in Nat
    BY <2>1, LenProperties
  <2>3. b \in Stored
    BY DEF Stored
  <2> QED BY <2>2, <2>3, Typed
<1>2. /\ Take1(b) \in Seq(Steps) /\ Take2(b) \in Seq(Steps) /\ Take3(b) \in Seq(Steps)
      /\ Take0(b) = Then(Sleep, Take1(b)) /\ Take1(b) = Then(Pull("DATA"), Take2(b))
      /\ Take2(b) = Then(Sleep, Take3(b))
  <2> DEFINE none == <<>>
  <2>1. none \in Seq(Steps)
    BY CallRests
  <2> HIDE DEF b, none
  <2> QED BY <1>1, <2>1, Rests DEF Take0, Take1, Take2
<1>3. /\ Talking /\ OnBus /\ Begun /\ Alone /\ Quiet /\ call.op = "status" /\ RolesAre(call.dev, "talker")
      /\ "ATN" \notin host /\ "CLK" \notin host /\ Len(buffer) < call.count
      /\ Here(call.dev) =>
           /\ i = Len(buffer) + 1 /\ dev[call.dev].sent = i
           /\ rx_eoi = (i = Len(Text))
  BY DEF Taking, OnBus, Talking
<1>4. ASSUME DevicesKept, BytesKept, host' \subseteq {"CLK", "DATA", "ATN"}, "ATN" \notin host', "CLK" \notin host'
      PROVE  /\ Base' /\ Heeds /\ Talking' /\ OnBus' /\ Begun' /\ dev' = dev /\ call' = call
             /\ (Here(call.dev) =>
                  /\ i = Len(buffer) + 1 /\ dev[call.dev].sent = i
                  /\ rx_eoi = (i = Len(Text)))'
             /\ \A S : Says(S) => Says(S)'
             /\ Taking(i)' => Somewhere'
  <2>1. /\ Base' /\ Heeds /\ CallKept /\ AnswerKept /\ dev' = dev /\ call' = call
        /\ queue' = queue /\ eoi_pending' = eoi_pending /\ rx_eoi' = rx_eoi
    BY <1>4, PlainStep
  <2>2. Talking' /\ Begun'
    BY <1>3, <1>4, <2>1, Untouched
  <2>3. Alone' /\ (Here(call.dev)' <=> Here(call.dev)) /\ \A S : Says(S) => Says(S)'
    BY <1>3, <1>4, <2>1, Unmoved
  <2>4. OnBus' /\ buffer' = buffer
    BY <1>3, <1>4, <2>1, <2>3 DEF OnBus, AnswerKept
  <2>5. (Here(call.dev) =>
           /\ i = Len(buffer) + 1 /\ dev[call.dev].sent = i
           /\ rx_eoi = (i = Len(Text)))'
    BY <1>3, <2>1, <2>3, <2>4
  <2> QED BY <2>1, <2>2, <2>3, <2>4, <2>5 DEF Somewhere
<1>5. host \subseteq {"ATN", "CLK", "DATA"} /\ \A e \in Devices : Fit(dev[e])
  BY LinesAre DEF Base
<1>6. CASE todo = Take0(b) /\ "DATA" \notin host /\ Says({"sent"})
  <2>1. host' = host /\ todo' = Take1(b) /\ DevicesKept /\ BytesKept
    BY <1>2, <1>6, OnSleep
  <2>2. /\ Base' /\ Heeds /\ Talking' /\ OnBus' /\ Begun'
        /\ (Here(call.dev) =>
                  /\ i = Len(buffer) + 1 /\ dev[call.dev].sent = i
                  /\ rx_eoi = (i = Len(Text)))'
        /\ Says({"sent"})' /\ (Taking(i)' => Somewhere') /\ "DATA" \notin host'
    BY <1>3, <1>4, <1>5, <1>6, <2>1
  <2>3. (todo = Take1(b))'
    BY <2>1
  <2>4. Taking(i)'
    BY <2>2, <2>3 DEF Taking
  <2> QED BY <2>2, <2>4
<1>7. CASE todo = Take1(b) /\ "DATA" \notin host /\ Says({"sent"})
  <2>1. host' = host \cup {"DATA"} /\ todo' = Take2(b) /\ DevicesKept /\ BytesKept
    BY <1>2, <1>7, OnLine
  <2>2. host' \subseteq {"CLK", "DATA", "ATN"} /\ "ATN" \notin host' /\ "CLK" \notin host' /\ "DATA" \in host'
    BY <1>3, <1>5, <2>1
  <2>3. Says({"sent", "clk", "offer", "done"})
    BY <1>7 DEF Says
  <2>4. /\ Base' /\ Heeds /\ Talking' /\ OnBus' /\ Begun'
        /\ (Here(call.dev) =>
                  /\ i = Len(buffer) + 1 /\ dev[call.dev].sent = i
                  /\ rx_eoi = (i = Len(Text)))'
        /\ Says({"sent", "clk", "offer", "done"})' /\ (Taking(i)' => Somewhere')
    BY <1>4, <2>1, <2>2, <2>3
  <2>5. (todo = Take2(b))'
    BY <2>1
  <2>6. Taking(i)'
    BY <2>2, <2>4, <2>5 DEF Taking
  <2> QED BY <2>4, <2>6
<1>8. CASE todo = Take2(b) /\ "DATA" \in host /\ Says({"sent", "clk", "offer", "done"})
  <2>1. host' = host /\ todo' = Take3(b) /\ DevicesKept /\ BytesKept
    BY <1>2, <1>8, OnSleep
  <2>2. /\ Base' /\ Heeds /\ Talking' /\ OnBus' /\ Begun'
        /\ (Here(call.dev) =>
                  /\ i = Len(buffer) + 1 /\ dev[call.dev].sent = i
                  /\ rx_eoi = (i = Len(Text)))'
        /\ Says({"sent", "clk", "offer", "done"})' /\ (Taking(i)' => Somewhere') /\ "DATA" \in host'
    BY <1>3, <1>4, <1>5, <1>8, <2>1
  <2>3. (todo = Take3(b))'
    BY <2>1
  <2>4. Taking(i)'
    BY <2>2, <2>3 DEF Taking
  <2> QED BY <2>2, <2>4
<1>9. CASE todo = Take3(b) /\ "DATA" \in host /\ Says({"sent", "clk", "offer", "done"})
  <2>1. /\ host' = host /\ DevicesKept /\ CallKept /\ FlagsKept
        /\ buffer' = Append(buffer, b)
        /\ result' = IF rx_eoi THEN Len(buffer) ELSE Len(buffer')
        /\ terminator' = IF rx_eoi \/ Len(buffer') = call.count THEN result' + 1 ELSE terminator
        /\ todo' = IF rx_eoi \/ Len(buffer') = call.count THEN Untalk0 ELSE Receive0
    <3> HIDE DEF b
    <3> QED BY <1>1, <1>9, OnStore
  <2>2. /\ Base' /\ Heeds /\ Quiet' /\ dev' = dev /\ call' = call
        /\ Len(buffer') = Len(buffer) + 1
    <3>1. result' \in {Len(buffer), Len(buffer')} /\ terminator' \in {result' + 1, terminator}
      BY <2>1
    <3> HIDE DEF b
    <3> QED BY <1>1, <1>3, <2>1, <3>1, StoreBase
  <2>3. /\ RolesAre(call.dev, "talker")' /\ Alone' /\ (Here(call.dev)' <=> Here(call.dev))
        /\ Says({"sent", "clk", "offer", "done"})'
    BY <1>3, <1>9, <2>1, <2>2, Unmoved
  <2>4. ASSUME Here(call.dev)
        PROVE  /\ Len(buffer') = i /\ buffer' = StatusOf(Len(buffer'))
               /\ rx_eoi = (i = Len(Text)) /\ dev[call.dev].sent = i
    <3>1. i = Len(buffer) + 1 /\ buffer = StatusOf(Len(buffer)) /\ Len(buffer) < Len(Text)
          /\ rx_eoi = (i = Len(Text)) /\ dev[call.dev].sent = i
      BY <1>3, <2>4 DEF Begun
    <3>2. Append(StatusOf(Len(buffer)), Data(Text[Len(buffer) + 1])) = StatusOf(Len(buffer) + 1)
      BY <1>1, <3>1, StatusIs
    <3> QED BY <2>1, <2>2, <3>1, <3>2
  <2>5. call'.op = "status" /\ Talking'
    BY <1>3, <2>2, <2>3 DEF Talking
  <2>6. CASE rx_eoi \/ Len(buffer') = call.count
    <3>1. todo' = Untalk0
      BY <2>1, <2>6
    <3>2. Answered'
      <4> SUFFICES ASSUME Here(call.dev)'
                   PROVE  /\ Len(buffer') <= Len(Text) /\ buffer' = StatusOf(Len(buffer'))
                          /\ Len(buffer') = BytesRead' /\ result' = Returned' /\ terminator' = result' + 1
        BY DEF Answered
      <4>1. Len(buffer') = i /\ buffer' = StatusOf(Len(buffer')) /\ rx_eoi = (i = Len(Text))
        BY <2>3, <2>4
      <4>2. terminator' = result' + 1 /\ BytesRead' = BytesRead /\ Returned' = Returned
        BY <2>1, <2>2, <2>6 DEF BytesRead, Returned
      <4>3. call.count \in Nat /\ i <= call.count
        <5>1. call.count \in Counts \cup {0}
          BY DEF Base, CallRecord
        <5>2. \A x \in Counts \cup {0} : x \in Nat
          BY IecAssumption
        <5>3. call.count \in Nat
          BY <5>1, <5>2
        <5>4. Len(buffer) < call.count /\ Len(buffer) + 1 = i
          BY <1>3, <2>2, <4>1
        <5> QED BY <1>1, <5>3, <5>4
      <4>4. CASE i = Len(Text)
        <5> HIDE DEF b
        <5>1. result' = Len(buffer) /\ Len(buffer) = Len(Text) - 1
          <6>1. rx_eoi /\ Len(buffer) + 1 = Len(Text)
            BY <2>2, <4>1, <4>4
          <6>2. result' = Len(buffer)
            BY <2>1, <6>1
          <6> QED BY <1>1, <6>1, <6>2
        <5>2. BytesRead = Len(Text) /\ Returned = Len(Text) - 1
          BY <1>1, <4>3, <4>4 DEF BytesRead, Returned
        <5> QED BY <1>1, <4>1, <4>2, <4>4, <5>1, <5>2
      <4>5. CASE i # Len(Text)
        <5> HIDE DEF b
        <5>1. Len(buffer') = call.count /\ result' = Len(buffer') /\ i < Len(Text)
          <6>1. ~rx_eoi
            BY <4>1, <4>5
          <6>2. result' = Len(buffer') /\ Len(buffer') = call.count
            BY <2>1, <2>6, <6>1
          <6>3. i < Len(Text)
            BY <1>1, <4>5
          <6> QED BY <6>2, <6>3
        <5>2. BytesRead = call.count /\ Returned = call.count
          BY <4>1, <5>1 DEF BytesRead, Returned
        <5> QED BY <1>1, <4>1, <4>2, <5>1, <5>2
      <4> QED BY <4>4, <4>5
    <3>3. Before("untalk")'
      BY <2>2, <2>3, <2>5, <3>2 DEF Before, CallsOf, Target, RoleBefore, Second, Served
    <3>4. Attentive(call.dev)'
      BY <1>3, <2>1, <2>3 DEF Attentive, Says
    <3>5. Untalking'
      BY <3>1, <3>3, <3>4 DEF Untalking
    <3> QED BY <2>2, <3>5 DEF Somewhere
  <2>7. CASE ~(rx_eoi \/ Len(buffer') = call.count)
    <3>1. todo' = Receive0
      BY <2>1, <2>7
    <3>2. Len(buffer') < call'.count
      <4>1. call.count \in Nat
        <5>1. call.count \in Counts \cup {0}
          BY DEF Base, CallRecord
        <5>2. \A x \in Counts \cup {0} : x \in Nat
          BY IecAssumption
        <5> QED BY <5>1, <5>2
      <4> QED BY <1>1, <1>3, <2>2, <2>7, <4>1
    <3>3. OnBus'
      BY <1>3, <2>1, <2>3, <3>2 DEF OnBus
    <3>4. Begun' /\ HasSent(Len(buffer))'
      <4> SUFFICES ASSUME Here(call.dev)'
                   PROVE  Len(buffer') < Len(Text) /\ buffer' = StatusOf(Len(buffer'))
                          /\ dev'[call'.dev].sent = Len(buffer')
        BY DEF Begun, HasSent
      <4>1. /\ Len(buffer') = i /\ buffer' = StatusOf(Len(buffer'))
            /\ rx_eoi = (i = Len(Text)) /\ dev[call.dev].sent = i
        BY <2>3, <2>4
      <4>2. i # Len(Text)
        BY <2>7, <4>1
      <4>3. i < Len(Text)
        BY <1>1, <4>2
      <4>4. dev'[call'.dev].sent = Len(buffer')
        BY <2>2, <4>1
      <4> QED BY <4>1, <4>3, <4>4
    <3>5. Says({"clk", "offer", "sent"})'
      <4> SUFFICES ASSUME Here(call.dev)'
                   PROVE  ~dev'[call'.dev].atn /\ dev'[call'.dev].state \in {"clk", "offer", "sent"}
        BY DEF Says
      <4>1. ~dev'[call'.dev].atn /\ dev'[call'.dev].state \in {"sent", "clk", "offer", "done"}
        BY <2>3 DEF Says
      <4>2. dev[call.dev].sent = i /\ rx_eoi = (i = Len(Text)) /\ call.dev \in Devices
        BY <2>3, <2>4 DEF Here
      <4>3. dev[call.dev].state = "done" => dev[call.dev].sent = Len(Text)
        BY <1>5, <4>2 DEF Fit
      <4> QED BY <2>2, <2>7, <4>1, <4>2, <4>3
    <3>6. Awaiting'
      BY <1>9, <2>1, <2>5, <3>1, <3>3, <3>4, <3>5 DEF Awaiting
    <3> QED BY <2>2, <3>6 DEF Somewhere
  <2> QED BY <2>6, <2>7
<1> QED BY <1>6, <1>7, <1>8, <1>9 DEF Taking

-----------------------------------------------------------------------------
(* Calls that start, and the invariant. *)

(* What every call starts from. *)
LEMMA StartIs ==
  ASSUME Base, Finished, host' = host, dev' = dev, call' \in CallRecord,
         queue' = None, eoi_pending' = eoi_pending, rx_eoi' = rx_eoi,
         buffer' = <<>>, terminator' = -1, result' = 0
  PROVE  /\ Base' /\ Heeds /\ Off' /\ Quiet' /\ Blank' /\ "DATA" \notin host'
         /\ \A d : RolesAre(d, "none")'
<1>1. /\ buffer' \in Seq(Letters) /\ Len(buffer') = 0 /\ DOMAIN buffer' = {}
  OBVIOUS
<1>2. 0 <= call'.count
  <2>1. call'.count \in Counts \cup {0}
    BY DEF CallRecord
  <2>2. \A x \in Counts \cup {0} : x \in Nat
    BY IecAssumption
  <2> QED BY <2>1, <2>2
<1>3. TypeOK'
  <2>1. /\ host' \subseteq {"ATN", "CLK", "DATA"}
        /\ \A d \in Devices : /\ dev'[d].pull \subseteq {"CLK", "DATA"}
                              /\ ~dev'[d].plugged => dev'[d] = NoDevice
                              /\ dev'[d].sent \in 0 .. Len(Text)
        /\ eoi_pending' \in BOOLEAN /\ rx_eoi' \in BOOLEAN
    BY DEF Base, TypeOK
  <2>2. Len(buffer') <= call'.count /\ \A i \in DOMAIN buffer' : buffer'[i] \in Stored'
    BY <1>1, <1>2
  <2>3. terminator' \in {-1} \cup 1 .. call'.count + 1
    OBVIOUS
  <2> QED BY <2>1, <2>2, <2>3 DEF TypeOK
<1>4. Base'
  <2>1. /\ dev' \in [Devices -> DeviceRecord] /\ \A d \in Devices : Fit(dev'[d])
        /\ result' \in Nat /\ terminator' \in Int
    BY DEF Base
  <2> QED BY <1>1, <1>3, <2>1 DEF Base
<1>5. Heeds
  BY <1>4, HeedsWhen DEF DevicesKept
<1>6. Off' /\ "DATA" \notin host'
  BY DEF Finished, Off
<1>7. Quiet'
  BY DEF Finished, Quiet
<1>8. Blank'
  BY DEF Blank
<1>9. ASSUME NEW d PROVE RolesAre(d, "none")'
  BY DEF Finished, RolesAre
<1> QED BY <1>4, <1>5, <1>6, <1>7, <1>8, <1>9

(* iec_init starts. *)
LEMMA InitStarts ==
  ASSUME Base, Finished, IecInit
  PROVE  Base' /\ Somewhere' /\ Heeds
<1>1. /\ call' = [op |-> "init", dev |-> 0, msg |-> <<>>, count |-> 0]
      /\ todo' = IoInit /\ buffer' = <<>> /\ terminator' = -1 /\ result' = 0
      /\ queue' = None /\ host' = host /\ dev' = dev /\ eoi_pending' = eoi_pending /\ rx_eoi' = rx_eoi
  BY DEF IecInit, Start
<1>2. call' \in CallRecord
  BY <1>1 DEF CallRecord, Ops
<1>3. Base' /\ Heeds /\ Off' /\ Quiet' /\ RolesAre(0, "none")'
  BY <1>1, <1>2, StartIs
<1>4. (todo = Io0)' /\ call'.op = "init"
  BY <1>1, CallsAre
<1>5. Initialising'
  BY <1>3, <1>4 DEF Initialising
<1> QED BY <1>3, <1>5 DEF Somewhere

(* iec_print starts. *)
LEMMA PrintStarts ==
  ASSUME Base, Finished, NEW d \in Called, NEW msg \in Messages, IecPrint(d, msg)
  PROVE  Base' /\ Somewhere' /\ Heeds
<1> DEFINE j == "listen1"
<1>1. /\ call' = [op |-> "print", dev |-> d, msg |-> msg, count |-> 0]
      /\ todo' = PrintSteps(d, msg) /\ buffer' = <<>> /\ terminator' = -1 /\ result' = 0
      /\ queue' = queue /\ host' = host /\ dev' = dev /\ eoi_pending' = eoi_pending /\ rx_eoi' = rx_eoi
  BY DEF IecPrint, Start, flags
<1>2. call' \in CallRecord /\ queue' = None
  BY <1>1 DEF CallRecord, Ops, Finished, Quiet
<1>3. Base' /\ Heeds /\ Off' /\ Quiet' /\ \A x : RolesAre(x, "none")'
  BY <1>1, <1>2, StartIs
<1>4. call'.op = "print" /\ call'.dev = d /\ call'.msg = msg
  BY <1>1
<1>5. Before(j)'
  BY <1>3, <1>4 DEF Before, CallsOf, RoleBefore, Second
<1>6. todo' = Call0(LISTEN(d), Atn0(OPENCH(1), Opened0(msg)))
  <2>1. msg \in Seq(Bytes)
    BY IecAssumption
  <2>2. PrintSteps(d, msg) = Print0(d, msg)
    BY <2>1, CallsAre
  <2> QED BY <1>1, <2>2, Zenon DEF Print0
<1>7. Byte(j)' = LISTEN(d) /\ Follow(j)' = Atn0(OPENCH(1), Opened0(msg))
  BY <1>4 DEF Byte, Follow, Target, Second
<1>8. (todo = Call0(Byte(j), Follow(j)))'
  BY <1>6, <1>7
<1>9. Calling(j)'
  BY <1>3, <1>5, <1>8 DEF Calling
<1> QED BY <1>3, <1>9 DEF Somewhere

(* iec_status starts. *)
LEMMA StatusStarts ==
  ASSUME Base, Finished, NEW d \in Called, NEW n \in Counts, IecStatus(d, n)
  PROVE  Base' /\ Somewhere' /\ Heeds
<1> DEFINE j == "talk"
<1>1. /\ call' = [op |-> "status", dev |-> d, msg |-> <<>>, count |-> n]
      /\ todo' = StatusSteps(d, n) /\ buffer' = <<>> /\ terminator' = -1 /\ result' = 0
      /\ queue' = queue /\ host' = host /\ dev' = dev /\ eoi_pending' = eoi_pending /\ rx_eoi' = rx_eoi
  BY DEF IecStatus, Start, flags
<1>2. call' \in CallRecord /\ queue' = None
  BY <1>1 DEF CallRecord, Ops, Finished, Quiet
<1>3. Base' /\ Heeds /\ Off' /\ Quiet' /\ Blank' /\ \A x : RolesAre(x, "none")'
  BY <1>1, <1>2, StartIs
<1>4. call'.op = "status" /\ call'.dev = d /\ call'.count = n
  BY <1>1
<1>5. Before(j)'
  BY <1>3, <1>4 DEF Before, CallsOf, RoleBefore, Second
<1>6. todo' = Call0(TALK(d), Atn0(OPENCH(15), Turn0(n)))
  BY <1>1, CallsAre DEF Status0
<1>7. Byte(j)' = TALK(d) /\ Follow(j)' = Atn0(OPENCH(15), Turn0(n))
  BY <1>4 DEF Byte, Follow, Target, Second
<1>8. (todo = Call0(Byte(j), Follow(j)))'
  BY <1>6, <1>7
<1>9. Calling(j)'
  BY <1>3, <1>5, <1>8 DEF Calling
<1> QED BY <1>3, <1>9 DEF Somewhere

(* iec_close starts. *)
LEMMA CloseStarts ==
  ASSUME Base, Finished, NEW d \in Called, IecClose(d)
  PROVE  Base' /\ Somewhere' /\ Heeds
<1> DEFINE j == "listen2"
<1>1. /\ call' = [op |-> "close", dev |-> d, msg |-> <<>>, count |-> 0]
      /\ todo' = Close(d, 1) /\ buffer' = <<>> /\ terminator' = -1 /\ result' = 0
      /\ queue' = queue /\ host' = host /\ dev' = dev /\ eoi_pending' = eoi_pending /\ rx_eoi' = rx_eoi
  BY DEF IecClose, Start, flags
<1>2. call' \in CallRecord /\ queue' = None
  BY <1>1 DEF CallRecord, Ops, Finished, Quiet
<1>3. Base' /\ Heeds /\ Off' /\ Quiet' /\ \A x : RolesAre(x, "none")'
  BY <1>1, <1>2, StartIs
<1>4. call'.op = "close" /\ call'.dev = d
  BY <1>1
<1>5. Before(j)'
  <2>1. Served'
    BY <1>4 DEF Served
  <2> QED BY <1>3, <1>4, <2>1 DEF Before, CallsOf, RoleBefore, Second
<1>6. todo' = Call0(LISTEN(d), Atn0(CLOSE(1), Closed0))
  BY <1>1, CallsAre DEF Close0
<1>7. Byte(j)' = LISTEN(d) /\ Follow(j)' = Atn0(CLOSE(1), Closed0)
  BY <1>4 DEF Byte, Follow, Target, Second
<1>8. (todo = Call0(Byte(j), Follow(j)))'
  BY <1>6, <1>7
<1>9. Calling(j)'
  BY <1>3, <1>5, <1>8 DEF Calling
<1> QED BY <1>3, <1>9 DEF Somewhere

(* The invariant holds at first ... *)
LEMMA InitInv ==
  Init => Inv
<1> SUFFICES ASSUME Init PROVE Inv
  OBVIOUS
<1>1. Len(Text) \in Nat
  <2>1. Text \in Seq(Bytes)
    BY IecAssumption
  <2> QED BY <2>1, LenProperties
<1>2. NewDevice \in DeviceRecord /\ Fit(NewDevice)
  <2>1. NewDevice \in DeviceRecord
    BY <1>1 DEF NewDevice, DeviceRecord, Roles, States
  <2> QED BY <2>1 DEF NewDevice, Fit, PullOf, StatesOf
<1>3. ASSUME NEW d \in Devices
      PROVE  /\ dev[d] \in DeviceRecord /\ Fit(dev[d])
             /\ ~dev[d].atn /\ dev[d].role = "none" /\ ~dev[d].last
             /\ ~dev[d].plugged => dev[d] = NoDevice
             /\ dev[d].pull = {} /\ dev[d].sent = 0
  <2>1. dev[d] = NewDevice \/ dev[d] = NoDevice
    BY DEF Init
  <2>2. CASE dev[d] = NewDevice
    BY <1>2, <2>2 DEF NewDevice
  <2>3. CASE dev[d] = NoDevice
    BY <2>3, NoDeviceFits DEF NoDevice, NewDevice
  <2> QED BY <2>1, <2>2, <2>3
<1>4. dev \in [Devices -> DeviceRecord]
  <2>1. dev = [d \in Devices |-> dev[d]]
    BY DEF Init
  <2> QED BY <1>3, <2>1
<1>5. call \in CallRecord /\ call.op = "none" /\ call.count = 0 /\ result \in Nat
      /\ terminator = -1
  BY DEF Init, CallRecord, Ops
<1>6. buffer \in Seq(Letters) /\ Len(buffer) = 0 /\ DOMAIN buffer = {}
  <2>1. buffer = <<>>
    BY DEF Init
  <2> QED BY <2>1
<1>7. TypeOK
  <2>1. host = {} /\ queue = None /\ eoi_pending = FALSE /\ rx_eoi = FALSE
    BY DEF Init
  <2>2. \A d \in Devices : /\ dev[d].pull \subseteq {"CLK", "DATA"}
                           /\ ~dev[d].plugged => dev[d] = NoDevice
                           /\ dev[d].sent \in 0 .. Len(Text)
    <3> TAKE d \in Devices
    <3>1. /\ ~dev[d].plugged => dev[d] = NoDevice
          /\ dev[d].pull = {} /\ dev[d].sent = 0
      BY <1>3
    <3>2. 0 \in 0 .. Len(Text)
      BY <1>1
    <3> QED BY <3>1, <3>2
  <2>3. Len(buffer) <= call.count /\ \A i \in DOMAIN buffer : buffer[i] \in Stored
    BY <1>5, <1>6
  <2>4. terminator \in {-1} \cup 1 .. call.count + 1
    BY <1>5
  <2> QED BY <2>1, <2>2, <2>3, <2>4 DEF TypeOK
<1>8. Base
  BY <1>3, <1>4, <1>5, <1>6, <1>7 DEF Base
<1>9. Finished
  <2>1. todo = <<>> /\ host = {} /\ queue = None /\ eoi_pending = FALSE
    BY DEF Init
  <2> QED BY <1>3, <1>5, <2>1 DEF Finished, Off, Quiet, RolesAre, Served
<1> QED BY <1>8, <1>9 DEF Inv, Somewhere

(* ... no step of the controller breaks it ... *)
LEMMA ControllerKeeps ==
  ASSUME Inv, Controller
  PROVE  Inv' /\ Heeds
<1>1. Base /\ Somewhere
  BY DEF Inv
<1>2. ~Finished
  BY DEF Finished, Controller, Line, Wait, Probe, Ready, EoiSeen, Clock,
         Out, FlushQueue, Await, Silence, Store, At
<1>3. Base' /\ Somewhere' /\ Heeds
  <2>1. CASE Initialising \/ Closing \/ Opening \/ Untalking
    BY <1>1, <2>1, InitialisingNext, ClosingNext, OpeningNext, UntalkingNext
  <2>2. CASE Turning \/ Awaiting \/ Missing
    BY <1>1, <2>2, TurningNext, AwaitingNext, MissingNext
  <2>3. CASE \E i \in DOMAIN Text : Taking(i)
    BY <1>1, <2>3, TakingNext
  <2>4. CASE \E i \in 1 .. Len(call.msg) + 1 : Printing(i)
    BY <1>1, <2>4, PrintingNext
  <2>5. CASE \E i \in 1 .. Len(call.msg) : Telling(i) \/ Told(i)
    BY <1>1, <2>5, TellingNext, ToldNext
  <2>6. CASE \E j \in Jobs : Attending(j) \/ Attended(j)
    BY <1>1, <2>6, AttendingNext, AttendedNext
  <2>7. CASE \E j \in {"listen1", "listen2", "talk"} : Calling(j)
    BY <1>1, <2>7, CallingNext
  <2>8. CASE \E j \in {"unlisten1", "unlisten2", "untalk"} : Leaving(j)
    BY <1>1, <2>8, LeavingNext
  <2> QED BY <1>1, <1>2, <2>1, <2>2, <2>3, <2>4, <2>5, <2>6, <2>7, <2>8 DEF Somewhere
<1> QED BY <1>3 DEF Inv

(* ... nor does a step that changes nothing ... *)
LEMMA Unchanging ==
  ASSUME Inv, UNCHANGED vars
  PROVE  Inv'
<1>1. /\ host' = host /\ dev' = dev /\ todo' = todo /\ call' = call /\ queue' = queue
      /\ eoi_pending' = eoi_pending /\ rx_eoi' = rx_eoi
      /\ buffer' = buffer /\ result' = result /\ terminator' = terminator
  BY DEF vars
<1>2. Base'
  BY <1>1 DEF Inv, Base, TypeOK
<1>3. DevicesKept /\ CallKept /\ AnswerKept
  BY <1>1 DEF DevicesKept, CallKept, AnswerKept
<1>4. /\ Served => Served'
      /\ Blank => Blank'
      /\ Begun => Begun'
      /\ Quiet => Quiet'
      /\ Talking => Talking'
      /\ \A j \in Jobs : (Before(j) => Before(j)') /\ (After(j) => After(j)')
  BY <1>1, <1>3, Untouched
<1>5. /\ \A n : Heard(n) => Heard(n)'
      /\ \A n : HasSent(n) => HasSent(n)'
      /\ HeardAll => HeardAll'
      /\ RolesAre(0, "none") => RolesAre(0, "none")'
      /\ RolesAre(call.dev, "listener") => RolesAre(call.dev, "listener")'
      /\ \A S : Says(S) => Says(S)'
      /\ \A mark \in BOOLEAN : Marks(mark) => Marks(mark)'
      /\ Alone => Alone'
      /\ IsLast => IsLast'
      /\ Here(call.dev)' <=> Here(call.dev)
      /\ \A j \in Jobs : Here(Target(j))' <=> Here(Target(j))
  BY <1>3, Unmoved
<1>6. /\ Off => Off'
      /\ \A S : OffIn(S) => OffIn(S)'
      /\ \A S : AllAtn(S) => AllAtn(S)'
      /\ \A j \in Jobs : Holds(Target(j)) => Holds(Target(j))'
      /\ \A j \in Jobs : Attentive(Target(j)) => Attentive(Target(j))'
      /\ Attentive(call.dev) => Attentive(call.dev)'
  <2>1. Off => Off'
    BY <1>1 DEF Off
  <2>2. \A S : OffIn(S) => OffIn(S)'
    BY <1>1, <2>1 DEF OffIn
  <2>3. \A S : AllAtn(S) => AllAtn(S)'
    BY <1>1 DEF AllAtn
  <2>4. \A j \in Jobs : Holds(Target(j)) => Holds(Target(j))'
    <3>1. \A j \in Jobs : Holds(Target(j)) => "CLK" \in host
      BY DEF Holds
    <3> QED BY <1>1, <1>3, <3>1, Unmoved
  <2>5. /\ \A j \in Jobs : Attentive(Target(j)) => Attentive(Target(j))'
        /\ Attentive(call.dev) => Attentive(call.dev)'
    BY <1>1, <1>3, Unmoved
  <2> QED BY <2>1, <2>2, <2>3, <2>4, <2>5
<1>7. ASSUME NEW j \in Jobs
      PROVE  Byte(j)' = Byte(j) /\ Follow(j)' = Follow(j) /\ Target(j)' = Target(j)
  BY <1>3, SameWords
<1>8. ASSUME NEW i
      PROVE  AfterByte(i)' = AfterByte(i) /\ Data(call.msg[i])' = Data(call.msg[i]) /\ Final(i)' = Final(i)
  BY <1>1, <1>3, SameWords DEF Final
<1>9. CASE Finished \/ Initialising \/ Closing \/ Opening \/ Untalking \/ Missing
  <2>1. Finished => Finished'
    BY <1>1, <1>4, <1>5, <1>6 DEF Finished
  <2>2. Initialising => Initialising'
    BY <1>1, <1>4, <1>5, <1>6 DEF Initialising
  <2>3. Closing => Closing'
    BY <1>1, <1>4, <1>6 DEF Closing, Jobs
  <2>4. Opening => Opening'
    BY <1>1, <1>4, <1>6 DEF Opening, Jobs
  <2>5. Untalking => Untalking'
    BY <1>1, <1>4, <1>6 DEF Untalking, Jobs
  <2>6. Missing => Missing'
    BY <1>1, <1>4, <1>5 DEF Missing, OnBus
  <2> QED BY <1>2, <1>9, <2>1, <2>2, <2>3, <2>4, <2>5, <2>6 DEF Inv, Somewhere
<1>10. CASE Turning
  <2>1. Turning'
    BY <1>1, <1>4, <1>5, <1>10 DEF Turning
  <2> QED BY <1>2, <2>1 DEF Inv, Somewhere
<1>11. OnBus => OnBus'
  BY <1>1, <1>5 DEF OnBus
<1>12. CASE Awaiting
  <2>1. HasSent(Len(buffer))'
    BY <1>1, <1>12 DEF Awaiting, HasSent, Here
  <2>2. Awaiting'
    BY <1>1, <1>4, <1>5, <1>11, <1>12, <2>1 DEF Awaiting
  <2> QED BY <1>2, <2>2 DEF Inv, Somewhere
<1>13. ASSUME NEW i \in DOMAIN Text, Taking(i) PROVE Somewhere'
  <2>1. Taking(i)'
    BY <1>1, <1>4, <1>5, <1>11, <1>13 DEF Taking
  <2> QED BY <2>1 DEF Somewhere
<1>14. Listening => Listening'
  BY <1>1, <1>5 DEF Listening
<1>15. ASSUME NEW i \in 1 .. Len(call.msg) + 1, Printing(i) PROVE Somewhere'
  <2>1. Printing(i)'
    BY <1>1, <1>5, <1>6, <1>14, <1>15 DEF Printing
  <2> QED BY <1>1, <2>1 DEF Somewhere
<1>16. ASSUME NEW i \in 1 .. Len(call.msg), Telling(i) PROVE Somewhere'
  <2>1. Marks(Final(i) /\ ~eoi_pending) => Marks(Final(i) /\ ~eoi_pending)'
    BY <1>1, <1>8 DEF Marks
  <2>2. Heard(i - 1)'
    BY <1>5, <1>16 DEF Telling
  <2>3. Telling(i)'
    BY <1>1, <1>6, <1>8, <1>14, <1>16, <2>1, <2>2 DEF Telling
  <2> QED BY <1>1, <2>3 DEF Somewhere
<1>17. ASSUME NEW i \in 1 .. Len(call.msg), Told(i) PROVE Somewhere'
  <2>1. Told(i)'
    BY <1>1, <1>4, <1>5, <1>6, <1>8, <1>14, <1>17 DEF Told
  <2> QED BY <1>1, <2>1 DEF Somewhere
<1>18. ASSUME NEW j \in Jobs, Attending(j) \/ Attended(j) PROVE Somewhere'
  <2>1. Attending(j) => Attending(j)'
    BY <1>1, <1>4, <1>6, <1>7 DEF Attending
  <2>2. Attended(j) => Attended(j)'
    BY <1>1, <1>4, <1>5, <1>6, <1>7 DEF Attended
  <2> QED BY <1>18, <2>1, <2>2 DEF Somewhere
<1>19. ASSUME NEW j \in {"listen1", "listen2", "talk"}, Calling(j) PROVE Somewhere'
  <2>1. j \in Jobs
    BY DEF Jobs
  <2>2. Calling(j)'
    BY <1>1, <1>4, <1>6, <1>7, <1>19, <2>1 DEF Calling
  <2> QED BY <2>2 DEF Somewhere
<1>20. ASSUME NEW j \in {"unlisten1", "unlisten2", "untalk"}, Leaving(j) PROVE Somewhere'
  <2>1. j \in Jobs
    BY DEF Jobs
  <2>2. Leaving(j)'
    BY <1>1, <1>4, <1>6, <1>20, <2>1 DEF Leaving
  <2> QED BY <2>2 DEF Somewhere
<1>21. Somewhere'
  BY <1>9, <1>10, <1>12, <1>13, <1>15, <1>16, <1>17, <1>18, <1>19, <1>20 DEF Inv, Somewhere
<1> QED BY <1>2, <1>21 DEF Inv

(* ... nor any step, and no step makes a device hear what is not for it. *)
LEMMA NextKeeps ==
  ASSUME Inv, [Next]_vars
  PROVE  Inv' /\ Heeds
<1>1. Base /\ Somewhere
  BY DEF Inv
<1>2. todo = <<>> => Finished
  BY Whereabouts
<1>3. CASE IecInit
  <2>1. Finished
    BY <1>2, <1>3 DEF IecInit, Start
  <2> QED BY <1>1, <1>3, <2>1, InitStarts DEF Inv
<1>4. ASSUME NEW d \in Called, NEW msg \in Messages, IecPrint(d, msg) PROVE Inv' /\ Heeds
  <2>1. Finished
    BY <1>2, <1>4 DEF IecPrint, Start
  <2> QED BY <1>1, <1>4, <2>1, PrintStarts DEF Inv
<1>5. ASSUME NEW d \in Called, NEW n \in Counts, IecStatus(d, n) PROVE Inv' /\ Heeds
  <2>1. Finished
    BY <1>2, <1>5 DEF IecStatus, Start
  <2> QED BY <1>1, <1>5, <2>1, StatusStarts DEF Inv
<1>6. ASSUME NEW d \in Called, IecClose(d) PROVE Inv' /\ Heeds
  <2>1. Finished
    BY <1>2, <1>6 DEF IecClose, Start
  <2> QED BY <1>1, <1>6, <2>1, CloseStarts DEF Inv
<1>7. CASE Controller
  BY <1>7, ControllerKeeps
<1>8. ASSUME NEW d \in Devices, Device(d) \/ SwitchOff(d) PROVE Inv' /\ Heeds
  <2>1. Inv' /\ \A e \in Devices : Len(dev'[e].heard) <= Len(dev[e].heard)
    BY <1>8, DeviceKeeps
  <2>2. Base'
    BY <2>1 DEF Inv
  <2> QED BY <1>1, <2>1, <2>2, HeedsWhen
<1>9. CASE UNCHANGED vars
  <2>1. dev' = dev
    BY <1>9 DEF vars
  <2>2. Inv'
    BY <1>9, Unchanging
  <2>3. Base'
    BY <2>2 DEF Inv
  <2> QED BY <1>1, <2>1, <2>2, <2>3, HeedsWhen DEF DevicesKept
<1> QED BY <1>3, <1>4, <1>5, <1>6, <1>7, <1>8, <1>9 DEF Next

(* The invariant is as strong as the properties. *)
LEMMA InvMeans ==
  ASSUME Inv
  PROVE  TypeOK /\ BusLeftFree /\ TransfersWhole
<1>1. Base /\ Somewhere /\ TypeOK
  BY DEF Inv, Base
<1>2. Idle => Finished
  BY Whereabouts DEF Idle
<1>3. BusLeftFree
  BY <1>2 DEF BusLeftFree, Finished, Off, Quiet, RolesAre
<1>4. Len(Text) \in Nat /\ Len(Text) > 0
  BY <1>1, Typed
<1>5. Blank => Len(buffer) <= Len(Text) /\ buffer = StatusOf(Len(buffer))
  <2>1. Len(<<>>) = 0
    OBVIOUS
  <2> QED BY <1>4, <2>1, StatusIs DEF Blank
<1>6. Served /\ call.op = "status" /\ Here(call.dev) => Len(buffer) <= Len(Text) /\ buffer = StatusOf(Len(buffer))
  BY DEF Served, Answered
<1>7. Begun /\ Here(call.dev) => Len(buffer) <= Len(Text) /\ buffer = StatusOf(Len(buffer))
  <2>1. Len(buffer) \in Nat
    <3>1. buffer \in Seq(Letters)
      BY <1>1 DEF Base
    <3> QED BY <3>1, LenProperties
  <2> QED BY <1>4, <2>1 DEF Begun
<1>8. ASSUME call.op = "status", Here(call.dev)
      PROVE  Len(buffer) <= Len(Text) /\ buffer = StatusOf(Len(buffer))
  <2>1. ~Initialising /\ ~Closing /\ ~Opening
    BY <1>8 DEF Initialising, Closing, Opening, Before, After, CallsOf, Second
  <2>2. /\ \A i \in 1 .. Len(call.msg) + 1 : ~Printing(i)
        /\ \A i \in 1 .. Len(call.msg) : ~Telling(i) /\ ~Told(i)
    BY <1>8 DEF Printing, Telling, Told, Listening
  <2>3. Finished \/ Untalking => Served
    BY DEF Finished, Untalking, Before
  <2>4. Turning => Blank
    BY DEF Turning
  <2>5. Awaiting \/ (\E i \in DOMAIN Text : Taking(i)) => Begun
    BY DEF Awaiting, Taking
  <2>6. ~Missing
    BY <1>8 DEF Missing
  <2>7. ASSUME NEW j \in Jobs, Before(j) \/ After(j) PROVE Blank \/ Served
    <3>1. j \in {"talk", "open3", "untalk"}
      BY <1>8, <2>7 DEF Before, After, CallsOf, Second, Jobs
    <3> QED BY <2>7, <3>1 DEF Before, After
  <2>8. (\E j \in Jobs : Attending(j) \/ Attended(j)) => Blank \/ Served
    BY <2>7 DEF Attending, Attended
  <2>9. (\E j \in {"listen1", "listen2", "talk"} : Calling(j)) => Blank \/ Served
    BY <2>7 DEF Calling, Jobs
  <2>10. (\E j \in {"unlisten1", "unlisten2", "untalk"} : Leaving(j)) => Blank \/ Served
    BY <2>7 DEF Leaving, Jobs
  <2>11. Blank \/ Served \/ Begun
    BY <1>1, <2>1, <2>2, <2>3, <2>4, <2>5, <2>6, <2>8, <2>9, <2>10 DEF Somewhere
  <2> QED BY <1>5, <1>6, <1>7, <1>8, <2>11
<1>9. TransfersWhole
  <2> SUFFICES ASSUME NEW d \in Devices, call.dev = d, dev[d].plugged
               PROVE  /\ call.op = "print" /\ Idle => dev[d].heard = Marked(call.msg)
                      /\ call.op = "status" =>
                           /\ Len(buffer) <= Len(Text) /\ buffer = StatusOf(Len(buffer))
                           /\ Idle => Len(buffer) = BytesRead /\ result = Returned /\ terminator = result + 1
    BY DEF TransfersWhole
  <2>1. Here(call.dev)
    BY DEF Here
  <2>2. call.op = "print" /\ Idle => dev[d].heard = Marked(call.msg)
    BY <1>2, <2>1 DEF Finished, Served, HeardAll
  <2>3. call.op = "status" => Len(buffer) <= Len(Text) /\ buffer = StatusOf(Len(buffer))
    BY <1>8, <2>1
  <2>4. call.op = "status" /\ Idle =>
          Len(buffer) = BytesRead /\ result = Returned /\ terminator = result + 1
    BY <1>2, <2>1 DEF Finished, Served, Answered
  <2> QED BY <2>2, <2>3, <2>4
<1> QED BY <1>1, <1>3, <1>9

(* The invariant: what the devices have made of a call fits what is left of it. *)
THEOREM InvHolds ==
  Spec => []Inv
<1>1. Init => Inv
  BY InitInv
<1>2. Inv /\ [Next]_vars => Inv'
  BY NextKeeps
<1> QED BY <1>1, <1>2, PTL DEF Spec

-----------------------------------------------------------------------------
(* The results. *)

(* The bus and the controller's bytes are well formed in every reachable    *)
(* state, whatever devices there are and whatever goes off meanwhile.       *)
THEOREM TypeCorrect ==
  Spec => []TypeOK
<1>1. Inv => TypeOK
  BY InvMeans
<1> QED BY <1>1, InvHolds, PTL

(* Whatever goes wrong during a call, the next one finds the bus free, no   *)
(* device addressed, and no byte of the last one left to be sent.           *)
THEOREM BusIsLeftFree ==
  Spec => []BusLeftFree
<1>1. Inv => BusLeftFree
  BY InvMeans
<1> QED BY <1>1, InvHolds, PTL

(* A device that stays on the bus has the whole message when iec_print      *)
(* returns, its last byte and no other marked, and what iec_status stores   *)
(* is the beginning of what the device says.                                *)
THEOREM WholeTransfers ==
  Spec => []TransfersWhole
<1>1. Inv => TransfersWhole
  BY InvMeans
<1> QED BY <1>1, InvHolds, PTL

(* No step gives a byte of data to a device that it is not printed to, nor  *)
(* more bytes than the message has.                                         *)
THEOREM AddresseesOnly ==
  Spec => OnlyAddressee
<1>1. Inv /\ [Next]_vars =>
        [\A d \in Devices : Len(dev'[d].heard) > Len(dev[d].heard) =>
           call.op = "print" /\ call.dev = d /\ Len(dev'[d].heard) <= Len(call.msg)]_vars
  BY NextKeeps DEF Heeds
<1> QED BY <1>1, InvHolds, PTL DEF Spec, OnlyAddressee
=============================================================================
