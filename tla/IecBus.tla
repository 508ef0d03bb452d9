------------------------------- MODULE IecBus -------------------------------
(***************************************************************************)
(* The IEC serial bus of the F256: the calls of src/src/dev/iec.c and the  *)
(* bus protocol of src/src/C256/iecll.s below them.                        *)
(*                                                                         *)
(* A line of the bus is low when anybody pulls it.  A call is a sequence   *)
(* of steps of the controller, kept in todo: line changes, pauses, and     *)
(* waits for a line, none of which has a time limit.  The devices are      *)
(* modelled by the protocol they follow.  What the protocol wants from     *)
(* them within a few microseconds is done before the controller's next     *)
(* pause ends and before a talker offers a byte; for everything else they  *)
(* take as long as they like.  The eight bits of a byte are one step.      *)
(***************************************************************************)
EXTENDS Integers, Sequences

CONSTANTS
  Devices,    \* numbers of the devices the user has
  Present,    \* the devices that are on the bus at the start
  Called,     \* the devices that programs print to or query
  Messages,   \* what programs print: sequences of data bytes
  Text,       \* the status of every device, a sequence of data bytes
  Counts,     \* sizes of the buffers for the status
  None        \* no byte

Bytes == 0 .. 255

ASSUME IecAssumption ==
  /\ Devices \subseteq 0 .. 30 /\ Present \subseteq Devices
  /\ Messages \subseteq Seq(Bytes)
  /\ Text \in Seq(Bytes) /\ Text # <<>>
  /\ Counts \subseteq Nat
  /\ \A b \in Bytes : None # <<"data", b>>

VARIABLES
  host,         \* the lines the controller pulls
  dev,          \* the devices
  todo,         \* what is left of the call under way
  call,         \* that call, or the last one
  queue,        \* the byte iecll_out holds back, None when delayed is clear
  eoi_pending,  \* the next byte is to be sent as the last one
  rx_eoi,       \* the last byte received was the last one of the talker
  buffer,       \* what iec_status has read
  terminator,   \* the index, from 0, of the 0 it has written behind it, or -1
  result        \* what the last call returned

vars == <<host, dev, todo, call, queue, eoi_pending, rx_eoi, buffer, terminator, result>>
flags == <<queue, eoi_pending, rx_eoi>>
answer == <<buffer, terminator, result>>

Data(b) == <<"data", b>>
LISTEN(d) == <<"listen", d>>
TALK(d) == <<"talk", d>>
OPENCH(c) == <<"open", c>>
CLOSE(c) == <<"close", c>>
UNLISTEN == <<"listen", 31>>
UNTALK == <<"talk", 31>>
Garbage == 255    \* what iecll_in returns when the talker has gone

-----------------------------------------------------------------------------
(* The lines. *)

Low(line) == line \in host \/ \E d \in Devices : line \in dev[d].pull

NewDevice == [plugged |-> TRUE, atn |-> FALSE, role |-> "none", state |-> "idle",
              pull |-> {}, heard |-> <<>>, last |-> FALSE, sent |-> 0]
NoDevice == [NewDevice EXCEPT !.plugged = FALSE]

Init ==
  /\ host = {}
  /\ dev = [d \in Devices |-> IF d \in Present THEN NewDevice ELSE NoDevice]
  /\ todo = <<>>
  /\ call = [op |-> "none", dev |-> 0, msg |-> <<>>, count |-> 0]
  /\ queue = None /\ eoi_pending = FALSE /\ rx_eoi = FALSE
  /\ buffer = <<>> /\ terminator = -1 /\ result = 0

-----------------------------------------------------------------------------
(* The calls, as the steps they are made of. *)

Pull(line) == <<"pull", line>>
Free(line) == <<"free", line>>
Sleep == <<"sleep">>
Until(line, level) == <<"until", line, level>>

(* atn_common, atn_release_data, atn_release; a step "probe" sends the byte *)
(* if a device has answered.                                                *)
AtnCommon(b) == <<<<"attention">>, Sleep, <<"probe", b>>>>
AtnReleaseData(b) == <<Free("DATA"), Free("CLK")>> \o AtnCommon(b)
AtnRelease(b) == AtnCommon(b) \o <<Free("ATN"), Sleep, Free("CLK"), Free("DATA")>>

(* send: wait for all listeners, perhaps say that this is the last byte, *)
(* clock the bits out, wait for a listener to accept them.               *)
Send(b) == <<Sleep, Free("CLK"), Until("DATA", "high"), <<"ready", b>>>>
SendLast(b) == <<<<"eoi">>, Sleep, Until("DATA", "high"), <<"ready", b>>>>
SendBits(b) == <<Sleep, <<"clock", b>>, Until("DATA", "low")>>

(* recv_data up to the first bit, and again when the talker has said that *)
(* its last byte comes.                                                   *)
Receive == <<<<"receive">>, Free("DATA"), Until("DATA", "high"), <<"bits">>>>
ReceiveLast == <<Pull("DATA"), Sleep, Free("DATA"), Until("DATA", "high"), <<"bits">>>>
Received(b) == <<Sleep, Pull("DATA"), Sleep, <<"store", b>>>>

Flush == <<<<"flush">>>>
Listen(d) == Flush \o AtnReleaseData(LISTEN(d))
ListenSa(b) == AtnCommon(b) \o <<Free("ATN")>>

(* Mutant of Unlisten: the device is left listening. *)
UnlistenNot == Flush

Unlisten == Flush \o AtnRelease(UNLISTEN)
Talk(d) == Flush \o AtnReleaseData(TALK(d))

(* Mutant of TalkSa: the clock is not given to the talker. *)
TalkSaHeld(b) == AtnCommon(b) \o <<Pull("DATA"), Free("ATN"), Until("CLK", "low")>>

TalkSa(b) == AtnCommon(b) \o <<Pull("DATA"), Free("ATN"), Free("CLK"), Until("CLK", "low")>>
Untalk == <<Pull("CLK")>> \o AtnRelease(UNTALK)

Close(d, c) == Listen(d) \o ListenSa(CLOSE(c)) \o Unlisten
PrintSteps(d, msg) ==
  Listen(d) \o ListenSa(OPENCH(1))
    \o [i \in 1 .. Len(msg) |-> <<"out", Data(msg[i])>>]
    \o Unlisten \o Close(4, 1)
More(n) == IF n = 0 THEN Untalk ELSE Receive
StatusSteps(d, n) == Talk(d) \o TalkSa(OPENCH(15)) \o More(n)

(* iecll_ioinit, where ATN and SREQ float back up. *)
IoInit == <<Sleep, Free("ATN"), Free("DATA"), Pull("CLK"), Sleep>>

Start(op, d, msg, n, steps) ==
  /\ todo = <<>>
  /\ call' = [op |-> op, dev |-> d, msg |-> msg, count |-> n]
  /\ todo' = steps
  /\ buffer' = <<>> /\ terminator' = -1 /\ result' = 0

IecInit == Start("init", 0, <<>>, 0, IoInit)
           /\ queue' = None /\ UNCHANGED <<host, dev, eoi_pending, rx_eoi>>
IecPrint(d, msg) == Start("print", d, msg, 0, PrintSteps(d, msg)) /\ UNCHANGED <<host, dev, flags>>
IecStatus(d, n) == Start("status", d, <<>>, n, StatusSteps(d, n)) /\ UNCHANGED <<host, dev, flags>>
IecClose(d) == Start("close", d, <<>>, 0, Close(d, 1)) /\ UNCHANGED <<host, dev, flags>>

-----------------------------------------------------------------------------
(* The steps of the controller. *)

Next1 == todo[1]
At(name) == todo # <<>> /\ Next1[1] = name
Rest == Tail(todo)
Do(steps) == todo' = steps \o Rest

(* What a device does within microseconds is done when a pause ends. *)
Last(d) == dev[d].sent = Len(Text) - 1
Owes(d) ==
  /\ dev[d].plugged
  /\ \/ dev[d].atn # Low("ATN")
     \/ dev[d].state = "got"
     \/ dev[d].state = "due" /\ Last(d) /\ Low("DATA")
     \/ dev[d].state = "offer" /\ ~Low("DATA")
Settled == \A d \in Devices : ~Owes(d)

Line ==
  /\ \/ At("pull") /\ host' = host \cup {Next1[2]}
     \/ At("free") /\ host' = host \ {Next1[2]}
     \/ At("attention") /\ host' = (host \cup {"ATN", "CLK"}) \ {"DATA"}
  /\ Do(<<>>)
  /\ UNCHANGED <<dev, call, flags, answer>>

(* When iec_status has seen a talker take the clock and has no byte to read, *)
(* its loop is over before it has begun, and only the 0 behind it is written. *)
HostWaitsForClock == At("until") /\ Next1 = Until("CLK", "low")
ReadsNothing == HostWaitsForClock /\ call.count = 0

Wait ==
  /\ \/ At("sleep") /\ Settled
     \/ At("until") /\ Low(Next1[2]) = (Next1[3] = "low")
  /\ Do(<<>>)
  /\ terminator' = IF ReadsNothing THEN 1 ELSE terminator
  /\ UNCHANGED <<host, dev, call, flags, buffer, result>>

(* Without an answer ATN is released and the byte is not sent. *)
Probe ==
  /\ At("probe")
  /\ IF Low("DATA")
     THEN eoi_pending' = FALSE /\ Do(Send(Next1[2]))
     ELSE Do(<<Free("ATN")>>) /\ UNCHANGED eoi_pending
  /\ UNCHANGED <<host, dev, call, queue, rx_eoi, answer>>

Ready ==
  /\ At("ready")
  /\ Do(IF eoi_pending THEN SendLast(Next1[2]) ELSE SendBits(Next1[2]))
  /\ UNCHANGED <<host, dev, call, flags, answer>>

EoiSeen ==
  /\ At("eoi") /\ Low("DATA")
  /\ eoi_pending' = FALSE
  /\ Do(<<>>)
  /\ UNCHANGED <<host, dev, call, queue, rx_eoi, answer>>

(* What a device that is ready for a byte makes of it. *)
Hears(d, b) ==
  LET me == dev[d]
      role == CASE me.atn /\ b = LISTEN(d) -> "listener"
                [] me.atn /\ b = TALK(d) -> "talker"
                [] me.atn /\ b = UNLISTEN /\ me.role = "listener" -> "none"
                [] me.atn /\ b[1] = "talk" /\ b # TALK(d) /\ me.role = "talker" -> "none"
                [] OTHER -> me.role
      opened == me.atn /\ b[1] = "open" /\ me.role # "none"
      heard == CASE opened -> <<>>
                 [] ~me.atn -> Append(me.heard, [byte |-> b, last |-> me.last])
                 [] OTHER -> me.heard
  IN [me EXCEPT !.state = "got", !.role = role, !.heard = heard, !.last = FALSE,
                !.sent = IF opened THEN 0 ELSE @]

Clock ==
  /\ At("clock")
  /\ host' = (host \cup {"CLK"}) \ {"DATA"}
  /\ dev' = [d \in Devices |-> IF dev[d].state = "ready" THEN Hears(d, Next1[2]) ELSE dev[d]]
  /\ Do(<<>>)
  /\ UNCHANGED <<call, flags, answer>>

(* iecll_out: the byte before this one is sent now, this one is kept. *)
Out ==
  /\ At("out")
  /\ IF queue = None
     THEN queue' = Next1[2] /\ Do(<<>>)
     ELSE queue' = None /\ Do(Send(queue) \o <<Next1>>)
  /\ UNCHANGED <<host, dev, call, eoi_pending, rx_eoi, answer>>

(* Mutant of FlushQueue: the last byte is not marked. *)
FlushUnmarked ==
  /\ At("flush")
  /\ IF queue = None
     THEN Do(<<>>) /\ UNCHANGED <<queue, eoi_pending>>
     ELSE queue' = None /\ Do(Send(queue)) /\ UNCHANGED eoi_pending
  /\ UNCHANGED <<host, dev, call, rx_eoi, answer>>

(* The byte held back is sent as the last one. *)
FlushQueue ==
  /\ At("flush")
  /\ IF queue = None
     THEN Do(<<>>) /\ UNCHANGED <<queue, eoi_pending>>
     ELSE queue' = None /\ eoi_pending' = TRUE /\ Do(Send(queue))
  /\ UNCHANGED <<host, dev, call, rx_eoi, answer>>

(* The talker has a byte. *)
Await ==
  /\ At("receive") /\ ~Low("CLK")
  /\ rx_eoi' = FALSE
  /\ Do(<<>>)
  /\ UNCHANGED <<host, dev, call, queue, eoi_pending, answer>>

(* No bit comes for 200 us: the last byte is next, or the talker has gone. *)
Sends(d) == dev[d].state = "acked" \/ (dev[d].state = "due" /\ ~Last(d))
Silence ==
  /\ At("bits") /\ ~Low("CLK") /\ Settled
  /\ \A d \in Devices : ~Sends(d)
  /\ IF rx_eoi
     THEN Do(<<<<"store", Data(Garbage)>>>>) /\ UNCHANGED rx_eoi
     ELSE Do(ReceiveLast) /\ rx_eoi' = TRUE
  /\ UNCHANGED <<host, dev, call, queue, eoi_pending, answer>>

(* Mutant of Store: one byte more than the buffer has room for. *)
StoreOneMore ==
  /\ At("store")
  /\ buffer' = Append(buffer, Next1[2])
  /\ LET done == rx_eoi \/ Len(buffer) = call.count
     IN /\ Do(IF done THEN Untalk ELSE Receive)
        /\ result' = IF rx_eoi THEN Len(buffer) ELSE Len(buffer')
        /\ terminator' = IF done THEN result' + 1 ELSE terminator
  /\ UNCHANGED <<host, dev, call, flags>>

(* The loop of iec_status.  Its last round leaves the index of the byte when *)
(* that one was the talker's last, else one more; this is what is returned,  *)
(* and a 0 is written to the index behind it.                                *)
Store ==
  /\ At("store")
  /\ buffer' = Append(buffer, Next1[2])
  /\ LET done == rx_eoi \/ Len(buffer') = call.count
     IN /\ Do(IF done THEN Untalk ELSE Receive)
        /\ result' = IF rx_eoi THEN Len(buffer) ELSE Len(buffer')
        /\ terminator' = IF done THEN result' + 1 ELSE terminator
  /\ UNCHANGED <<host, dev, call, flags>>

(* A step of the controller. *)
Controller == \/ Line \/ Wait \/ Probe \/ Ready \/ EoiSeen \/ Clock
              \/ Out \/ FlushQueue \/ Await \/ Silence \/ Store

-----------------------------------------------------------------------------
(* The devices. *)

Becomes(d, state, pull) == dev' = [dev EXCEPT ![d].state = state, ![d].pull = pull]
BusOnly == UNCHANGED <<host, todo, call, flags, answer>>

NoticeAtn(d) ==
  /\ dev[d].plugged /\ Low("ATN") /\ ~dev[d].atn
  /\ dev' = [dev EXCEPT ![d].atn = TRUE, ![d].state = "hold", ![d].pull = {"DATA"}]
  /\ BusOnly

LeaveAtn(d) ==
  /\ dev[d].atn /\ ~Low("ATN")
  /\ dev' = [dev EXCEPT
       ![d].atn = FALSE,
       ![d].state = CASE dev[d].role = "listener" -> "hold"
                      [] dev[d].role = "talker" -> "turn"
                      [] OTHER -> "idle",
       ![d].pull = IF dev[d].role = "listener" THEN {"DATA"} ELSE {}]
  /\ BusOnly

(* A listener: it is ready for a byte, accepts it, or learns that the next *)
(* one is the last.                                                        *)
HostWaitsForEoi == At("eoi")
ListenerStep(d) ==
  /\ \/ dev[d].state = "hold" /\ ~Low("CLK") /\ Becomes(d, "ready", {})
     \/ dev[d].state = "got" /\ Becomes(d, "hold", {"DATA"})
     \/ /\ dev[d].state = "ready" /\ HostWaitsForEoi
        /\ dev' = [dev EXCEPT ![d].state = "eoi", ![d].pull = {"DATA"}, ![d].last = TRUE]
     \/ dev[d].state = "eoi" /\ ~HostWaitsForEoi /\ Becomes(d, "ready", {})
  /\ BusOnly

(* A talker: it takes the clock over, offers a byte, learns that a listener *)
(* is ready or has understood that the last byte comes, and is told that    *)
(* the byte has arrived.  It holds the clock until the controller has seen  *)
(* that it took it.                                                         *)
TalkerStep(d) ==
  /\ \/ dev[d].state = "turn" /\ ~Low("CLK") /\ Becomes(d, "clk", {"CLK"})
     \/ /\ dev[d].state = "clk" /\ ~HostWaitsForClock
        /\ \A e \in Devices : ~Owes(e)
        /\ Becomes(d, "offer", {})
     \/ dev[d].state = "offer" /\ ~Low("DATA") /\ Becomes(d, "due", {})
     \/ dev[d].state = "due" /\ Last(d) /\ Low("DATA") /\ Becomes(d, "acked", {})
     \/ /\ dev[d].state = "sent" /\ Low("DATA")
        /\ IF dev[d].sent < Len(Text) THEN Becomes(d, "clk", {"CLK"}) ELSE Becomes(d, "done", {})
  /\ BusOnly

TalkerSends(d) ==
  /\ Sends(d) /\ At("bits") /\ ~Low("DATA")
  /\ dev' = [dev EXCEPT ![d].state = "sent", ![d].pull = {"CLK"}, ![d].sent = @ + 1]
  /\ Do(Received(Data(Text[dev[d].sent + 1])))
  /\ UNCHANGED <<host, call, flags, answer>>

Device(d) == NoticeAtn(d) \/ LeaveAtn(d) \/ ListenerStep(d) \/ TalkerStep(d) \/ TalkerSends(d)

(* Somebody switches a device off. *)
SwitchOff(d) ==
  /\ dev[d].plugged
  /\ dev' = [dev EXCEPT ![d] = NoDevice]
  /\ BusOnly

Next ==
  \/ IecInit
  \/ \E d \in Called : \/ \E msg \in Messages : IecPrint(d, msg)
                       \/ \E n \in Counts : IecStatus(d, n)
                       \/ IecClose(d)
  \/ Controller
  \/ \E d \in Devices : Device(d) \/ SwitchOff(d)

Spec == Init /\ [][Next]_vars

(* The processor runs, with interrupts off, and so does every device. *)
Fairness == WF_vars(Controller) /\ \A d \in Devices : WF_vars(Device(d))
FairSpec == Spec /\ Fairness

-----------------------------------------------------------------------------
(* Properties. *)

Idle == todo = <<>>
Stored == {Data(b) : b \in {Text[i] : i \in DOMAIN Text} \cup {Garbage}}

(* The state of the bus and of the controller's bytes is well formed: no    *)
(* device pulls a line while it is off, or ATN, a held back byte is one of  *)
(* the message, and the bytes of a status fit the buffer they are read to.  *)
(* The 0 behind them need not fit: it is written up to the second byte      *)
(* behind the buffer, and even when there is no buffer.                     *)
TypeOK ==
  /\ host \subseteq {"ATN", "CLK", "DATA"}
  /\ \A d \in Devices :
       /\ dev[d].pull \subseteq {"CLK", "DATA"}
       /\ ~dev[d].plugged => dev[d] = NoDevice
       /\ dev[d].sent \in 0 .. Len(Text)
  /\ queue # None => \E i \in DOMAIN call.msg : queue = Data(call.msg[i])
  /\ eoi_pending \in BOOLEAN /\ rx_eoi \in BOOLEAN
  /\ Len(buffer) <= call.count /\ \A i \in DOMAIN buffer : buffer[i] \in Stored
  /\ terminator \in {-1} \cup 1 .. call.count + 1

(* What the other side has at the end of a call is what was sent: a device  *)
(* has heard the bytes of the message it was sent, in order, the last one   *)
(* and no other marked as the last; and the bytes that iec_status stores    *)
(* are the first of the status, as many as the buffer takes or all of them, *)
(* for as long as the device is on the bus.  It returns how many, but one   *)
(* less when it has read the last one, although its comment promises "the   *)
(* number of bytes read"; the 0 is written to the index behind that.        *)
Marked(msg) == [i \in DOMAIN msg |-> [byte |-> Data(msg[i]), last |-> i = Len(msg)]]
StatusOf(n) == [i \in 1 .. n |-> Data(Text[i])]
BytesRead == IF call.count < Len(Text) THEN call.count ELSE Len(Text)
Returned == IF call.count < Len(Text) THEN call.count ELSE Len(Text) - 1
TransfersWhole ==
  \A d \in Devices : call.dev = d /\ dev[d].plugged =>
    /\ call.op = "print" /\ Idle => dev[d].heard = Marked(call.msg)
    /\ call.op = "status" =>
         /\ Len(buffer) <= Len(Text) /\ buffer = StatusOf(Len(buffer))
         /\ Idle => Len(buffer) = BytesRead /\ result = Returned /\ terminator = result + 1

(* Only the device that a message is for hears it: what the others have     *)
(* heard does not change, and a call that does not print changes nothing.   *)
OnlyAddressee ==
  [][\A d \in Devices : Len(dev'[d].heard) > Len(dev[d].heard) =>
       call.op = "print" /\ call.dev = d /\ Len(dev'[d].heard) <= Len(call.msg)]_vars

(* Between the calls the bus is free whatever has gone wrong in the last    *)
(* one: nobody is a listener or a talker, the controller pulls neither ATN  *)
(* nor DATA, and no byte or mark is left for the next call to send.         *)
BusLeftFree ==
  Idle =>
    /\ "ATN" \notin host /\ "DATA" \notin host
    /\ queue = None /\ ~eoi_pending
    /\ \A d \in Devices : dev[d].role = "none"

(* A call returns, though none of its waits has a time limit, unless it     *)
(* prints to or queries a device that is off or goes off meanwhile, or the  *)
(* last device goes off.                                                    *)
Gone == \E d \in Devices : call.dev = d /\ ~dev[d].plugged
NobodyThere == \A d \in Devices : ~dev[d].plugged
CallsReturn == ~Idle ~> Idle \/ (call.op \in {"print", "status"} /\ Gone) \/ NobodyThere
=============================================================================
