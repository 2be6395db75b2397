-------------------------- MODULE WiFiManagerProofs --------------------------
(***************************************************************************)
(* Proofs about WiFiManager, for any services and any bounds.              *)
(***************************************************************************)
EXTENDS WiFiManager, SequenceTheorems, TLAPS

USE WiFiAssumption

(* What a handler may have yet to do. *)
Handlers ==
  {<<>>, <<"connect">>, <<"setConnected">>,
   <<"clearConnected", "clearGotIp", "connect">>, <<"clearGotIp", "connect">>,
   <<"clearConnected", "clearGotIp", "notify", "connect">>,
   <<"clearGotIp", "notify", "connect">>, <<"notify", "connect">>,
   <<"startMdns", "publishDeferred", "setGotIp", "notify">>,
   <<"publishDeferred", "setGotIp", "notify">>, <<"setGotIp", "notify">>,
   <<"clearGotIp", "notify">>, <<"notify">>}
ToDo(duty) == \E i \in 1..Len(handler) : handler[i] = duty

FlowState ==
  [at : FlowAt, queued : BOOLEAN, timer : BOOLEAN, attempts : 0..(MaxAttempts + 1)]

(* A handler that will wake nobody clears nothing that is set. *)
HandlerKnown ==
  /\ handler \in Handlers
  /\ ToDo("clearGotIp") /\ ~ToDo("notify") => "GOTIP" \notin bits

(* The bits once the handler is done. *)
BitsToBe ==
  (bits \cup (IF ToDo("setConnected") THEN {"CONNECTED"} ELSE {})
        \cup (IF ToDo("setGotIp") THEN {"GOTIP"} ELSE {}))
    \ ((IF ToDo("clearConnected") THEN {"CONNECTED"} ELSE {})
        \cup (IF ToDo("clearGotIp") THEN {"GOTIP"} ELSE {}))

(* The bits that tell where the station is, and that events lead from and to. *)
Level(place) ==
  CASE place \in {"off", "idle", "searching"} -> {}
    [] place = "associated" -> {"CONNECTED"}
    [] place = "ip" -> Bit
From(event) ==
  CASE event \in {"started", "connected"} -> {{}}
    [] event = "disconnected" -> {{}, {"CONNECTED"}, Bit}
    [] event = "gotIp" -> {{"CONNECTED"}}
    [] event = "lostIp" -> {Bit}
To(event) ==
  CASE event \in {"started", "disconnected"} -> {}
    [] event \in {"connected", "lostIp"} -> {"CONNECTED"}
    [] event = "gotIp" -> Bit

(* The events on their way lead, each from where the one before it led, from
   the bits to where the station is. *)
EventsLead ==
  IF events = <<>> THEN BitsToBe = Level(station)
  ELSE /\ BitsToBe \in From(events[1])
       /\ \A i \in 1..Len(events) - 1 : To(events[i]) \in From(events[i + 1])
       /\ To(events[Len(events)]) = Level(station)

(* A flow that has not been woken, and that nobody is about to wake, has done
   what the bits and the configuration ask for, as far as it has come. *)
Woken == flow.queued \/ ToDo("notify")
ToCompare == config.at = "compare" /\ config.crc # config.mode
HubDone == hub <=> "GOTIP" \in bits /\ "HUB" \in config.mode
UplinkDone == uplink <=> "GOTIP" \in bits /\ "UPLINK" \in config.mode
FlowFollows ==
  /\ flow.at = "hub" => Woken \/ "GOTIP" \in bits
  /\ flow.at = "uplink" => Woken \/ ToCompare \/ ("GOTIP" \in bits /\ HubDone)
  /\ flow.at = "reload" => Woken \/ ToCompare \/ (HubDone /\ UplinkDone)

(* Nothing starts before the configuration was loaded, nor the station before
   the flow starts it. *)
SettingUp == {"startup", "init_interface", "init_wifi", "configure_station",
              "start_wifi"}
StartsInOrder ==
  /\ config.at = "initial" => flow.at = "startup"
  /\ flow.at \in SettingUp => station = "off"

(* What was loaded is what the file holds, unless it was edited since, and what
   the checksum was taken of, unless that is about to be compared. *)
ConfigKnown ==
  /\ config.at \in {"initial", "compare"} => ~config.updated
  /\ config.at = "compare" => config.mode = file
  /\ config.at = "idle" =>
       config.crc = config.mode /\ (config.updated \/ config.mode = file)

WiFiInv ==
  /\ TypeOK /\ HandlerKnown /\ EventsLead /\ FlowFollows /\ StartsInOrder
  /\ ConfigKnown /\ PublicationsKept

Mdns == [initialized : BOOLEAN, deferred : SUBSET Service,
         scheduled : SUBSET Service, advertised : SUBSET Service]

-----------------------------------------------------------------------------
(* What a handler has yet to do *)

LEMMA HandlersAreDuties == \A h \in Handlers : h \in Seq(Duty)
<1>1. /\ <<>> \in Seq(Duty) /\ <<"connect">> \in Seq(Duty)
      /\ <<"setConnected">> \in Seq(Duty) /\ <<"notify">> \in Seq(Duty)
  BY DEF Duty
<1>2. /\ <<"clearGotIp", "connect">> \in Seq(Duty)
      /\ <<"notify", "connect">> \in Seq(Duty)
      /\ <<"setGotIp", "notify">> \in Seq(Duty)
      /\ <<"clearGotIp", "notify">> \in Seq(Duty)
  BY DEF Duty
<1>3. /\ <<"clearConnected", "clearGotIp", "connect">> \in Seq(Duty)
      /\ <<"clearGotIp", "notify", "connect">> \in Seq(Duty)
      /\ <<"publishDeferred", "setGotIp", "notify">> \in Seq(Duty)
  BY DEF Duty
<1>4. /\ <<"clearConnected", "clearGotIp", "notify", "connect">> \in Seq(Duty)
      /\ <<"startMdns", "publishDeferred", "setGotIp", "notify">> \in Seq(Duty)
  BY DEF Duty
<1> QED BY <1>1, <1>2, <1>3, <1>4 DEF Handlers

(* No handler does a thing twice, or undoes what it did; and one that finds an
   address tells the flow. *)
LEMMA DutiesAgree ==
  ASSUME handler \in Handlers
  PROVE  /\ ~(ToDo("setConnected") /\ ToDo("clearConnected"))
         /\ ~(ToDo("setGotIp") /\ ToDo("clearGotIp"))
         /\ ToDo("setGotIp") => ToDo("notify")
<1>1. ToDo("setConnected") => handler = <<"setConnected">>
  BY DEF Handlers, ToDo
<1>2. ToDo("setGotIp") =>
        handler \in {<<"startMdns", "publishDeferred", "setGotIp", "notify">>,
                    <<"publishDeferred", "setGotIp", "notify">>, <<"setGotIp", "notify">>}
  BY DEF Handlers, ToDo
<1>3. ~(ToDo("setConnected") /\ ToDo("clearConnected"))
  BY <1>1 DEF ToDo
<1>4. ~(ToDo("setGotIp") /\ ToDo("clearGotIp"))
  BY <1>2 DEF ToDo
<1>5. ToDo("setGotIp") => ToDo("notify")
  <2> SUFFICES ASSUME ToDo("setGotIp")
               PROVE  \E i \in 1..Len(handler) : handler[i] = "notify"
    BY DEF ToDo
  <2>1. CASE handler = <<"startMdns", "publishDeferred", "setGotIp", "notify">>
    <3>1. 4 \in 1..Len(handler) /\ handler[4] = "notify"
      BY <2>1
    <3> QED BY <3>1
  <2>2. CASE handler = <<"publishDeferred", "setGotIp", "notify">>
    <3>1. 3 \in 1..Len(handler) /\ handler[3] = "notify"
      BY <2>2
    <3> QED BY <3>1
  <2>3. CASE handler = <<"setGotIp", "notify">>
    <3>1. 2 \in 1..Len(handler) /\ handler[2] = "notify"
      BY <2>3
    <3> QED BY <3>1
  <2> QED BY <1>2, <2>1, <2>2, <2>3
<1> QED BY <1>3, <1>4, <1>5

LEMMA DoneDoesNothing ==
  /\ handler = <<>> => \A d \in Duty : ~ToDo(d)
  /\ handler = <<>> => BitsToBe = bits
<1>1. handler = <<>> => \A d \in Duty : ~ToDo(d)
  BY DEF ToDo
<1> QED BY <1>1 DEF BitsToBe, Duty

LEMMA DutyDone ==
  ASSUME handler \in Handlers, handler # <<>>, NEW duty \in Duty,
         Head(handler) = duty, handler' = Tail(handler)
  PROVE  /\ handler' \in Handlers /\ ToDo(duty)
         /\ \A d \in Duty : ToDo(d)' <=> ToDo(d) /\ d # duty
<1>1. CASE handler \in {<<"connect">>, <<"setConnected">>, <<"notify">>}
  BY <1>1 DEF Handlers, ToDo
<1>2. CASE handler = <<"clearConnected", "clearGotIp", "connect">>
  BY <1>2 DEF Handlers, ToDo
<1>3. CASE handler = <<"clearGotIp", "connect">>
  BY <1>3 DEF Handlers, ToDo
<1>4. CASE handler = <<"clearConnected", "clearGotIp", "notify", "connect">>
  BY <1>4 DEF Handlers, ToDo
<1>5. CASE handler = <<"clearGotIp", "notify", "connect">>
  BY <1>5 DEF Handlers, ToDo
<1>6. CASE handler = <<"notify", "connect">>
  BY <1>6 DEF Handlers, ToDo
<1>7. CASE handler = <<"startMdns", "publishDeferred", "setGotIp", "notify">>
  BY <1>7 DEF Handlers, ToDo
<1>8. CASE handler = <<"publishDeferred", "setGotIp", "notify">>
  BY <1>8 DEF Handlers, ToDo
<1>9. CASE handler = <<"setGotIp", "notify">>
  BY <1>9 DEF Handlers, ToDo
<1>10. CASE handler = <<"clearGotIp", "notify">>
  BY <1>10 DEF Handlers, ToDo
<1> QED BY <1>1, <1>2, <1>3, <1>4, <1>5, <1>6, <1>7, <1>8, <1>9, <1>10 DEF Handlers

LEMMA MdnsStarted ==
  ASSUME handler \in Handlers, handler # <<>>, Head(handler) = "startMdns"
  PROVE  /\ handler = <<"startMdns", "publishDeferred", "setGotIp", "notify">>
         /\ Tail(handler) = <<"publishDeferred", "setGotIp", "notify">>
         /\ Tail(Tail(handler)) = <<"setGotIp", "notify">>
<1>1. handler = <<"startMdns", "publishDeferred", "setGotIp", "notify">>
  BY DEF Handlers
<1>2. Tail(handler) = <<"publishDeferred", "setGotIp", "notify">>
  BY <1>1
<1>3. Tail(<<"publishDeferred", "setGotIp", "notify">>) = <<"setGotIp", "notify">>
  OBVIOUS
<1> QED BY <1>1, <1>2, <1>3

LEMMA AppendedToTwo ==
  ASSUME NEW a, NEW b, NEW c
  PROVE  Append(<<a, b>>, c) = <<a, b, c>>
<1> DEFINE S == {a, b, c}
           s == Append(<<a, b>>, c)
           t == <<a, b, c>>
<1>1. <<a, b>> \in Seq(S) /\ c \in S /\ t \in Seq(S)
  OBVIOUS
<1>2. s \in Seq(S) /\ Len(s) = 3 /\ s[1] = a /\ s[2] = b /\ s[3] = c
  BY <1>1, AppendProperties
<1>3. Len(t) = 3 /\ t[1] = a /\ t[2] = b /\ t[3] = c
  OBVIOUS
<1>4. 1..3 = {1, 2, 3}
  OBVIOUS
<1> HIDE DEF s, t
<1>5. s = t
  BY <1>1, <1>2, <1>3, <1>4, SeqEqual
<1> QED BY <1>5 DEF s, t

LEMMA AppendedToThree ==
  ASSUME NEW a, NEW b, NEW c, NEW d
  PROVE  Append(<<a, b, c>>, d) = <<a, b, c, d>>
<1> DEFINE S == {a, b, c, d}
           s == Append(<<a, b, c>>, d)
           t == <<a, b, c, d>>
<1>1. <<a, b, c>> \in Seq(S) /\ d \in S /\ t \in Seq(S)
  OBVIOUS
<1>2. s \in Seq(S) /\ Len(s) = 4 /\ s[1] = a /\ s[2] = b /\ s[3] = c /\ s[4] = d
  BY <1>1, AppendProperties
<1>3. Len(t) = 4 /\ t[1] = a /\ t[2] = b /\ t[3] = c /\ t[4] = d
  OBVIOUS
<1>4. 1..4 = {1, 2, 3, 4}
  OBVIOUS
<1> HIDE DEF s, t
<1>5. s = t
  BY <1>1, <1>2, <1>3, <1>4, SeqEqual
<1> QED BY <1>5 DEF s, t

(* Whoever clears the address has done so by the time the flow is told. *)
LEMMA NotifiedAfterClearing ==
  ASSUME handler \in Handlers, handler # <<>>, Head(handler) = "notify"
  PROVE  ~ToDo("clearGotIp")
BY DEF Handlers, ToDo

(* What the handler of an event is to do, and the bits it will leave: what the
   event leads to, when it is one that leads on from the bits there are. *)
LEMMA WithoutNetworkIs ==
  /\ "CONNECTED" \notin bits => WithoutNetwork = <<"connect">>
  /\ bits = Bit =>
       WithoutNetwork = <<"clearConnected", "clearGotIp", "notify", "connect">>
  /\ "CONNECTED" \in bits /\ bits # Bit =>
       WithoutNetwork = <<"clearConnected", "clearGotIp", "connect">>
<1> DEFINE clear == <<"clearConnected", "clearGotIp">>
           wake == <<"clearConnected", "clearGotIp", "notify">>
<1>1. /\ clear \in Seq(Duty) /\ wake \in Seq(Duty) /\ <<>> \in Seq(Duty)
      /\ <<"connect">> \in Seq(Duty)
      /\ "notify" \in Duty /\ "connect" \in Duty
  BY DEF Duty
<1>2. clear \o <<>> = clear /\ <<>> \o <<>> = <<>>
      /\ <<>> \o <<"connect">> = <<"connect">>
  BY <1>1, ConcatEmptySeq
<1>3. clear \o <<"connect">> = <<"clearConnected", "clearGotIp", "connect">>
  BY <1>1, AppendIsConcat, AppendedToTwo
<1>4. clear \o <<"notify">> = wake
  BY <1>1, AppendIsConcat, AppendedToTwo
<1>5. wake \o <<"connect">> = <<"clearConnected", "clearGotIp", "notify", "connect">>
  BY <1>1, AppendIsConcat, AppendedToThree
<1> QED BY <1>2, <1>3, <1>4, <1>5 DEF WithoutNetwork, Bit

LEMMA HandlerBeginsWith ==
  ASSUME HandlerKnown, handler = <<>>, NEW event \in Event, bits \in From(event),
         handler' = Duties(event), bits' = bits
  PROVE  HandlerKnown' /\ BitsToBe' = To(event)
<1>1. CASE event = "started"
  <2>1. handler' = <<"connect">> /\ bits = {}
    BY <1>1 DEF Duties, From
  <2> QED BY <1>1, <2>1 DEF HandlerKnown, Handlers, ToDo, BitsToBe, To
<1>2. CASE event = "connected"
  <2>1. handler' = <<"setConnected">> /\ bits = {}
    BY <1>2 DEF Duties, From
  <2> QED BY <1>2, <2>1 DEF HandlerKnown, Handlers, ToDo, BitsToBe, To
<1>3. CASE event = "gotIp"
  <2>1. handler' = <<"startMdns", "publishDeferred", "setGotIp", "notify">>
        /\ bits = {"CONNECTED"}
    BY <1>3 DEF Duties, From, WithAddress
  <2> QED BY <1>3, <2>1 DEF HandlerKnown, Handlers, ToDo, BitsToBe, To, Bit
<1>4. CASE event = "lostIp"
  <2>1. handler' = <<"clearGotIp", "notify">> /\ bits = Bit
    BY <1>4 DEF Duties, From
  <2> QED BY <1>4, <2>1 DEF HandlerKnown, Handlers, ToDo, BitsToBe, To, Bit
<1>5. CASE event = "disconnected"
  <2>1. handler' = WithoutNetwork /\ bits \in {{}, {"CONNECTED"}, Bit} /\ To(event) = {}
    BY <1>5 DEF Duties, From, To
  <2>2. CASE bits = {}
    <3>1. handler' = <<"connect">>
      BY <2>1, <2>2, WithoutNetworkIs
    <3> QED BY <2>1, <2>2, <3>1 DEF HandlerKnown, Handlers, ToDo, BitsToBe
  <2>3. CASE bits = {"CONNECTED"}
    <3>1. handler' = <<"clearConnected", "clearGotIp", "connect">>
      BY <2>1, <2>3, WithoutNetworkIs DEF Bit
    <3> QED BY <2>1, <2>3, <3>1 DEF HandlerKnown, Handlers, ToDo, BitsToBe
  <2>4. CASE bits = Bit
    <3>1. handler' = <<"clearConnected", "clearGotIp", "notify", "connect">>
      BY <2>1, <2>4, WithoutNetworkIs
    <3> QED BY <2>1, <2>4, <3>1 DEF HandlerKnown, Handlers, ToDo, BitsToBe, Bit
  <2> QED BY <2>1, <2>2, <2>3, <2>4
<1> QED BY <1>1, <1>2, <1>3, <1>4, <1>5 DEF Event

-----------------------------------------------------------------------------
(* The events on their way *)

LEMMA EventPosted ==
  ASSUME EventsLead, events \in Seq(Event), NEW event \in Event,
         Level(station) \in From(event), events' = Posted(event),
         Level(station') = To(event), BitsToBe' = BitsToBe
  PROVE  EventsLead'
<1> DEFINE n == Len(events)
<1>1. /\ n \in Nat /\ Len(events') = n + 1 /\ events' # <<>>
      /\ \A i \in 1..n : events'[i] = events[i]
      /\ events'[n + 1] = event
      /\ events # <<>> <=> n > 0
  BY AppendProperties, LenProperties, EmptySeq DEF Posted
<1> HIDE DEF n
<1>2. CASE events = <<>>
  BY <1>1, <1>2 DEF EventsLead
<1>3. CASE events # <<>>
  <2>1. /\ BitsToBe \in From(events[1]) /\ To(events[n]) = Level(station)
        /\ \A i \in 1..n - 1 : To(events[i]) \in From(events[i + 1])
    BY <1>3 DEF EventsLead, n
  <2>2. ASSUME NEW i \in 1..n
        PROVE  To(events'[i]) \in From(events'[i + 1])
    <3>1. CASE i = n
      BY <1>1, <2>1, <3>1
    <3>2. CASE i # n
      <4>1. i \in 1..n - 1 /\ i + 1 \in 1..n
        BY <1>1, <3>2
      <4> QED BY <1>1, <2>1, <4>1
    <3> QED BY <3>1, <3>2
  <2>3. (n + 1) - 1 = n /\ 1 \in 1..n
    BY <1>1, <1>3
  <2> QED BY <1>1, <2>1, <2>2, <2>3 DEF EventsLead
<1> QED BY <1>2, <1>3

LEMMA EventTaken ==
  ASSUME EventsLead, events \in Seq(Event), events # <<>>, events' = Tail(events),
         UNCHANGED station, BitsToBe' = To(events[1])
  PROVE  EventsLead'
<1> DEFINE n == Len(events)
<1>1. /\ n \in Nat /\ n > 0 /\ Len(events') = n - 1
      /\ \A i \in 1..n - 1 : events'[i] = events[i + 1]
      /\ events' = <<>> <=> n = 1
  <2>1. /\ n \in Nat \ {0} /\ events' \in Seq(Event) /\ Len(events') = n - 1
        /\ \A i \in 1..Len(events') : events'[i] = events[i + 1]
    BY HeadTailProperties, EmptySeq
  <2>2. events' = <<>> <=> Len(events') = 0
    BY <2>1, EmptySeq
  <2> HIDE DEF n
  <2> QED BY <2>1, <2>2
<1>2. /\ BitsToBe \in From(events[1]) /\ To(events[n]) = Level(station)
      /\ \A i \in 1..n - 1 : To(events[i]) \in From(events[i + 1])
  BY DEF EventsLead
<1> HIDE DEF n
<1>3. CASE n = 1
  BY <1>1, <1>2, <1>3 DEF EventsLead
<1>4. CASE n # 1
  <2>1. 1 \in 1..n - 1 /\ n - 1 \in 1..n - 1 /\ (n - 1) + 1 = n
    BY <1>1, <1>4
  <2>2. ASSUME NEW i \in 1..(n - 1) - 1
        PROVE  To(events'[i]) \in From(events'[i + 1])
    <3>1. i \in 1..n - 1 /\ i + 1 \in 1..n - 1
      BY <1>1
    <3> QED BY <1>1, <1>2, <3>1
  <2> QED BY <1>1, <1>2, <1>4, <2>1, <2>2 DEF EventsLead
<1> QED BY <1>3, <1>4

-----------------------------------------------------------------------------
(* What does not change keeps what is said of it. *)

LEMMA HandlerStays ==
  ASSUME WiFiInv, UNCHANGED <<handler, bits>>
  PROVE  HandlerKnown' /\ BitsToBe' = BitsToBe /\ \A d \in Duty : ToDo(d)' = ToDo(d)
BY DEF WiFiInv, HandlerKnown, BitsToBe, ToDo

LEMMA EventsStay ==
  ASSUME WiFiInv, UNCHANGED <<events, station>>, BitsToBe' = BitsToBe
  PROVE  EventsLead'
BY DEF WiFiInv, EventsLead

LEMMA FlowStays ==
  ASSUME WiFiInv, UNCHANGED <<flow, handler, bits, hub, uplink, config>>
  PROVE  FlowFollows'
BY DEF WiFiInv, FlowFollows, Woken, ToDo, ToCompare, HubDone, UplinkDone

LEMMA MdnsStays ==
  ASSUME WiFiInv, UNCHANGED <<mdns, asked, handler>>
  PROVE  PublicationsKept'
BY DEF WiFiInv, PublicationsKept

(* A publication is scheduled, or deferred while mDNS is not up. *)
LEMMA PublishedKeeps ==
  ASSUME WiFiInv, NEW service \in Service
  PROVE  /\ Published(service) \in Mdns
         /\ Published(service).initialized = mdns.initialized
         /\ mdns.initialized => Published(service).deferred = mdns.deferred
         /\ mdns.deferred \subseteq Published(service).deferred
         /\ mdns.scheduled \subseteq Published(service).scheduled
         /\ mdns.advertised = Published(service).advertised
         /\ service \in Published(service).deferred \cup Published(service).scheduled
BY DEF WiFiInv, TypeOK, Published, Mdns

-----------------------------------------------------------------------------

LEMMA InitKeeps == Init => WiFiInv
<1> SUFFICES ASSUME Init
             PROVE  WiFiInv
  OBVIOUS
<1>1. /\ flow = [at |-> "startup", queued |-> TRUE, timer |-> FALSE, attempts |-> 0]
      /\ config = [at |-> "initial", updated |-> FALSE, crc |-> {}, mode |-> {"UPLINK"}]
      /\ mdns = [initialized |-> FALSE, deferred |-> {}, scheduled |-> {},
                 advertised |-> {}]
      /\ bits = {} /\ station = "off" /\ events = <<>> /\ handler = <<>>
      /\ file \subseteq Mode /\ asked = {} /\ changes = 0
      /\ hub = FALSE /\ uplink = FALSE
  BY DEF Init, Boot
<1>2. TypeOK
  <2>1. 0 \in 0..MaxAttempts + 1 /\ 0 \in 0..MaxChanges
    OBVIOUS
  <2>2. events \in Seq(Event) /\ handler \in Seq(Duty)
    BY <1>1, EmptySeq
  <2> QED BY <1>1, <2>1, <2>2 DEF TypeOK, FlowAt, Mode, Bit
<1>3. HandlerKnown /\ EventsLead
  BY <1>1, DoneDoesNothing DEF HandlerKnown, Handlers, EventsLead, Level, Duty
<1>4. FlowFollows /\ StartsInOrder /\ ConfigKnown /\ PublicationsKept
  BY <1>1 DEF FlowFollows, StartsInOrder, ConfigKnown, PublicationsKept
<1> QED BY <1>2, <1>3, <1>4 DEF WiFiInv

(* The flow *)

LEMMA SetsUpKeeps ==
  ASSUME WiFiInv, SetsUp
  PROVE  WiFiInv'
<1>1. \E state \in SettingUp :
        /\ flow' = [flow EXCEPT !.at = state]
        /\ Running /\ flow.at \in SettingUp
  BY DEF SetsUp, Runs, Yields, SettingUp
<1>2. UNCHANGED <<bits, station, events, handler, hub, uplink, file, config, mdns,
                  asked, changes>>
  BY DEF SetsUp, NothingElse
<1>3. TypeOK'
  <2>1. flow \in FlowState /\ SettingUp \subseteq FlowAt
    BY DEF WiFiInv, TypeOK, SettingUp, FlowAt, FlowState
  <2>2. flow' \in FlowState
    BY <1>1, <2>1 DEF FlowState
  <2> QED BY <1>2, <2>2 DEF WiFiInv, TypeOK, FlowState
<1>4. HandlerKnown' /\ EventsLead' /\ PublicationsKept'
  BY <1>2, HandlerStays, EventsStay, MdnsStays
<1>5. (FlowFollows /\ StartsInOrder /\ ConfigKnown)'
  BY <1>1, <1>2 DEF WiFiInv, TypeOK, FlowFollows, StartsInOrder, ConfigKnown, SettingUp,
                    Running
<1> QED BY <1>3, <1>4, <1>5 DEF WiFiInv

LEMMA StartWifiKeeps ==
  ASSUME WiFiInv, StartWifi
  PROVE  WiFiInv'
<1>1. /\ flow' = [at |-> "wait_for_connect", queued |-> FALSE, timer |-> TRUE,
                  attempts |-> flow.attempts]
      /\ Running /\ flow.at = "start_wifi"
      /\ station' = "idle" /\ events' = Posted("started")
  BY DEF StartWifi, Runs, Sleeps
<1>2. UNCHANGED <<bits, handler, hub, uplink, file, config, mdns, asked, changes>>
  BY DEF StartWifi, NothingElse
<1>3. events' \in Seq(Event)
  BY <1>1, AppendProperties DEF WiFiInv, TypeOK, Posted, Event
<1>4. TypeOK'
  BY <1>1, <1>2, <1>3 DEF WiFiInv, TypeOK, FlowAt
<1>5. HandlerKnown' /\ BitsToBe' = BitsToBe /\ PublicationsKept'
  BY <1>2, HandlerStays, MdnsStays
<1>6. EventsLead'
  <2>1. station = "off"
    BY <1>1 DEF WiFiInv, StartsInOrder, SettingUp
  <2>2. Level(station) \in From("started") /\ Level(station') = To("started")
    BY <1>1, <2>1 DEF Level, From, To
  <2> QED BY <1>1, <1>5, <2>2, EventPosted DEF WiFiInv, TypeOK, Event
<1>7. (FlowFollows /\ StartsInOrder /\ ConfigKnown)'
  BY <1>1, <1>2 DEF WiFiInv, FlowFollows, StartsInOrder, ConfigKnown, SettingUp, Running
<1> QED BY <1>4, <1>5, <1>6, <1>7 DEF WiFiInv

LEMMA WaitForConnectKeeps ==
  ASSUME WiFiInv, WaitForConnect
  PROVE  WiFiInv'
<1> DEFINE attempts == flow.attempts + 1
<1>1. UNCHANGED <<bits, station, events, handler, hub, uplink, file, config, mdns,
                  asked, changes>>
  BY DEF WaitForConnect, NothingElse
<1>2. Running /\ flow.queued /\ flow.at = "wait_for_connect"
  BY DEF WaitForConnect, Runs
<1>3. /\ flow' \in [at : FlowAt, queued : BOOLEAN, timer : BOOLEAN,
                     attempts : 0..MaxAttempts + 1]
      /\ flow'.at \in {"wait_for_connect", "reload", "rebooted"}
      /\ flow'.at = "reload" => flow'.queued
  <2>1. /\ flow \in [at : FlowAt, queued : BOOLEAN, timer : BOOLEAN,
                     attempts : 0..MaxAttempts + 1]
        /\ attempts \in Nat /\ MaxAttempts + 1 \in 0..MaxAttempts + 1
    BY DEF WiFiInv, TypeOK
  <2>2. CASE attempts <= MaxAttempts
    <3>1. attempts \in 0..MaxAttempts + 1
      BY <2>1, <2>2
    <3>2. \/ flow' = [flow EXCEPT !.at = "reload", !.attempts = attempts]
          \/ flow' = [at |-> "wait_for_connect", queued |-> FALSE, timer |-> TRUE,
                      attempts |-> attempts]
      BY <2>2 DEF WaitForConnect, Sleeps
    <3> HIDE DEF attempts
    <3>3. CASE flow' = [flow EXCEPT !.at = "reload", !.attempts = attempts]
      BY <1>2, <2>1, <3>1, <3>3 DEF FlowAt
    <3>4. CASE flow' = [at |-> "wait_for_connect", queued |-> FALSE, timer |-> TRUE,
                       attempts |-> attempts]
      BY <3>1, <3>4 DEF FlowAt
    <3> QED BY <3>2, <3>3, <3>4
  <2>3. CASE ~(attempts <= MaxAttempts)
    <3>1. \E at \in {"reload", "rebooted"} :
            flow' = [flow EXCEPT !.attempts = MaxAttempts + 1, !.at = at]
      BY <2>3 DEF WaitForConnect
    <3> QED BY <1>2, <2>1, <3>1 DEF FlowAt
  <2> QED BY <2>2, <2>3
<1>4. TypeOK'
  BY <1>1, <1>3 DEF WiFiInv, TypeOK
<1>5. HandlerKnown' /\ EventsLead' /\ PublicationsKept'
  BY <1>1, HandlerStays, EventsStay, MdnsStays
<1>6. (FlowFollows /\ StartsInOrder /\ ConfigKnown)'
  BY <1>1, <1>2, <1>3 DEF WiFiInv, FlowFollows, Woken, StartsInOrder, ConfigKnown,
                          SettingUp, Running
<1> QED BY <1>4, <1>5, <1>6 DEF WiFiInv

(* Whether there is an address is looked at before the flow waits: if one comes
   or goes after that, the handler is still to wake it. *)
LEMMA ReloadKeeps ==
  ASSUME WiFiInv, Reload
  PROVE  WiFiInv'
<1>1. UNCHANGED <<bits, station, events, handler, file, config, mdns, asked, changes>>
  BY DEF Reload, NothingElse
<1>2. /\ Running
      /\ \/ /\ "GOTIP" \in bits /\ flow' = [flow EXCEPT !.at = "hub", !.queued = FALSE]
            /\ UNCHANGED <<hub, uplink>>
         \/ /\ "GOTIP" \notin bits /\ flow' = [flow EXCEPT !.at = "reload", !.queued = FALSE]
            /\ hub' = FALSE /\ uplink' = FALSE
  BY DEF Reload, Runs, Waits
<1>3. TypeOK'
  <2>1. flow \in FlowState /\ {"hub", "reload"} \subseteq FlowAt
    BY DEF WiFiInv, TypeOK, FlowAt, FlowState
  <2>2. flow' \in FlowState
    BY <1>2, <2>1 DEF FlowState
  <2>3. hub' \in BOOLEAN /\ uplink' \in BOOLEAN
    BY <1>2 DEF WiFiInv, TypeOK
  <2> QED BY <1>1, <2>2, <2>3 DEF WiFiInv, TypeOK, FlowState
<1>4. HandlerKnown' /\ EventsLead' /\ PublicationsKept'
  BY <1>1, HandlerStays, EventsStay, MdnsStays
<1>5. (StartsInOrder /\ ConfigKnown)'
  BY <1>1, <1>2 DEF WiFiInv, TypeOK, StartsInOrder, ConfigKnown, SettingUp, Running
<1>6. FlowFollows'
  BY <1>1, <1>2 DEF WiFiInv, TypeOK, FlowFollows, HubDone, UplinkDone
<1> QED BY <1>3, <1>4, <1>5, <1>6 DEF WiFiInv

LEMMA ReloadHubKeeps ==
  ASSUME WiFiInv, ReloadHub
  PROVE  WiFiInv'
<1>1. UNCHANGED <<bits, station, events, handler, file, config, uplink, changes>>
  BY DEF ReloadHub
<1>2. /\ flow' = [flow EXCEPT !.at = "uplink"] /\ flow.at = "hub"
      /\ hub' = ("HUB" \in config.mode)
      /\ \/ mdns' = Published(HubService) /\ asked' = asked \cup {HubService}
         \/ UNCHANGED <<mdns, asked>>
  BY DEF ReloadHub, Executes, GoesOnWith
<1>3. TypeOK'
  <2>1. mdns' \in Mdns /\ asked' \subseteq Service
    BY <1>2, PublishedKeeps DEF WiFiInv, TypeOK, Mdns
  <2>2. hub' \in BOOLEAN
    BY <1>2
  <2> QED BY <1>1, <1>2, <2>1, <2>2 DEF WiFiInv, TypeOK, FlowAt, Mdns
<1>4. HandlerKnown' /\ EventsLead'
  BY <1>1, HandlerStays, EventsStay
<1>5. PublicationsKept'
  BY <1>1, <1>2, PublishedKeeps DEF WiFiInv, PublicationsKept
<1>6. (StartsInOrder /\ ConfigKnown)'
  BY <1>1, <1>2 DEF WiFiInv, TypeOK, StartsInOrder, ConfigKnown, SettingUp
<1>7. FlowFollows'
  <2>1. flow'.at = "uplink" /\ flow'.queued = flow.queued
    BY <1>2 DEF WiFiInv, TypeOK
  <2>2. (Woken \/ "GOTIP" \in bits) /\ Woken' = Woken
    BY <1>1, <1>2, <2>1 DEF WiFiInv, FlowFollows, Woken, ToDo
  <2>3. "GOTIP" \in bits => HubDone'
    BY <1>1, <1>2 DEF HubDone
  <2> QED BY <1>1, <2>1, <2>2, <2>3 DEF FlowFollows
<1> QED BY <1>3, <1>4, <1>5, <1>6, <1>7 DEF WiFiInv

LEMMA ReloadUplinkKeeps ==
  ASSUME WiFiInv, ReloadUplink
  PROVE  WiFiInv'
<1>1. UNCHANGED <<bits, station, events, handler, hub, file, config, mdns, asked, changes>>
  BY DEF ReloadUplink, NothingElse
<1>2. /\ flow' = [flow EXCEPT !.at = "reload"] /\ flow.at = "uplink"
      /\ uplink' = ("UPLINK" \in config.mode)
  BY DEF ReloadUplink, Executes, GoesOnWith
<1>3. TypeOK'
  <2>1. uplink' \in BOOLEAN
    BY <1>2
  <2> QED BY <1>1, <1>2, <2>1 DEF WiFiInv, TypeOK, FlowAt
<1>4. HandlerKnown' /\ EventsLead' /\ PublicationsKept'
  BY <1>1, HandlerStays, EventsStay, MdnsStays
<1>5. (StartsInOrder /\ ConfigKnown)'
  BY <1>1, <1>2 DEF WiFiInv, TypeOK, StartsInOrder, ConfigKnown, SettingUp
<1>6. FlowFollows'
  <2>1. flow'.at = "reload" /\ flow'.queued = flow.queued
    BY <1>2 DEF WiFiInv, TypeOK
  <2>2. /\ Woken \/ ToCompare \/ ("GOTIP" \in bits /\ HubDone)
        /\ Woken' = Woken /\ ToCompare' = ToCompare
    BY <1>1, <1>2, <2>1 DEF WiFiInv, FlowFollows, Woken, ToDo, ToCompare
  <2>3. "GOTIP" \in bits /\ HubDone => HubDone' /\ UplinkDone'
    BY <1>1, <1>2 DEF HubDone, UplinkDone
  <2> QED BY <2>1, <2>2, <2>3 DEF FlowFollows
<1> QED BY <1>3, <1>4, <1>5, <1>6 DEF WiFiInv

LEMMA TimerKeeps ==
  ASSUME WiFiInv, Timer
  PROVE  WiFiInv'
<1>1. UNCHANGED <<bits, station, events, handler, hub, uplink, file, config, mdns,
                  asked, changes>>
  BY DEF Timer, NothingElse
<1>2. flow' = [flow EXCEPT !.timer = FALSE, !.queued = TRUE]
  BY DEF Timer
<1>3. TypeOK'
  BY <1>1, <1>2 DEF WiFiInv, TypeOK
<1>4. HandlerKnown' /\ EventsLead' /\ PublicationsKept'
  BY <1>1, HandlerStays, EventsStay, MdnsStays
<1>5. (StartsInOrder /\ ConfigKnown)'
  BY <1>1, <1>2 DEF WiFiInv, TypeOK, StartsInOrder, ConfigKnown
<1>6. FlowFollows'
  BY <1>2 DEF WiFiInv, TypeOK, FlowFollows, Woken
<1> QED BY <1>3, <1>4, <1>5, <1>6 DEF WiFiInv

(* Publications *)

LEMMA PublicationKeeps ==
  ASSUME WiFiInv, Publication
  PROVE  WiFiInv'
<1>1. PICK service \in Service :
        /\ Publishes(service)
        /\ \/ PublishFails(service) \/ PublishAgain(service) \/ PublishDone(service)
  BY DEF Publication, PublishFails, PublishAgain, PublishDone
<1>2. /\ UNCHANGED <<flow, bits, station, events, handler, file, config, hub, uplink,
                    asked>>
      /\ service \in mdns.scheduled
  BY <1>1 DEF Publishes
<1>3. /\ mdns' \in Mdns /\ mdns'.initialized = mdns.initialized
      /\ mdns.initialized => mdns'.deferred = mdns.deferred
      /\ mdns.deferred \cup mdns.scheduled \cup mdns.advertised
           \subseteq mdns'.deferred \cup mdns'.scheduled \cup mdns'.advertised
  <2>1. mdns \in Mdns
    BY DEF WiFiInv, TypeOK, Mdns
  <2>2. CASE PublishFails(service)
    BY <2>2, PublishedKeeps DEF PublishFails
  <2>3. CASE PublishAgain(service)
    <3> DEFINE p == Published(service)
    <3>1. mdns' = [p EXCEPT !.advertised = @ \ {service}]
      BY <2>3 DEF PublishAgain
    <3>2. /\ p \in Mdns /\ p.initialized = mdns.initialized
          /\ mdns.initialized => p.deferred = mdns.deferred
          /\ mdns.deferred \subseteq p.deferred /\ mdns.scheduled \subseteq p.scheduled
          /\ mdns.advertised = p.advertised
          /\ service \in p.deferred \cup p.scheduled
      BY PublishedKeeps
    <3> HIDE DEF p
    <3> QED BY <3>1, <3>2 DEF Mdns
  <2>4. CASE PublishDone(service)
    <3>1. mdns' = [mdns EXCEPT !.scheduled = @ \ {service},
                              !.advertised = @ \cup {service}]
      BY <2>4 DEF PublishDone
    <3> QED BY <2>1, <3>1 DEF Mdns
  <2> QED BY <1>1, <2>2, <2>3, <2>4
<1>4. changes' \in 0..MaxChanges
  BY <1>1 DEF PublishFails, PublishAgain, PublishDone, WiFiInv, TypeOK
<1>5. TypeOK'
  BY <1>2, <1>3, <1>4 DEF WiFiInv, TypeOK, Mdns
<1>6. HandlerKnown' /\ EventsLead' /\ FlowFollows'
  BY <1>2, HandlerStays, EventsStay, FlowStays
<1>7. (StartsInOrder /\ ConfigKnown)'
  BY <1>2 DEF WiFiInv, StartsInOrder, ConfigKnown
<1>8. PublicationsKept'
  BY <1>2, <1>3 DEF WiFiInv, PublicationsKept
<1> QED BY <1>5, <1>6, <1>7, <1>8 DEF WiFiInv

(* The handlers of events *)

LEMMA HandlerBeginsKeeps ==
  ASSUME WiFiInv, HandlerBegins
  PROVE  WiFiInv'
<1>1. /\ handler = <<>> /\ events # <<>>
      /\ handler' = Duties(Head(events)) /\ events' = Tail(events)
      /\ UNCHANGED <<flow, bits, station, hub, uplink, file, config, mdns, asked, changes>>
  BY DEF HandlerBegins, NothingElse
<1>2. /\ Head(events) = events[1] /\ events[1] \in Event /\ events' \in Seq(Event)
      /\ BitsToBe = bits /\ bits \in From(events[1])
  <2>1. events[1] \in Event /\ events' \in Seq(Event) /\ Head(events) = events[1]
    BY <1>1, HeadTailProperties DEF WiFiInv, TypeOK
  <2>2. BitsToBe = bits
    BY <1>1, DoneDoesNothing
  <2> QED BY <1>1, <2>1, <2>2 DEF WiFiInv, EventsLead
<1>3. HandlerKnown' /\ BitsToBe' = To(events[1])
  BY <1>1, <1>2, HandlerBeginsWith DEF WiFiInv
<1>4. EventsLead'
  BY <1>1, <1>3, EventTaken DEF WiFiInv, TypeOK
<1>5. TypeOK'
  <2>1. handler' \in Seq(Duty)
    BY <1>3, HandlersAreDuties DEF HandlerKnown
  <2> QED BY <1>1, <1>2, <2>1 DEF WiFiInv, TypeOK
<1>6. FlowFollows'
  <2>1. ~ToDo("notify")
    BY <1>1, DoneDoesNothing DEF Duty
  <2> QED BY <1>1, <2>1 DEF WiFiInv, FlowFollows, Woken, ToCompare, HubDone, UplinkDone
<1>7. (StartsInOrder /\ ConfigKnown)'
  BY <1>1 DEF WiFiInv, StartsInOrder, ConfigKnown
<1>8. PublicationsKept'
  BY <1>1 DEF WiFiInv, PublicationsKept
<1> QED BY <1>3, <1>4, <1>5, <1>6, <1>7, <1>8 DEF WiFiInv

LEMMA ConnectKeeps ==
  ASSUME WiFiInv, Connect
  PROVE  WiFiInv'
<1>1. /\ handler # <<>> /\ Head(handler) = "connect" /\ handler' = Tail(handler)
      /\ station' = IF station = "idle" THEN "searching" ELSE station
      /\ UNCHANGED <<flow, bits, events, hub, uplink, file, config, mdns, asked, changes>>
  BY DEF Connect, Does
<1>2. /\ handler' \in Handlers
      /\ \A d \in Duty : ToDo(d)' <=> ToDo(d) /\ d # "connect"
  BY <1>1, DutyDone DEF WiFiInv, HandlerKnown, Duty
<1>3. HandlerKnown' /\ BitsToBe' = BitsToBe
  BY <1>1, <1>2 DEF WiFiInv, HandlerKnown, BitsToBe, Duty
<1>4. EventsLead'
  <2>1. Level(station') = Level(station)
    BY <1>1 DEF Level
  <2> QED BY <1>1, <1>3, <2>1 DEF WiFiInv, EventsLead
<1>5. TypeOK'
  BY <1>1, <1>2, HandlersAreDuties DEF WiFiInv, TypeOK
<1>6. FlowFollows'
  BY <1>1, <1>2 DEF WiFiInv, FlowFollows, Woken, ToCompare, HubDone, UplinkDone, Duty
<1>7. (StartsInOrder /\ ConfigKnown)'
  BY <1>1 DEF WiFiInv, StartsInOrder, ConfigKnown
<1>8. PublicationsKept'
  BY <1>1 DEF WiFiInv, PublicationsKept
<1> QED BY <1>3, <1>4, <1>5, <1>6, <1>7, <1>8 DEF WiFiInv

(* A bit that a handler changes under the flow is followed by its wake-up. *)
LEMMA SetBitsKeeps ==
  ASSUME WiFiInv, SetBits
  PROVE  WiFiInv'
<1>1. PICK duty \in {"setConnected", "clearConnected", "setGotIp", "clearGotIp"} :
        /\ Does(duty)
        /\ bits' = CASE duty = "setConnected" -> bits \cup {"CONNECTED"}
                     [] duty = "clearConnected" -> bits \ {"CONNECTED"}
                     [] duty = "setGotIp" -> bits \cup {"GOTIP"}
                     [] duty = "clearGotIp" -> bits \ {"GOTIP"}
  BY DEF SetBits
<1>2. /\ handler # <<>> /\ Head(handler) = duty /\ handler' = Tail(handler)
      /\ UNCHANGED <<flow, station, events, hub, uplink, file, config, mdns, asked, changes>>
  BY <1>1 DEF SetBits, Does
<1>3. /\ handler' \in Handlers /\ ToDo(duty)
      /\ \A d \in Duty : ToDo(d)' <=> ToDo(d) /\ d # duty
  BY <1>1, <1>2, DutyDone DEF WiFiInv, HandlerKnown, Duty
<1>4. /\ ~(ToDo("setConnected") /\ ToDo("clearConnected"))
      /\ ~(ToDo("setGotIp") /\ ToDo("clearGotIp"))
      /\ ToDo("setGotIp") => ToDo("notify")
      /\ ToDo("clearGotIp") /\ ~ToDo("notify") => "GOTIP" \notin bits
  BY DutiesAgree DEF WiFiInv, HandlerKnown
<1>5. /\ ToDo("notify")' <=> ToDo("notify")
      /\ ToDo("setConnected")' <=> ToDo("setConnected") /\ duty # "setConnected"
      /\ ToDo("clearConnected")' <=> ToDo("clearConnected") /\ duty # "clearConnected"
      /\ ToDo("setGotIp")' <=> ToDo("setGotIp") /\ duty # "setGotIp"
      /\ ToDo("clearGotIp")' <=> ToDo("clearGotIp") /\ duty # "clearGotIp"
  BY <1>1, <1>3 DEF Duty
<1>6. BitsToBe' = BitsToBe
  <2>1. CASE duty = "setConnected"
    BY <1>1, <1>3, <1>4, <1>5, <2>1 DEF BitsToBe
  <2>2. CASE duty = "clearConnected"
    BY <1>1, <1>3, <1>4, <1>5, <2>2 DEF BitsToBe
  <2>3. CASE duty = "setGotIp"
    BY <1>1, <1>3, <1>4, <1>5, <2>3 DEF BitsToBe
  <2>4. CASE duty = "clearGotIp"
    BY <1>1, <1>3, <1>4, <1>5, <2>4 DEF BitsToBe
  <2> QED BY <2>1, <2>2, <2>3, <2>4
<1>7. /\ bits' \subseteq Bit
      /\ ("GOTIP" \in bits' <=> "GOTIP" \in bits) \/ ToDo("notify")
  BY <1>1, <1>3, <1>4 DEF WiFiInv, TypeOK, Bit
<1>8. HandlerKnown'
  BY <1>1, <1>3, <1>4, <1>5 DEF HandlerKnown
<1>9. EventsLead'
  BY <1>2, <1>6, EventsStay
<1>10. TypeOK'
  BY <1>1, <1>2, <1>3, HandlersAreDuties DEF WiFiInv, TypeOK, Bit
<1>11. FlowFollows'
  BY <1>2, <1>5, <1>7 DEF WiFiInv, FlowFollows, Woken, ToCompare, HubDone, UplinkDone
<1>12. (StartsInOrder /\ ConfigKnown)'
  BY <1>2 DEF WiFiInv, StartsInOrder, ConfigKnown
<1>13. PublicationsKept'
  BY <1>1, <1>2 DEF WiFiInv, PublicationsKept
<1> QED BY <1>8, <1>9, <1>10, <1>11, <1>12, <1>13 DEF WiFiInv

LEMMA NotifyKeeps ==
  ASSUME WiFiInv, Notify
  PROVE  WiFiInv'
<1>1. /\ handler # <<>> /\ Head(handler) = "notify" /\ handler' = Tail(handler)
      /\ flow' = [flow EXCEPT !.queued = TRUE]
      /\ UNCHANGED <<bits, station, events, hub, uplink, file, config, mdns, asked, changes>>
  BY DEF Notify, Does, Notified
<1>2. /\ handler' \in Handlers /\ ToDo("notify")
      /\ \A d \in Duty : ToDo(d)' <=> ToDo(d) /\ d # "notify"
  BY <1>1, DutyDone DEF WiFiInv, HandlerKnown, Duty
<1>3. BitsToBe' = BitsToBe
  BY <1>1, <1>2 DEF BitsToBe, Duty
<1>4. HandlerKnown'
  BY <1>1, <1>2, NotifiedAfterClearing DEF WiFiInv, HandlerKnown, Duty
<1>5. EventsLead'
  BY <1>1, <1>3, EventsStay
<1>6. TypeOK'
  BY <1>1, <1>2, HandlersAreDuties DEF WiFiInv, TypeOK
<1>7. FlowFollows'
  BY <1>1 DEF WiFiInv, TypeOK, FlowFollows, Woken
<1>8. (StartsInOrder /\ ConfigKnown)'
  BY <1>1 DEF WiFiInv, TypeOK, StartsInOrder, ConfigKnown
<1>9. PublicationsKept'
  BY <1>1 DEF WiFiInv, PublicationsKept
<1> QED BY <1>4, <1>5, <1>6, <1>7, <1>8, <1>9 DEF WiFiInv

LEMMA StartMdnsKeeps ==
  ASSUME WiFiInv, StartMdns
  PROVE  WiFiInv'
<1>1. /\ handler # <<>> /\ Head(handler) = "startMdns"
      /\ handler' = IF mdns.initialized THEN Tail(Tail(handler)) ELSE Tail(handler)
      /\ mdns' = [mdns EXCEPT !.initialized = TRUE]
      /\ UNCHANGED <<flow, bits, station, events, hub, uplink, file, config, asked, changes>>
  BY DEF StartMdns, Does
<1>2. /\ handler = <<"startMdns", "publishDeferred", "setGotIp", "notify">>
      /\ \/ /\ handler' = <<"publishDeferred", "setGotIp", "notify">>
            /\ ~mdns.initialized
         \/ handler' = <<"setGotIp", "notify">> /\ mdns.initialized
  BY <1>1, MdnsStarted DEF WiFiInv, HandlerKnown
<1>3. /\ handler' \in Handlers
      /\ ToDo("notify") /\ ToDo("notify")' /\ ToDo("setGotIp") /\ ToDo("setGotIp")'
      /\ \A d \in {"setConnected", "clearConnected", "clearGotIp"} : ~ToDo(d) /\ ~ToDo(d)'
  <2>1. handler' \in Handlers
    BY <1>2 DEF Handlers
  <2>2. /\ ToDo("notify") /\ ToDo("setGotIp")
        /\ \A d \in {"setConnected", "clearConnected", "clearGotIp"} : ~ToDo(d)
    BY <1>2 DEF ToDo
  <2>3. /\ ToDo("notify")' /\ ToDo("setGotIp")'
        /\ \A d \in {"setConnected", "clearConnected", "clearGotIp"} : ~ToDo(d)'
    <3>1. CASE handler' = <<"publishDeferred", "setGotIp", "notify">>
      BY <3>1 DEF ToDo
    <3>2. CASE handler' = <<"setGotIp", "notify">>
      BY <3>2 DEF ToDo
    <3> QED BY <1>2, <3>1, <3>2
  <2> QED BY <2>1, <2>2, <2>3
<1>4. HandlerKnown' /\ BitsToBe' = BitsToBe
  BY <1>1, <1>3 DEF HandlerKnown, BitsToBe
<1>5. EventsLead'
  BY <1>1, <1>4, EventsStay
<1>6. TypeOK'
  BY <1>1, <1>3, HandlersAreDuties DEF WiFiInv, TypeOK
<1>7. FlowFollows'
  BY <1>1, <1>3 DEF FlowFollows, Woken
<1>8. (StartsInOrder /\ ConfigKnown)'
  BY <1>1 DEF WiFiInv, StartsInOrder, ConfigKnown
<1>9. PublicationsKept'
  <2>1. /\ mdns'.deferred = mdns.deferred /\ mdns'.scheduled = mdns.scheduled
        /\ mdns'.advertised = mdns.advertised
    BY <1>1 DEF WiFiInv, TypeOK
  <2>2. CASE ~mdns.initialized
    <3>1. handler' # <<>> /\ Head(handler') = "publishDeferred"
      BY <1>2, <2>2
    <3> QED BY <1>1, <2>1, <3>1 DEF WiFiInv, PublicationsKept
  <2>3. CASE mdns.initialized
    <3>1. mdns.deferred = {}
      BY <1>1, <2>3 DEF WiFiInv, PublicationsKept
    <3> QED BY <1>1, <2>1, <3>1 DEF WiFiInv, PublicationsKept
  <2> QED BY <2>2, <2>3
<1> QED BY <1>4, <1>5, <1>6, <1>7, <1>8, <1>9 DEF WiFiInv

LEMMA PublishDeferredKeeps ==
  ASSUME WiFiInv, PublishDeferred
  PROVE  WiFiInv'
<1>1. /\ handler # <<>> /\ Head(handler) = "publishDeferred" /\ handler' = Tail(handler)
      /\ mdns' = [mdns EXCEPT !.scheduled = @ \cup mdns.deferred, !.deferred = {}]
      /\ UNCHANGED <<flow, bits, station, events, hub, uplink, file, config, asked, changes>>
  BY DEF PublishDeferred, Does, Undeferred
<1>2. /\ handler' \in Handlers
      /\ \A d \in Duty : ToDo(d)' <=> ToDo(d) /\ d # "publishDeferred"
  BY <1>1, DutyDone DEF WiFiInv, HandlerKnown, Duty
<1>3. HandlerKnown' /\ BitsToBe' = BitsToBe
  BY <1>1, <1>2 DEF WiFiInv, HandlerKnown, BitsToBe, Duty
<1>4. EventsLead'
  BY <1>1, <1>3, EventsStay
<1>5. TypeOK'
  BY <1>1, <1>2, HandlersAreDuties DEF WiFiInv, TypeOK
<1>6. FlowFollows'
  BY <1>1, <1>2 DEF WiFiInv, FlowFollows, Woken, ToCompare, HubDone, UplinkDone, Duty
<1>7. (StartsInOrder /\ ConfigKnown)'
  BY <1>1 DEF WiFiInv, StartsInOrder, ConfigKnown
<1>8. PublicationsKept'
  <2>1. /\ mdns'.deferred = {} /\ mdns'.scheduled = mdns.scheduled \cup mdns.deferred
        /\ mdns'.advertised = mdns.advertised
    BY <1>1 DEF WiFiInv, TypeOK
  <2> QED BY <1>1, <2>1 DEF WiFiInv, PublicationsKept
<1> QED BY <1>3, <1>4, <1>5, <1>6, <1>7, <1>8 DEF WiFiInv

(* The configuration *)

LEMMA InitialLoadKeeps ==
  ASSUME WiFiInv, InitialLoad
  PROVE  WiFiInv'
<1>1. /\ UNCHANGED <<flow, bits, station, events, handler, file, hub, uplink, mdns, asked,
                     changes>>
      /\ config.at = "initial"
      /\ config' = [config EXCEPT !.at = "idle", !.mode = file, !.crc = file]
  BY DEF InitialLoad
<1>2. TypeOK'
  BY <1>1 DEF WiFiInv, TypeOK
<1>3. HandlerKnown' /\ EventsLead' /\ PublicationsKept'
  BY <1>1, HandlerStays, EventsStay, MdnsStays
<1>4. FlowFollows'
  <2>1. flow'.at = "startup"
    BY <1>1 DEF WiFiInv, StartsInOrder
  <2> QED BY <2>1 DEF FlowFollows
<1>5. (StartsInOrder /\ ConfigKnown)'
  BY <1>1 DEF WiFiInv, TypeOK, StartsInOrder, ConfigKnown
<1> QED BY <1>2, <1>3, <1>4, <1>5 DEF WiFiInv

(* A mode that is not the one before shows in the checksum, and so the flow is
   to be woken. *)
LEMMA ApplyConfigurationKeeps ==
  ASSUME WiFiInv, ApplyConfiguration
  PROVE  WiFiInv'
<1>1. /\ UNCHANGED <<flow, bits, station, events, handler, file, hub, uplink, mdns, asked,
                     changes>>
      /\ config.at = "idle"
      /\ config' = [config EXCEPT !.at = "compare", !.updated = FALSE, !.mode = file]
  BY DEF ApplyConfiguration
<1>2. TypeOK'
  BY <1>1 DEF WiFiInv, TypeOK
<1>3. HandlerKnown' /\ EventsLead' /\ PublicationsKept'
  BY <1>1, HandlerStays, EventsStay, MdnsStays
<1>4. (StartsInOrder /\ ConfigKnown)'
  BY <1>1 DEF WiFiInv, TypeOK, StartsInOrder, ConfigKnown
<1>5. FlowFollows'
  <2>1. /\ config'.at = "compare" /\ config'.mode = file /\ config'.crc = config.mode
        /\ ~ToCompare
    BY <1>1 DEF WiFiInv, TypeOK, ConfigKnown, ToCompare
  <2>2. Woken' = Woken
    BY <1>1 DEF Woken, ToDo
  <2>3. CASE config.mode = file
    BY <1>1, <2>1, <2>2, <2>3 DEF WiFiInv, FlowFollows, HubDone, UplinkDone
  <2>4. CASE config.mode # file
    <3>1. ToCompare'
      BY <2>1, <2>4 DEF ToCompare
    <3> QED BY <1>1, <2>2, <3>1 DEF WiFiInv, FlowFollows
  <2> QED BY <2>3, <2>4
<1> QED BY <1>2, <1>3, <1>4, <1>5 DEF WiFiInv

LEMMA CompareConfigurationKeeps ==
  ASSUME WiFiInv, CompareConfiguration
  PROVE  WiFiInv'
<1>1. /\ UNCHANGED <<bits, station, events, handler, file, hub, uplink, mdns, asked,
                     changes>>
      /\ flow' = IF config.crc # file THEN [flow EXCEPT !.queued = TRUE] ELSE flow
      /\ config.at = "compare"
      /\ config' = [config EXCEPT !.at = "idle", !.crc = file]
  BY DEF CompareConfiguration, Notified
<1>2. TypeOK'
  BY <1>1 DEF WiFiInv, TypeOK
<1>3. HandlerKnown' /\ EventsLead' /\ PublicationsKept'
  BY <1>1, HandlerStays, EventsStay, MdnsStays
<1>4. (StartsInOrder /\ ConfigKnown)'
  BY <1>1 DEF WiFiInv, TypeOK, StartsInOrder, ConfigKnown
<1>5. FlowFollows'
  <2>1. CASE config.crc # file
    BY <1>1, <2>1 DEF WiFiInv, TypeOK, FlowFollows, Woken
  <2>2. CASE config.crc = file
    <3>1. /\ flow' = flow /\ config'.mode = config.mode /\ ~ToCompare
      BY <1>1, <2>2 DEF WiFiInv, TypeOK, ConfigKnown, ToCompare
    <3>2. Woken' = Woken
      BY <1>1, <3>1 DEF Woken, ToDo
    <3> QED BY <1>1, <3>1, <3>2 DEF WiFiInv, FlowFollows, HubDone, UplinkDone
  <2> QED BY <2>1, <2>2
<1> QED BY <1>2, <1>3, <1>4, <1>5 DEF WiFiInv

(* The network, the owner, and the rest of the firmware *)

(* What happens to the station leads on to where it is then. *)
LEMMA NetworkKeeps ==
  ASSUME WiFiInv, NEW event \in Event, NetworkOnly, station # "off",
         station' \in {"idle", "associated", "ip"}, events' = Posted(event),
         Level(station) \in From(event), Level(station') = To(event),
         changes' \in 0..MaxChanges
  PROVE  WiFiInv'
<1>1. UNCHANGED <<flow, bits, handler, file, config, hub, uplink, mdns, asked>>
  BY DEF NetworkOnly
<1>2. HandlerKnown' /\ FlowFollows' /\ PublicationsKept' /\ BitsToBe' = BitsToBe
  BY <1>1, HandlerStays, FlowStays, MdnsStays
<1>3. EventsLead'
  BY <1>2, EventPosted DEF WiFiInv, TypeOK
<1>4. TypeOK'
  <2>1. events' \in Seq(Event)
    BY AppendProperties DEF WiFiInv, TypeOK, Posted
  <2> QED BY <1>1, <2>1 DEF WiFiInv, TypeOK
<1>5. (StartsInOrder /\ ConfigKnown)'
  BY <1>1 DEF WiFiInv, StartsInOrder, ConfigKnown
<1> QED BY <1>2, <1>3, <1>4, <1>5 DEF WiFiInv

LEMMA AssociateKeeps ==
  ASSUME WiFiInv, Associate
  PROVE  WiFiInv'
<1>1. /\ station = "searching" /\ station' = "associated" /\ events' = Posted("connected")
      /\ NetworkOnly /\ changes' \in 0..MaxChanges
  BY DEF Associate, WiFiInv, TypeOK
<1>2. /\ Level(station) \in From("connected") /\ Level(station') = To("connected")
      /\ "connected" \in Event
  BY <1>1 DEF Level, From, To, Event
<1> QED BY <1>1, <1>2, NetworkKeeps

LEMMA AssignIpKeeps ==
  ASSUME WiFiInv, AssignIp
  PROVE  WiFiInv'
<1>1. /\ station = "associated" /\ station' = "ip" /\ events' = Posted("gotIp")
      /\ NetworkOnly /\ changes' \in 0..MaxChanges
  BY DEF AssignIp, WiFiInv, TypeOK
<1>2. /\ Level(station) \in From("gotIp") /\ Level(station') = To("gotIp")
      /\ "gotIp" \in Event
  BY <1>1 DEF Level, From, To, Event
<1> QED BY <1>1, <1>2, NetworkKeeps

LEMMA CountedKeeps ==
  ASSUME WiFiInv, Counted
  PROVE  changes' \in 0..MaxChanges
BY DEF WiFiInv, TypeOK, Counted

LEMMA DisconnectKeeps ==
  ASSUME WiFiInv, Disconnect
  PROVE  WiFiInv'
<1>1. /\ station \in {"searching", "associated", "ip"} /\ station' = "idle"
      /\ events' = Posted("disconnected") /\ NetworkOnly /\ Counted
  BY DEF Disconnect
<1>2. /\ Level(station) \in From("disconnected") /\ Level(station') = To("disconnected")
      /\ "disconnected" \in Event
  BY <1>1 DEF Level, From, To, Event
<1> QED BY <1>1, <1>2, CountedKeeps, NetworkKeeps

LEMMA LoseIpKeeps ==
  ASSUME WiFiInv, LoseIp
  PROVE  WiFiInv'
<1>1. /\ station = "ip" /\ station' = "associated" /\ events' = Posted("lostIp")
      /\ NetworkOnly /\ Counted
  BY DEF LoseIp
<1>2. /\ Level(station) \in From("lostIp") /\ Level(station') = To("lostIp")
      /\ "lostIp" \in Event
  BY <1>1 DEF Level, From, To, Event
<1> QED BY <1>1, <1>2, CountedKeeps, NetworkKeeps

LEMMA EditKeeps ==
  ASSUME WiFiInv, Edit
  PROVE  WiFiInv'
<1>1. /\ UNCHANGED <<flow, bits, station, events, handler, hub, uplink, mdns, asked>>
      /\ Running /\ config.at = "idle" /\ file' \subseteq Mode
      /\ config' = [config EXCEPT !.updated = TRUE]
      /\ changes' \in 0..MaxChanges
  BY CountedKeeps DEF Edit
<1>2. TypeOK'
  BY <1>1 DEF WiFiInv, TypeOK
<1>3. HandlerKnown' /\ EventsLead' /\ PublicationsKept'
  BY <1>1, HandlerStays, EventsStay, MdnsStays
<1>4. (StartsInOrder /\ ConfigKnown)'
  BY <1>1 DEF WiFiInv, TypeOK, StartsInOrder, ConfigKnown
<1>5. FlowFollows'
  <2>1. config'.at = config.at /\ config'.mode = config.mode /\ config'.crc = config.crc
    BY <1>1 DEF WiFiInv, TypeOK
  <2> QED BY <1>1, <2>1 DEF WiFiInv, FlowFollows, Woken, ToDo, ToCompare, HubDone,
                            UplinkDone
<1> QED BY <1>2, <1>3, <1>4, <1>5 DEF WiFiInv

LEMMA AskKeeps ==
  ASSUME WiFiInv, NEW service \in Service, Ask(service)
  PROVE  WiFiInv'
<1>1. /\ UNCHANGED <<flow, bits, station, events, handler, file, config, hub, uplink>>
      /\ mdns' = Published(service) /\ asked' = asked \cup {service}
      /\ changes' \in 0..MaxChanges
  BY CountedKeeps DEF Ask
<1>2. TypeOK'
  <2>1. mdns' \in Mdns /\ asked' \subseteq Service
    BY <1>1, PublishedKeeps DEF WiFiInv, TypeOK
  <2> QED BY <1>1, <2>1 DEF WiFiInv, TypeOK, Mdns
<1>3. HandlerKnown' /\ EventsLead' /\ FlowFollows'
  BY <1>1, HandlerStays, EventsStay, FlowStays
<1>4. (StartsInOrder /\ ConfigKnown)'
  BY <1>1 DEF WiFiInv, StartsInOrder, ConfigKnown
<1>5. PublicationsKept'
  BY <1>1, PublishedKeeps DEF WiFiInv, PublicationsKept
<1> QED BY <1>2, <1>3, <1>4, <1>5 DEF WiFiInv

LEMMA RestartKeeps ==
  ASSUME WiFiInv, Restart
  PROVE  WiFiInv'
<1>1. /\ flow' = [at |-> "startup", queued |-> TRUE, timer |-> FALSE, attempts |-> 0]
      /\ config' = [at |-> "initial", updated |-> FALSE, crc |-> {}, mode |-> {"UPLINK"}]
      /\ mdns' = [initialized |-> FALSE, deferred |-> {}, scheduled |-> {},
                  advertised |-> {}]
      /\ bits' = {} /\ station' = "off" /\ events' = <<>> /\ handler' = <<>>
      /\ hub' = FALSE /\ uplink' = FALSE /\ asked' = {}
      /\ UNCHANGED <<file, changes>>
  BY DEF Restart, Boot
<1>2. TypeOK'
  <2>1. 0 \in 0..MaxAttempts + 1
    OBVIOUS
  <2>2. events' \in Seq(Event) /\ handler' \in Seq(Duty)
    BY <1>1, EmptySeq
  <2> QED BY <1>1, <2>1, <2>2 DEF WiFiInv, TypeOK, FlowAt, Mode, Bit
<1>3. HandlerKnown' /\ EventsLead'
  <2>1. \A d \in Duty : ~ToDo(d)'
    BY <1>1 DEF ToDo
  <2>2. BitsToBe' = {}
    BY <1>1, <2>1 DEF BitsToBe, Duty
  <2> QED BY <1>1, <2>1, <2>2 DEF HandlerKnown, Handlers, EventsLead, Level, Duty
<1>4. (FlowFollows /\ StartsInOrder /\ ConfigKnown /\ PublicationsKept)'
  BY <1>1 DEF FlowFollows, StartsInOrder, ConfigKnown, PublicationsKept
<1> QED BY <1>2, <1>3, <1>4 DEF WiFiInv

LEMMA StutterKeeps ==
  ASSUME WiFiInv, UNCHANGED vars
  PROVE  WiFiInv'
<1>1. UNCHANGED <<flow, bits, station, events, handler, file, config, hub, uplink, mdns,
                  asked, changes>>
  BY DEF vars
<1>2. TypeOK'
  BY <1>1 DEF WiFiInv, TypeOK
<1>3. HandlerKnown' /\ EventsLead' /\ FlowFollows' /\ PublicationsKept'
  BY <1>1, HandlerStays, EventsStay, FlowStays, MdnsStays
<1>4. (StartsInOrder /\ ConfigKnown)'
  BY <1>1 DEF WiFiInv, StartsInOrder, ConfigKnown
<1> QED BY <1>2, <1>3, <1>4 DEF WiFiInv

LEMMA NextKeeps == WiFiInv /\ [Next]_vars => WiFiInv'
<1> SUFFICES ASSUME WiFiInv, [Next]_vars
             PROVE  WiFiInv'
  OBVIOUS
<1>1. CASE Flow
  BY <1>1, SetsUpKeeps, StartWifiKeeps, WaitForConnectKeeps, ReloadKeeps, ReloadHubKeeps,
     ReloadUplinkKeeps DEF Flow
<1>2. CASE Timer \/ Publication
  BY <1>2, TimerKeeps, PublicationKeeps
<1>3. CASE Handler
  BY <1>3, HandlerBeginsKeeps, ConnectKeeps, SetBitsKeeps, NotifyKeeps, StartMdnsKeeps,
     PublishDeferredKeeps DEF Handler
<1>4. CASE Configuration
  BY <1>4, InitialLoadKeeps, ApplyConfigurationKeeps, CompareConfigurationKeeps
     DEF Configuration
<1>5. CASE Associate \/ AssignIp \/ Restart
  BY <1>5, AssociateKeeps, AssignIpKeeps, RestartKeeps
<1>6. CASE Outside
  BY <1>6, DisconnectKeeps, LoseIpKeeps, EditKeeps, AskKeeps DEF Outside
<1>7. CASE UNCHANGED vars
  BY <1>7, StutterKeeps
<1> QED BY <1>1, <1>2, <1>3, <1>4, <1>5, <1>6, <1>7 DEF Next

-----------------------------------------------------------------------------
(* WiFiInv is an inductive invariant: whatever the network, the owner and the
   rest of the firmware do, and in whatever order the three threads come to
   their steps, the events and the handler lead the bits to where the station
   is, and a flow that has not done what they ask for will be woken. *)
THEOREM WiFiSafe == Spec => []WiFiInv
BY InitKeeps, NextKeeps, PTL DEF Spec

(* Every variable of the manager stays within its type. *)
THEOREM ManagerTypeOK == Spec => []TypeOK
<1>1. WiFiInv => TypeOK
  BY DEF WiFiInv
<1> QED BY <1>1, WiFiSafe, PTL

LEMMA QuietIsAsConfigured == WiFiInv => Settled
<1> SUFFICES ASSUME WiFiInv, Quiet
             PROVE  AsConfigured
  BY DEF Settled
<1>1. BitsToBe = bits /\ ~ToDo("notify")
  BY DoneDoesNothing DEF Quiet, Duty
<1>2. bits = Level(station)
  BY <1>1 DEF WiFiInv, EventsLead, Quiet
<1>3. "GOTIP" \in bits <=> station = "ip"
  BY <1>2 DEF WiFiInv, TypeOK, Level, Bit
<1>4. config.mode = file /\ HubDone /\ UplinkDone
  BY <1>1 DEF WiFiInv, ConfigKnown, FlowFollows, Woken, ToCompare, Quiet
<1>5. hub \in BOOLEAN /\ uplink \in BOOLEAN
  BY DEF WiFiInv, TypeOK
<1> QED BY <1>3, <1>4, <1>5 DEF AsConfigured, HubDone, UplinkDone

(* No wake-up of the flow is lost: when nothing is left to do, the hub and the
   uplink run as the file says if there is an address, and do not run without
   one.  The event group and the connection mode are looked at by reload() and
   changed by the event loop and the stack, each without a lock. *)
THEOREM NoWakeUpLost == Spec => []Settled
BY QuietIsAsConfigured, WiFiSafe, PTL

(* A service that anyone asked to publish waits for mDNS, or is scheduled, or is
   advertised, however start_mdns_system(), mdns_publish() and the publications
   of the executor come to their steps. *)
THEOREM ServicesKept == Spec => []PublicationsKept
<1>1. WiFiInv => PublicationsKept
  BY DEF WiFiInv
<1> QED BY <1>1, WiFiSafe, PTL

=============================================================================
