---------------------------- MODULE WiFiManager ----------------------------
(***************************************************************************)
(* The WiFi manager (Esp32WiFiManager) of a board that joins a network as  *)
(* a station, the one mode main.cxx starts it in.  Three threads meet in   *)
(* it: the event loop of the ESP-IDF, which runs the handlers of the       *)
(* events of the network; the manager's executor, which runs the flow that *)
(* connects and then starts and stops the hub and the uplink, and the      *)
(* publications over mDNS; and the stack, which hands over a configuration *)
(* that was edited.  The handlers and the flow share the bits of an event  *)
(* group, and everyone wakes the flow with notify().                       *)
(*                                                                         *)
(* A step is what one of them does between two looks at what they share.   *)
(* Access points, scans, the clock, the radio's power and sleep, and the   *)
(* callbacks of others are left out.                                       *)
(***************************************************************************)
EXTENDS Naturals, Sequences

CONSTANTS
  Service,            \* what may be published over mDNS,
  HubService,         \* with what the hub publishes
  MaxAttempts,        \* MAX_CONNECTION_CHECK_ATTEMPTS
  MaxChanges          \* a bound on what the network, the owner and the other
                      \* parts of the firmware do

ASSUME WiFiAssumption ==
  HubService \in Service /\ MaxAttempts \in Nat /\ MaxChanges \in Nat

VARIABLES
  flow,       \* WiFiStackFlow: at, its state; queued, on the executor; timer,
              \* whether timer_ runs; attempts, wifiConnectAttempts_
  bits,       \* wifiStatusEventGroup_
  station,    \* external: where the station is
  events,     \* external: the events on their way
  handler,    \* what the handler of an event has yet to do
  file,       \* the connection mode in the configuration file
  config,     \* at, where apply_configuration() is; updated, whether the file
              \* was edited since; crc, configCrc32_; mode, connectionMode_
  hub,        \* whether the hub runs
  uplink,     \* whether the uplink runs
  mdns,       \* initialized, mdnsInitialized_; deferred, mdnsDeferredPublish_;
              \* scheduled, what the executor is to publish; advertised, what
              \* the library has (external)
  asked,      \* history: what was to be published
  changes     \* how often the network, the owner or another part did something

vars == <<flow, bits, station, events, handler, file, config, hub, uplink,
          mdns, asked, changes>>

-----------------------------------------------------------------------------
Mode == {"HUB", "UPLINK"}                      \* the bits of connectionMode_
Bit == {"CONNECTED", "GOTIP"}
Event == {"started", "connected", "disconnected", "gotIp", "lostIp"}
Duty == {"connect", "setConnected", "clearConnected", "setGotIp", "clearGotIp",
         "startMdns", "publishDeferred", "notify"}
FlowAt == {"startup", "init_interface", "init_wifi", "configure_station",
           "start_wifi", "wait_for_connect", "reload", "hub", "uplink",
           "rebooted"}

TypeOK ==
  /\ flow \in [at : FlowAt, queued : BOOLEAN, timer : BOOLEAN,
               attempts : 0..(MaxAttempts + 1)]
  /\ bits \subseteq Bit
  /\ station \in {"off", "idle", "searching", "associated", "ip"}
  /\ events \in Seq(Event) /\ handler \in Seq(Duty)
  /\ file \subseteq Mode
  /\ config \in [at : {"initial", "idle", "compare"}, updated : BOOLEAN,
                 crc : SUBSET Mode, mode : SUBSET Mode]
  /\ hub \in BOOLEAN /\ uplink \in BOOLEAN
  /\ mdns \in [initialized : BOOLEAN, deferred : SUBSET Service,
               scheduled : SUBSET Service, advertised : SUBSET Service]
  /\ asked \subseteq Service
  /\ changes \in 0..MaxChanges

(* What a start leaves of everything but the file: Esp32WiFiManager() and
   WiFiStackFlow(). *)
Boot(var) ==
  CASE var = "flow" -> [at |-> "startup", queued |-> TRUE, timer |-> FALSE,
                        attempts |-> 0]
    [] var = "config" -> [at |-> "initial", updated |-> FALSE, crc |-> {},
                          mode |-> {"UPLINK"}]
    [] var = "mdns" -> [initialized |-> FALSE, deferred |-> {},
                        scheduled |-> {}, advertised |-> {}]

Init ==
  /\ flow = Boot("flow") /\ config = Boot("config") /\ mdns = Boot("mdns")
  /\ bits = {} /\ station = "off" /\ events = <<>> /\ handler = <<>>
  /\ file \in SUBSET Mode
  /\ hub = FALSE /\ uplink = FALSE
  /\ asked = {}
  /\ changes = 0

-----------------------------------------------------------------------------
(* What several of them do *)

(* notify() of a flow that is queued already is taken to change nothing. *)
Notified == [flow EXCEPT !.queued = TRUE]

(* mdns_publish(), under mdnsInitLock_ *)
Published(service) ==
  IF mdns.initialized
  THEN [mdns EXCEPT !.scheduled = @ \cup {service}]
  ELSE [mdns EXCEPT !.deferred = @ \cup {service}]

Posted(event) == Append(events, event)

Running == flow.at # "rebooted" /\ config.at # "initial"  \* executor_ runs

-----------------------------------------------------------------------------
(* The flow, on the executor *)

(* The executor runs the state the flow is in. *)
Runs(state) ==
  Running /\ flow.queued /\ flow.at = state
Yields(state) == flow' = [flow EXCEPT !.at = state]
Waits(state) == flow' = [flow EXCEPT !.at = state, !.queued = FALSE]
Sleeps(state, attempts) ==
  flow' = [at |-> state, queued |-> FALSE, timer |-> TRUE, attempts |-> attempts]

NothingElse == UNCHANGED <<file, config, mdns, asked, changes>>

(* startup(), init_interface(), init_wifi() and configure_station(), which
   touch nothing anyone else looks at. *)
SetsUp ==
  /\ \/ Runs("startup") /\ Yields("init_interface")
     \/ Runs("init_interface") /\ Yields("init_wifi")
     \/ Runs("init_wifi") /\ Yields("configure_station")
     \/ Runs("configure_station") /\ Yields("start_wifi")
  /\ UNCHANGED <<bits, station, events, handler, hub, uplink>> /\ NothingElse

StartWifi ==
  /\ Runs("start_wifi")
  /\ station' = "idle" /\ events' = Posted("started")
  /\ Sleeps("wait_for_connect", flow.attempts)
  /\ UNCHANGED <<bits, handler, hub, uplink>> /\ NothingElse

(* After too many looks without an address the firmware restarts. *)
WaitForConnect ==
  /\ Runs("wait_for_connect")
  /\ LET attempts == flow.attempts + 1
     IN IF attempts <= MaxAttempts
        THEN IF "GOTIP" \in bits
             THEN flow' = [flow EXCEPT !.at = "reload", !.attempts = attempts]
             ELSE Sleeps("wait_for_connect", attempts)
        ELSE flow' = [flow EXCEPT !.attempts = MaxAttempts + 1,
                                  !.at = IF bits = Bit THEN "reload" ELSE "rebooted"]
  /\ UNCHANGED <<bits, station, events, handler, hub, uplink>> /\ NothingElse

(* reload() looks at the bits, then at connectionMode_ for the hub, and then
   again for the uplink. *)
Reload ==
  /\ Runs("reload")
  /\ IF "GOTIP" \in bits
     THEN Waits("hub") /\ UNCHANGED <<hub, uplink>>
     ELSE Waits("reload") /\ hub' = FALSE /\ uplink' = FALSE
  /\ UNCHANGED <<bits, station, events, handler>> /\ NothingElse

Executes(state) == flow.at = state
GoesOnWith(state) == flow' = [flow EXCEPT !.at = state]

(* start_hub(), which publishes a hub that did not run, and stop_hub() *)
ReloadHub ==
  /\ Executes("hub") /\ GoesOnWith("uplink")
  /\ hub' = ("HUB" \in config.mode)
  /\ IF hub' /\ ~hub
     THEN mdns' = Published(HubService) /\ asked' = asked \cup {HubService}
     ELSE UNCHANGED <<mdns, asked>>
  /\ UNCHANGED <<bits, station, events, handler, file, config, uplink, changes>>

ReloadUplink ==
  /\ Executes("uplink") /\ GoesOnWith("reload")
  /\ uplink' = ("UPLINK" \in config.mode)
  /\ UNCHANGED <<bits, station, events, handler, hub>> /\ NothingElse

Timer ==
  /\ Running /\ flow.timer
  /\ flow' = [flow EXCEPT !.timer = FALSE, !.queued = TRUE]
  /\ UNCHANGED <<bits, station, events, handler, hub, uplink>> /\ NothingElse

Flow == \/ SetsUp \/ StartWifi \/ WaitForConnect
        \/ Reload \/ ReloadHub \/ ReloadUplink

-----------------------------------------------------------------------------
(* Publications, on the executor *)

(* What runs a publication runs nothing of the flow. *)
Publishes(service) ==
  /\ Running /\ flow.at \notin {"hub", "uplink"} /\ service \in mdns.scheduled
  /\ UNCHANGED <<flow, bits, station, events, handler, file, config, hub,
                 uplink, asked>>

(* It fails, or the service is there already and is taken back first: either
   way it is scheduled again. *)
PublishFails(service) ==
  /\ Publishes(service) /\ changes < MaxChanges
  /\ changes' = changes + 1
  /\ mdns' = Published(service)

PublishAgain(service) ==
  /\ Publishes(service) /\ service \in mdns.advertised
  /\ mdns' = [Published(service) EXCEPT !.advertised = @ \ {service}]
  /\ UNCHANGED changes

PublishDone(service) ==
  /\ Publishes(service) /\ service \notin mdns.advertised
  /\ mdns' = [mdns EXCEPT !.scheduled = @ \ {service},
                          !.advertised = @ \cup {service}]
  /\ UNCHANGED changes

Publication == \E service \in Service :
  PublishFails(service) \/ PublishAgain(service) \/ PublishDone(service)

-----------------------------------------------------------------------------
(* The handlers of events, on the event loop *)

(* Mistake: the flow is woken before it can see that there is an address. *)
WithAddressNotified == <<"startMdns", "publishDeferred", "notify", "setGotIp">>
WithAddress == <<"startMdns", "publishDeferred", "setGotIp", "notify">>

(* Mistake: the station tries again only when the flow is woken. *)
WithoutNetworkGivesUp ==
  IF bits = Bit THEN <<"clearConnected", "clearGotIp", "notify", "connect">>
  ELSE <<"clearConnected", "clearGotIp">>
(* The bits are looked at once, before they are cleared. *)
WithoutNetwork ==
  (IF "CONNECTED" \in bits THEN <<"clearConnected", "clearGotIp">> ELSE <<>>)
  \o (IF bits = Bit THEN <<"notify">> ELSE <<>>)
  \o <<"connect">>

(* What the handlers do, in order: on_station_started(), _connected(),
   _disconnected(), _ip_assigned() and _ip_lost(). *)
Duties(event) ==
  CASE event = "started" -> <<"connect">>
    [] event = "connected" -> <<"setConnected">>
    [] event = "disconnected" -> WithoutNetwork
    [] event = "gotIp" -> WithAddress
    [] event = "lostIp" -> <<"clearGotIp", "notify">>

(* process_idf_event() *)
HandlerBegins ==
  /\ flow.at # "rebooted" /\ handler = <<>> /\ events # <<>>
  /\ handler' = Duties(Head(events)) /\ events' = Tail(events)
  /\ UNCHANGED <<flow, bits, station, hub, uplink>> /\ NothingElse

Does(duty) ==
  /\ flow.at # "rebooted" /\ handler # <<>> /\ Head(handler) = duty
  /\ UNCHANGED <<events, file, config, hub, uplink, asked, changes>>

Connect ==                                             \* esp_wifi_connect()
  /\ Does("connect") /\ handler' = Tail(handler)
  /\ station' = IF station = "idle" THEN "searching" ELSE station
  /\ UNCHANGED <<flow, bits, mdns>>

SetBits ==
  /\ \/ Does("setConnected") /\ bits' = bits \cup {"CONNECTED"}
     \/ Does("clearConnected") /\ bits' = bits \ {"CONNECTED"}
     \/ Does("setGotIp") /\ bits' = bits \cup {"GOTIP"}
     \/ Does("clearGotIp") /\ bits' = bits \ {"GOTIP"}
  /\ handler' = Tail(handler)
  /\ UNCHANGED <<flow, station, mdns>>

Notify ==
  /\ Does("notify") /\ handler' = Tail(handler)
  /\ flow' = Notified
  /\ UNCHANGED <<bits, station, mdns>>

(* Mistake: the list is cleared before it is gone through. *)
UndeferredCleared == [mdns EXCEPT !.deferred = {}]
Undeferred ==
  [mdns EXCEPT !.scheduled = @ \cup mdns.deferred, !.deferred = {}]

(* start_mdns_system(): the library is initialized once, under the lock, and
   what was asked for before is published without it. *)
StartMdns ==
  /\ Does("startMdns")
  /\ handler' = IF mdns.initialized THEN Tail(Tail(handler)) ELSE Tail(handler)
  /\ mdns' = [mdns EXCEPT !.initialized = TRUE]
  /\ UNCHANGED <<flow, bits, station>>

PublishDeferred ==
  /\ Does("publishDeferred") /\ handler' = Tail(handler)
  /\ mdns' = Undeferred
  /\ UNCHANGED <<flow, bits, station>>

Handler == \/ HandlerBegins \/ Connect \/ SetBits \/ Notify
           \/ StartMdns \/ PublishDeferred

-----------------------------------------------------------------------------
(* The configuration, on the executor of the stack *)

(* The first apply_configuration() starts the manager's executor. *)
InitialLoad ==
  /\ config.at = "initial"
  /\ config' = [config EXCEPT !.at = "idle", !.mode = file, !.crc = file]
  /\ UNCHANGED <<flow, bits, station, events, handler, file, hub, uplink, mdns,
                 asked, changes>>

(* The later ones load the mode; then they compare what the file holds. *)
ApplyConfiguration ==
  /\ Running /\ config.at = "idle" /\ config.updated
  /\ config' = [config EXCEPT !.at = "compare", !.updated = FALSE, !.mode = file]
  /\ UNCHANGED <<flow, bits, station, events, handler, file, hub, uplink, mdns,
                 asked, changes>>

CompareConfiguration ==
  /\ Running /\ config.at = "compare"
  /\ flow' = IF config.crc # file THEN Notified ELSE flow
  /\ config' = [config EXCEPT !.at = "idle", !.crc = file]
  /\ UNCHANGED <<bits, station, events, handler, file, hub, uplink, mdns,
                 asked, changes>>

Configuration == InitialLoad \/ ApplyConfiguration \/ CompareConfiguration

-----------------------------------------------------------------------------
(* The network, the owner, and the rest of the firmware *)

NetworkOnly == UNCHANGED <<flow, bits, handler, file, config, hub, uplink, mdns,
                           asked>>
Counted == changes < MaxChanges /\ changes' = changes + 1

Associate ==
  /\ flow.at # "rebooted" /\ station = "searching"
  /\ station' = "associated" /\ events' = Posted("connected")
  /\ NetworkOnly /\ UNCHANGED changes

AssignIp ==
  /\ flow.at # "rebooted" /\ station = "associated"
  /\ station' = "ip" /\ events' = Posted("gotIp")
  /\ NetworkOnly /\ UNCHANGED changes

(* The network goes away, or could not be joined; or the lease ends. *)
Disconnect ==
  /\ flow.at # "rebooted" /\ station \in {"searching", "associated", "ip"}
  /\ station' = "idle" /\ events' = Posted("disconnected")
  /\ NetworkOnly /\ Counted

LoseIp ==
  /\ flow.at # "rebooted" /\ station = "ip"
  /\ station' = "associated" /\ events' = Posted("lostIp")
  /\ NetworkOnly /\ Counted

Edit ==
  /\ Running /\ config.at = "idle"
  /\ file' \in SUBSET Mode /\ file' # file
  /\ config' = [config EXCEPT !.updated = TRUE]
  /\ Counted
  /\ UNCHANGED <<flow, bits, station, events, handler, hub, uplink, mdns, asked>>

(* ::mdns_publish(), which others may call from any thread *)
Ask(service) ==
  /\ flow.at # "rebooted" /\ service \notin asked
  /\ mdns' = Published(service) /\ asked' = asked \cup {service}
  /\ Counted
  /\ UNCHANGED <<flow, bits, station, events, handler, file, config, hub, uplink>>

(* The restart of LOG(FATAL) *)
Restart ==
  /\ flow.at = "rebooted"
  /\ flow' = Boot("flow") /\ config' = Boot("config") /\ mdns' = Boot("mdns")
  /\ bits' = {} /\ station' = "off" /\ events' = <<>> /\ handler' = <<>>
  /\ hub' = FALSE /\ uplink' = FALSE
  /\ asked' = {}
  /\ UNCHANGED <<file, changes>>

Outside == Disconnect \/ LoseIp \/ Edit \/ \E service \in Service : Ask(service)

Next == \/ Flow \/ Timer \/ Publication \/ Handler \/ Configuration
        \/ Associate \/ AssignIp \/ Restart \/ Outside

(* The threads run, the timer expires, and a network that stays lets the
   station join; the library takes a publication that it does not refuse. *)
Spec ==
  /\ Init /\ [][Next]_vars
  /\ WF_vars(Flow) /\ WF_vars(Timer) /\ WF_vars(Handler) /\ WF_vars(Configuration)
  /\ WF_vars(Associate) /\ WF_vars(AssignIp) /\ WF_vars(Restart)
  /\ \A service \in Service :
       WF_vars(PublishAgain(service) \/ PublishDone(service))

-----------------------------------------------------------------------------
(* Properties *)

(* Nothing is left to do: no event, no handler, no configuration, and the flow
   waits for the next notify(). *)
Quiet ==
  /\ flow.at = "reload" /\ ~flow.queued /\ ~flow.timer
  /\ events = <<>> /\ handler = <<>>
  /\ config.at = "idle" /\ ~config.updated

AsConfigured ==
  /\ hub = (station = "ip" /\ "HUB" \in file)
  /\ uplink = (station = "ip" /\ "UPLINK" \in file)

(* No wake-up is lost: whenever all is quiet the hub and the uplink run as the
   file says, with an address, and do not run without one, in whatever order
   the handlers, the flow and the configuration came to their steps. *)
Settled == Quiet => AsConfigured

(* What anyone asked to publish is never forgotten: it waits for mDNS, or it
   is scheduled, or it is advertised; and nothing waits for mDNS once that is
   up and its handler is done. *)
PublicationsKept ==
  /\ asked \subseteq mdns.deferred \cup mdns.scheduled \cup mdns.advertised
  /\ \/ mdns.deferred = {} \/ ~mdns.initialized
     \/ handler # <<>> /\ Head(handler) = "publishDeferred"

(* When the network, the owner and the others have done all they will, the
   board gets an address, comes to run what is configured and to advertise
   what was asked for, and stays so, unless it gives up and restarts again and
   again. *)
EndsAsConfigured ==
  \/ []<>(flow.at = "rebooted")
  \/ <>[](/\ station = "ip" /\ AsConfigured
          /\ asked \subseteq mdns.advertised)

=============================================================================
