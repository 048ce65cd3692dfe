------------------------------- MODULE Device -------------------------------
(***************************************************************************)
(* What the page knows of its own device: location sharing                 *)
(* (lib/geolocation.ts), the monitor that fills store.device from browser  *)
(* events (lib/deviceMonitor.ts), the ring of samples it keeps             *)
(* (lib/deviceHistory.ts) and the frame counter the samples read           *)
(* (lib/telemetry.ts).                                                     *)
(*                                                                         *)
(* The page is one thread, so a handler is one step; what interleaves is   *)
(* every answer that comes back later (a position, the battery, the GPU    *)
(* adapter, a storage estimate) with stopping, restarting, hiding and      *)
(* sharing again.                                                          *)
(*                                                                         *)
(* Left out: the values read (a reading is known or not), and the numbers  *)
(* a sample carries besides its time.                                      *)
(***************************************************************************)
EXTENDS Integers, FiniteSets, Sequences, TLC

CONSTANTS
  Geolocation,  \* the browser can be asked for a position
  HistoryMax,   \* HISTORY_MAX
  Readers,      \* mounted components that may call useTelemetry
  MaxAsks,      \* bound: position requests in flight
  MaxStarts,    \* bound: times the monitor is started
  MaxTicks      \* bound: sampling intervals

ASSUME DeviceAssumption ==
  Geolocation \in BOOLEAN /\ HistoryMax \in Nat \ {0} /\ MaxAsks \in Nat

VARIABLES
  sharing,  \* store.locationStatus
  asks,     \* position requests not answered: [n, refresh]
  aged,     \* the fix is older than LOCATION_MAX_AGE_MS
  wanted,   \* wantLocate of the map: fly to the next fix
  monitor,  \* starts: closures made so far; live: the last one is running
  heard,    \* <<start, source>> of each listener, observer and interval
  jobs,     \* <<start, reading>> of each promise not settled
  device,   \* the readings of store.device that come from promises
  hidden,   \* document.hidden
  meter,    \* telemetry: readers, running, frames requested, one was timed
  clock, history,  \* sampling intervals passed; the times of the samples
  seen      \* specification only: the intervals that ended in view

where == <<sharing, asks, aged, wanted>>
watch == <<monitor, heard, jobs, device>>
ring == <<clock, history, seen>>
vars == <<where, watch, hidden, meter, ring>>
----------------------------------------------------------------------------
\* Location sharing

Unused == CHOOSE n \in 1..MaxAsks + 1 : \A a \in asks : a.n # n

\* A first request shows as pending; a refresh leaves the fix usable.  A browser
\* that cannot be asked is unavailable at once.
acquire(refresh) ==
  /\ IF Geolocation
       THEN /\ Cardinality(asks) < MaxAsks
            /\ asks' = asks \union {[n |-> Unused, refresh |-> refresh]}
       ELSE asks' = asks
  /\ sharing' = CASE refresh -> sharing
                  [] ~refresh ->
                       IF Geolocation THEN "pending" ELSE "unavailable"
  /\ UNCHANGED aged

refreshIfStale ==
  IF sharing = "on" /\ aged THEN acquire(TRUE) /\ UNCHANGED wanted
  ELSE UNCHANGED where

\* At load, by the LOC button and by a search that starts from there.
ShareLocation ==
  /\ acquire(FALSE)
  /\ UNCHANGED <<wanted, watch, hidden, meter, ring>>

\* The own-position button of the map: a known position is flown to at once.
locate ==
  /\ sharing # "on"
  /\ wanted' = TRUE
  /\ acquire(FALSE)
  /\ UNCHANGED <<watch, hidden, meter, ring>>

\* The map's effect of a new location: what was wanted is flown to, once.
Flown == wanted' = FALSE

\* The wish is the map's, and goes with it.
MapCloses ==
  /\ wanted
  /\ wanted' = FALSE
  /\ UNCHANGED <<sharing, asks, aged, watch, hidden, meter, ring>>

stopSharing ==
  /\ sharing = "on"
  /\ sharing' = "off"
  /\ UNCHANGED <<asks, aged, wanted, watch, hidden, meter, ring>>

\* The button of the input bar, disabled while an answer is awaited.
LocButton ==
  /\ sharing # "pending"
  /\ stopSharing \/ (sharing # "on" /\ ShareLocation)

\* Slip: a position that arrives is taken, whatever has happened since.
FixedSlip(a) ==
  /\ asks' = asks \ {a}
  /\ sharing' = "on" /\ aged' = FALSE /\ Flown
  /\ UNCHANGED <<watch, hidden, meter, ring>>

\* Turned off while this fix was in flight: it does not switch back on.
Fixed(a) ==
  /\ asks' = asks \ {a}
  /\ IF sharing \in {"pending", "on"}
       THEN sharing' = "on" /\ aged' = FALSE /\ Flown
       ELSE UNCHANGED <<sharing, aged, wanted>>
  /\ UNCHANGED <<watch, hidden, meter, ring>>

\* Slip: an attempt that timed out leaves the status alone.
FixFailedSlip(a, code) ==
  /\ asks' = asks \ {a}
  /\ sharing' = IF sharing # "off" /\ code = "denied" THEN "denied" ELSE sharing
  /\ UNCHANGED <<aged, wanted, watch, hidden, meter, ring>>

\* Only a revoked permission ends sharing on a refresh.
FixFailed(a, code) ==
  /\ asks' = asks \ {a}
  /\ sharing' = CASE sharing = "off" -> "off"
                  [] sharing # "off" /\ code = "denied" -> "denied"
                  [] sharing # "off" /\ code # "denied" ->
                       IF a.refresh /\ sharing = "on" THEN "on"
                       ELSE "unavailable"
  /\ UNCHANGED <<aged, wanted, watch, hidden, meter, ring>>

FixAges ==
  /\ sharing = "on" /\ ~aged
  /\ aged' = TRUE
  /\ UNCHANGED <<sharing, asks, wanted, watch, hidden, meter, ring>>
----------------------------------------------------------------------------
\* The monitor

Now == monitor.starts

\* Registered in the body of the start; the battery's come with its promise.
Sources ==
  {"net", "locale", "screen", "pressure", "storage", "sampler", "page"}

\* Two kinds of promise: "battery", listened to once it is there, and "once",
\* a reading taken as it settles (the GPU adapter, a storage estimate).  A
\* hidden page asks for no estimate.
requestAdapter(start) == {<<start, "once">>}
readStorage(start) == IF hidden THEN {} ELSE {<<start, "once">>}

startDeviceMonitor ==
  /\ ~monitor.live
  /\ Now < MaxStarts
  /\ monitor' = [starts |-> Now + 1, live |-> TRUE]
  /\ heard' = heard \union ({Now + 1} \X Sources)
  /\ jobs' = jobs \union {<<Now + 1, "battery">>}
                  \union requestAdapter(Now + 1) \union readStorage(Now + 1)
  /\ UNCHANGED <<device, where, hidden, meter, ring>>

\* Slip: the sampler is not among the cleanups.
stopActiveSlip ==
  /\ monitor.live
  /\ monitor' = [monitor EXCEPT !.live = FALSE]
  /\ heard' = {h \in heard : h[1] # Now \/ h[2] = "sampler"}
  /\ UNCHANGED <<jobs, device, where, hidden, meter, ring>>

\* Runs the cleanups collected so far.
stopActive ==
  /\ monitor.live
  /\ monitor' = [monitor EXCEPT !.live = FALSE]
  /\ heard' = {h \in heard : h[1] # Now}
  /\ UNCHANGED <<jobs, device, where, hidden, meter, ring>>

\* Slip: one flag for all starts.
aliveSlip(start) == monitor.live

alive(start) == monitor.live /\ start = Now

Settled(job) ==
  /\ jobs' = jobs \ {job}
  /\ IF alive(job[1])
       THEN /\ device' = device \union {job[2]}
            /\ heard' = IF job[2] = "battery" THEN heard \union {job}
                        ELSE heard
       ELSE UNCHANGED <<device, heard>>
  /\ UNCHANGED <<monitor, where, hidden, meter, ring>>

Rejected(job) ==
  /\ jobs' = jobs \ {job}
  /\ UNCHANGED <<monitor, heard, device, where, hidden, meter, ring>>

\* STORAGE_POLL_MS: the one reading on a timer.
StoragePoll ==
  /\ \E h \in heard :
       h[2] = "storage" /\ jobs' = jobs \union readStorage(h[1])
  /\ UNCHANGED <<monitor, heard, device, where, hidden, meter, ring>>

\* Each sample is appended and the newest HistoryMax are kept.
pushSamples(buf, samples) ==
  LET all == buf \o samples
  IN  IF Len(all) > HistoryMax
        THEN SubSeq(all, Len(all) - HistoryMax + 1, Len(all)) ELSE all

\* HISTORY_INTERVAL_S passes: every sampler running on a visible page adds one
\* sample.
Tick ==
  LET samplers == IF hidden THEN {} ELSE {h \in heard : h[2] = "sampler"}
  IN  /\ clock < MaxTicks
      /\ clock' = clock + 1
      /\ history' = pushSamples(history,
                                [i \in 1..Cardinality(samplers) |-> clock + 1])
      /\ seen' = IF monitor.live /\ ~hidden THEN seen \union {clock + 1}
                 ELSE seen
      /\ UNCHANGED <<watch, where, hidden, meter>>
----------------------------------------------------------------------------
\* The frame counter

cancelled(frames) == IF frames = 0 THEN 0 ELSE frames - 1

start(m) ==
  IF m.running THEN m
  ELSE [m EXCEPT !.running = TRUE, !.frames = @ + 1]

stop(m) ==
  [m EXCEPT !.running = FALSE, !.frames = cancelled(@), !.timed = FALSE]

\* A frame of a visible page: timed from the one before, and the next is
\* requested.
loop ==
  /\ meter.frames > 0 /\ ~hidden
  /\ meter' = [meter EXCEPT !.timed = TRUE]
  /\ UNCHANGED <<where, watch, hidden, ring>>

\* Slip: coming back requests a frame, also when one is requested.
onVisibilitySlip(m, hid) ==
  CASE ~m.running -> m
    [] m.running /\ hid ->
         [m EXCEPT !.frames = cancelled(@), !.timed = FALSE]
    [] m.running /\ ~hid -> [m EXCEPT !.frames = @ + 1]

\* The listener is there only while the loop is running.
onVisibility(m, hid) ==
  CASE ~m.running -> m
    [] m.running /\ hid ->
         [m EXCEPT !.frames = cancelled(@), !.timed = FALSE]
    [] m.running /\ ~hid -> IF m.frames > 0 THEN m ELSE [m EXCEPT !.frames = 1]

ReaderMounts(r) ==
  /\ r \notin meter.readers
  /\ meter' = [start(meter) EXCEPT !.readers = @ \union {r}]
  /\ UNCHANGED <<where, watch, hidden, ring>>

ReaderLeaves(r) ==
  LET left == [meter EXCEPT !.readers = @ \ {r}]
  IN  /\ r \in meter.readers
      /\ meter' = IF left.readers = {} THEN stop(left) ELSE left
      /\ UNCHANGED <<where, watch, hidden, ring>>

\* visibilitychange: the counter's handler and the monitor's.  Coming back
\* reads the storage and, if it is old, the position again.
Visibility ==
  /\ hidden' = ~hidden
  /\ meter' = onVisibility(meter, hidden')
  /\ IF ~hidden' /\ <<Now, "page">> \in heard
       THEN jobs' = jobs \union {<<Now, "once">>} /\ refreshIfStale
       ELSE UNCHANGED <<jobs, where>>
  /\ UNCHANGED <<monitor, heard, device, ring>>
----------------------------------------------------------------------------
Init ==
  /\ sharing = "off" /\ asks = {} /\ aged = FALSE /\ wanted = FALSE
  /\ monitor = [starts |-> 0, live |-> FALSE]
  /\ heard = {} /\ jobs = {} /\ device = {}
  /\ hidden \in BOOLEAN
  /\ meter = [readers |-> {}, running |-> FALSE, frames |-> 0, timed |-> FALSE]
  /\ clock = 0 /\ history = <<>> /\ seen = {}

Sharing ==
  \/ ShareLocation \/ LocButton \/ locate \/ MapCloses \/ FixAges
  \/ \E a \in asks :
       Fixed(a) \/ \E code \in {"denied", "timeout"} : FixFailed(a, code)

Monitoring ==
  \/ startDeviceMonitor \/ stopActive \/ StoragePoll \/ Tick \/ Visibility
  \/ \E job \in jobs : Settled(job) \/ Rejected(job)

Counting == \E r \in Readers : ReaderMounts(r) \/ ReaderLeaves(r) \/ loop

Next == Sharing \/ Monitoring \/ Counting

Spec == Init /\ [][Next]_vars

\* Only their number matters.
ReadersAlike == Permutations(Readers)
----------------------------------------------------------------------------
\* Location turned off stays off until it is asked for again: no answer that
\* was in flight switches it back on (geolocation.ts:31-40).  Asking makes a
\* request, or finds that none can be made.
NeverSwitchedBackOn ==
  [][sharing = "off" /\ sharing' # "off"
       => \/ Cardinality(asks') > Cardinality(asks)
          \/ ~Geolocation /\ sharing' = "unavailable"]_vars

\* Whoever sees "pending" is waiting for an answer that can still come, in
\* whatever order the answers of several requests and a stop arrive, and a map
\* that waits to fly to the operator has not missed a fix
\* (geolocation.ts:35-48, MapLayer.tsx:290).
PendingIsAsked ==
  /\ sharing = "pending" => \E a \in asks : ~a.refresh
  /\ wanted => sharing # "on"

\* What listens or writes belongs to the monitor that is running: a promise
\* that settles after a stop registers nothing, also when a second monitor has
\* been started meanwhile, and from a stop to the next start the readings stand
\* still (deviceMonitor.ts:101, :105, :133, :141).
StoppedMeansStopped ==
  /\ [](\A h \in heard : monitor.live /\ h[1] = Now)
  /\ [][~monitor.live /\ ~monitor'.live => device' = device]_vars

\* The history is the newest intervals that ended in view of a running
\* monitor, once each and in order, so a gap is time away (deviceMonitor.ts:148-151).
HistoryIsTimeInView ==
  LET kept == {history[i] : i \in 1..Len(history)}
  IN  /\ \A i, j \in 1..Len(history) : i < j => history[i] < history[j]
      /\ kept \subseteq seen /\ Len(history) <= HistoryMax
      /\ \A t \in seen \ kept :
           Len(history) = HistoryMax /\ \A k \in kept : t < k

\* However readers come and go and the page is hidden and shown, there is one
\* frame loop while anyone reads on a visible page and none after the last
\* reader, and no frame is timed from one before the page was hidden or the
\* loop stopped (telemetry.ts:53, :78-108, :143-149).
OneLoopWhileRead ==
  /\ meter.frames <= 1
  /\ meter.readers = {} => meter.frames = 0
  /\ meter.readers # {} /\ ~hidden => meter.frames = 1
  /\ meter.timed => meter.frames = 1 /\ ~hidden
=============================================================================
